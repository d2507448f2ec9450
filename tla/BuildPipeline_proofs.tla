------------------------- MODULE BuildPipeline_proofs -------------------------
(* Proofs about the command, for any packages, dependency graphs and         *)
(* candidates, whatever files the directories of packages have in common.    *)
(* The invariant says what candidates the repairs have accepted, where the   *)
(* units are in the loops of async_main, and how the files of the host       *)
(* follow from the repairs of the built units and of the one being run.      *)
EXTENDS BuildPipeline, FiniteSetTheorems, TLAPS

HostFiles == [Sources -> Contents \union {Absent, Torn}]

ContractTypes ==
    /\ host \in HostFiles
    /\ before \in [Sources -> Contents \union {Absent}]
    /\ offer \in [Units -> {<<>>} \union UNION {Offers[u] : u \in Units}]
    /\ accepted \in [Units -> 0 .. MaxRetries]
    /\ verdict \in [Units -> Verdict]

(* What is accepted for a unit is a candidate made for it. *)
RepairState(u) ==
    /\ offer[u] \in Offers[u] \union {<<>>}
    /\ accepted[u] # 0 =>
          accepted[u] \in 1 .. Len(offer[u]) /\ Accepted(u) \in Dir[u] \X Contents
    /\ verdict[u] = "idle" => accepted[u] = 0
    /\ verdict[u] = "healed" => accepted[u] # 0

ContractInv == ContractTypes /\ \A u \in Units : RepairState(u)

(* The steps a unit's repair can take. *)
UnitStep(u) == Call(u) \/ Proceed(u) \/ Abandon(u) \/ Settle(u)

Same(u) == offer'[u] = offer[u] /\ accepted'[u] = accepted[u] /\ verdict'[u] = verdict[u]

(* The file that was accepted for a unit, with some content, is written. *)
WriteOf(u) ==
    /\ accepted[u] # 0
    /\ UNCHANGED <<offer, accepted, verdict>>
    /\ \E c \in {Torn, Accepted(u)[2]} : host' = With(host, <<Accepted(u)[1], c>>)

-----------------------------------------------------------------------------
(* Lists of candidates, and those that are tried. *)
LEMMA TriedRange ==
    ASSUME NEW u \in Units, NEW list \in Offers[u] \union {<<>>}
    PROVE  /\ Len(list) \in Nat
           /\ Tried(list) \in Nat
           /\ Tried(list) <= Len(list) /\ Tried(list) <= MaxRetries
           /\ \A k \in 1 .. Len(list) : list[k] \in Dir[u] \X Contents
<1>1. list \in Seq(Dir[u] \X Contents)
  <2>1. CASE list \in Offers[u] BY <2>1, OffersAssumption
  <2>2. CASE list = <<>>
    <3>1. <<>> \in Seq(Dir[u] \X Contents) OBVIOUS
    <3> QED BY <2>2, <3>1, Zenon
  <2> QED BY <2>1, <2>2
<1>2. Len(list) \in Nat BY <1>1
<1>3. \A k \in 1 .. Len(list) : list[k] \in Dir[u] \X Contents BY <1>1
<1> QED BY <1>2, <1>3, OffersAssumption DEF Tried

(* Writing to one file, once and again. *)
LEMMA WithFacts ==
    ASSUME NEW files \in HostFiles, NEW file \in Sources,
           NEW c \in Contents \union {Absent, Torn}
    PROVE  /\ With(files, <<file, c>>) \in HostFiles
           /\ With(files, <<file, c>>)[file] = c
           /\ \A f \in Sources \ {file} : With(files, <<file, c>>)[f] = files[f]
           /\ \A d : With(With(files, <<file, c>>), <<file, d>>) = With(files, <<file, d>>)
           /\ files[file] = c => With(files, <<file, c>>) = files
  BY DEF With, HostFiles

(* A repair's state depends on its own unit only. *)
LEMMA SameRepairState ==
    ASSUME NEW u \in Units, RepairState(u), Same(u) PROVE RepairState(u)'
  BY DEF RepairState, Accepted, Same

(* The candidate that was accepted names a file of the unit's directory. *)
LEMMA AcceptedFacts ==
    ASSUME NEW u \in Units, RepairState(u), accepted[u] # 0
    PROVE  /\ Accepted(u) = <<Accepted(u)[1], Accepted(u)[2]>>
           /\ Accepted(u)[1] \in Dir[u] /\ Accepted(u)[1] \in Sources
           /\ Accepted(u)[2] \in Contents
<1>1. Accepted(u) \in Dir[u] \X Contents BY DEF RepairState
<1>2. Dir[u] \subseteq Sources BY DirAssumption
<1> QED BY <1>1, <1>2

(* A step of a repair writes the accepted file, or no file. *)
LEMMA HostAfterStep ==
    ASSUME NEW u \in Units, RepairState(u), UnitStep(u)
    PROVE  host' = host \/ WriteOf(u)
<1>1. CASE Tear(u) BY <1>1 DEF Tear, Writing, WriteOf
<1>2. CASE Apply(u)
  <2>1. accepted[u] # 0 /\ host' = With(host, Accepted(u)) /\ UNCHANGED <<offer, accepted, verdict>>
    BY <1>2 DEF Apply, Writing
  <2>2. Accepted(u) = <<Accepted(u)[1], Accepted(u)[2]>> BY <2>1, AcceptedFacts
  <2> QED BY <2>1, <2>2 DEF WriteOf
<1>3. CASE Call(u) \/ Accept(u) BY <1>3 DEF Call, Accept
<1>4. CASE Heal(u) \/ Refuse(u) \/ Fail(u) \/ Abandon(u) \/ Settle(u)
  BY <1>4 DEF Heal, Refuse, Fail, Abandon, Settle, Answers
<1> QED BY <1>1, <1>2, <1>3, <1>4 DEF UnitStep, Proceed

(* A step of one repair keeps its state and leaves the others alone. *)
LEMMA UnitStepKeeps ==
    ASSUME ContractInv, NEW u \in Units, UnitStep(u), UNCHANGED before
    PROVE  ContractInv' /\ \A v \in Units \ {u} : Same(v)
<1> USE DEF ContractTypes
<1>0. ContractTypes /\ RepairState(u) BY DEF ContractInv
<1>s. SUFFICES ContractTypes' /\ RepairState(u)' /\ \A v \in Units \ {u} : Same(v)
  <2>1. ASSUME NEW v \in Units, ContractTypes', RepairState(u)', \A w \in Units \ {u} : Same(w)
        PROVE RepairState(v)'
    <3>1. CASE v = u BY <2>1, <3>1
    <3>2. CASE v # u BY <2>1, <3>2, SameRepairState DEF ContractInv
    <3> QED BY <3>1, <3>2
  <2> QED BY <2>1 DEF ContractInv
<1>1. CASE Call(u)
  <2>1. PICK list \in Offers[u] :
          /\ offer' = [offer EXCEPT ![u] = list]
          /\ verdict' = [verdict EXCEPT
                ![u] = IF Tried(list) = 0 THEN "no_candidates" ELSE "open"]
    BY <1>1 DEF Call
  <2>2. UNCHANGED <<host, accepted>> /\ verdict[u] = "idle" /\ accepted[u] = 0
    BY <1>1, <1>0 DEF Call, RepairState
  <2>3. ContractTypes' BY <2>1, <2>2, <1>0 DEF Verdict, Refusals
  <2>4. verdict'[u] \in {"no_candidates", "open"} BY <2>1, <1>0
  <2>5. offer'[u] \in Offers[u] BY <2>1, <1>0
  <2>6. \A v \in Units \ {u} : Same(v) BY <2>1, <2>2, <1>0 DEF Same
  <2> QED BY <2>2, <2>3, <2>4, <2>5, <2>6 DEF RepairState
<1>2. CASE Accept(u)
  <2>1. PICK k \in 1 .. Tried(offer[u]) : accepted' = [accepted EXCEPT ![u] = k]
    BY <1>2 DEF Accept
  <2>2. UNCHANGED <<host, offer, verdict>> /\ verdict[u] = "open" /\ accepted[u] = 0
    BY <1>2 DEF Accept
  <2>3. offer[u] \in Offers[u] \union {<<>>} BY <1>0 DEF RepairState
  <2>4. k \in 1 .. Len(offer[u]) /\ k \in 0 .. MaxRetries /\ k # 0
    BY <2>1, <2>3, TriedRange, OffersAssumption
  <2>5. offer[u][k] \in Dir[u] \X Contents BY <2>3, <2>4, TriedRange
  <2>6. accepted'[u] = k /\ Accepted(u)' = offer[u][k] BY <2>1, <2>2, <1>0 DEF Accepted
  <2>7. ContractTypes' BY <2>1, <2>2, <2>4, <1>0
  <2>8. RepairState(u)' BY <2>2, <2>3, <2>4, <2>5, <2>6 DEF RepairState
  <2>9. \A v \in Units \ {u} : Same(v) BY <2>1, <2>2, <1>0 DEF Same
  <2> QED BY <2>7, <2>8, <2>9
<1>3. CASE Tear(u) \/ Apply(u)
  <2>1. UNCHANGED <<offer, accepted, verdict>> /\ accepted[u] # 0
    BY <1>3 DEF Tear, Apply, Writing
  <2>2. PICK c \in {Torn, Accepted(u)[2]} : host' = With(host, <<Accepted(u)[1], c>>)
    <3>1. Accepted(u) = <<Accepted(u)[1], Accepted(u)[2]>> BY <2>1, <1>0, AcceptedFacts
    <3> QED BY <1>3, <3>1 DEF Tear, Apply
  <2>3. Accepted(u)[1] \in Sources /\ c \in Contents \union {Absent, Torn}
    BY <2>1, <1>0, AcceptedFacts
  <2>4. host' \in HostFiles BY <2>2, <2>3, <1>0, WithFacts
  <2>5. \A v \in Units : Same(v) BY <2>1 DEF Same
  <2>6. RepairState(u)' BY <2>5, <1>0, SameRepairState
  <2> QED BY <2>1, <2>4, <2>5, <2>6, <1>0
<1>4. CASE Heal(u) \/ Refuse(u) \/ Fail(u) \/ Abandon(u) \/ Settle(u)
  <2>1. PICK how \in Refusals \union {"healed", "abandoned", "ended"} :
          Answers(u, how) /\ (how = "healed" => accepted[u] # 0)
    BY <1>4 DEF Heal, Refuse, Fail, Abandon, Settle, Refusals
  <2>2. UNCHANGED <<host, offer, accepted>> /\ verdict' = [verdict EXCEPT ![u] = how]
    BY <2>1 DEF Answers
  <2>3. verdict'[u] = how /\ how # "idle" BY <2>2, <1>0 DEF Refusals
  <2>4. RepairState(u)' BY <2>1, <2>2, <2>3, <1>0 DEF RepairState, Accepted
  <2>5. ContractTypes' BY <2>2, <1>0 DEF Verdict
  <2>6. \A v \in Units \ {u} : Same(v) BY <2>2, <1>0 DEF Same
  <2> QED BY <2>4, <2>5, <2>6
<1> QED BY <1>1, <1>2, <1>3, <1>4 DEF UnitStep, Proceed

-----------------------------------------------------------------------------
(* Where the units are in the loops over the bands and their units. *)
LoopTypes ==
    /\ deps \in [Units -> SUBSET Units]
    /\ placed \subseteq Scheduled
    /\ band \subseteq placed
    /\ cur \in (placed \ band) \union {NoUnit}
    /\ passed \in BOOLEAN
    /\ built \subseteq placed \ band
    /\ skipped \subseteq placed \ (band \union built)
    /\ step \in Awaiting \union {"discover", "schedule", "leaving", "exited"}
    /\ code \in Codes \union {NoCode}
    /\ step \in Awaiting => cur \in Units
    /\ code = NoCode <=> step \notin {"leaving", "exited"}

(* The units of the band and the one being run wait for none of each other. *)
Placement ==
    /\ placed \ band = built \union skipped \union ({cur} \ {NoUnit})
    /\ cur \notin built \union skipped
    /\ \A u \in placed : deps[u] \intersect Scheduled \subseteq placed
    /\ \A u \in band \union {cur} :
          u # NoUnit => deps[u] \intersect Scheduled \subseteq placed \ (band \union {cur})

Phases ==
    /\ step = "discover" => placed = {}
    /\ step \in {"discover", "schedule"} => cur = NoUnit /\ ~passed
    /\ code = 0 => cur = NoUnit /\ band = {} /\ placed = Scheduled
    /\ code = 1 => placed = {}
    /\ code \in {2, 101} => cur \in Units

LoopInv == local \subseteq Units /\ LoopTypes /\ Placement /\ Phases

(* How far the repairs are: only the unit being run can be in the middle of *)
(* one, or have failed.                                                     *)
RepairsInv ==
    /\ \A u \in Units \ {cur} :
          verdict[u] \in {"idle", "healed"} /\ (verdict[u] = "healed" => u \in built)
    /\ step \in {"mount", "validate"} => verdict[cur] = "idle" /\ ~passed
    /\ step = "repair" => verdict[cur] \in {"open", "healed"} \union Refusals /\ ~passed
    /\ step = "teardown" /\ passed => verdict[cur] = "idle" /\ BuildsOn(host, cur)
    /\ step = "teardown" /\ ~passed => verdict[cur] \in {"healed"} \union Refusals

(* What is accepted for the unit being run makes its directory build, and   *)
(* is on the host once its repair has answered success.                     *)
CurrentState ==
    cur \in Units =>
        /\ accepted[cur] # 0 => BuildsOn(With(host, Accepted(cur)), cur)
        /\ verdict[cur] = "healed" => host[Accepted(cur)[1]] = Accepted(cur)[2]

(* The host shows the repairs of built units and of the one being run. *)
HostState == \A file \in Sources : host[file] \in LeftOf(file) \union InWork(file)

Inv == ContractInv /\ LoopInv /\ RepairsInv /\ CurrentState /\ HostState

(* Nothing but packages is scheduled. *)
LEMMA ScheduledUnits == ASSUME local \subseteq Units PROVE Scheduled \subseteq Units
  BY DEF Scheduled

(* What discover found decides what is scheduled. *)
LEMMA GraphKept ==
    ASSUME UNCHANGED graphVars
    PROVE  Scheduled' = Scheduled /\ deps' = deps /\ local' = local /\ before' = before
  BY DEF graphVars, Scheduled, HasOrder

(* A graph in order has a next band until all its units are placed. *)
LEMMA FrontierUntilPlaced ==
    ASSUME local \subseteq Units, placed \subseteq Scheduled, Frontier = {}
    PROVE  placed = Scheduled
<1>1. CASE ~HasOrder BY <1>1 DEF Scheduled
<1>2. CASE HasOrder /\ Scheduled \ placed # {}
  <2>1. Scheduled \ placed \in (SUBSET Units) \ {{}} BY <1>2, ScheduledUnits
  <2>2. PICK u \in Scheduled \ placed : deps[u] \intersect (Scheduled \ placed) = {}
    BY <1>2, <2>1 DEF HasOrder
  <2>3. u \in Frontier BY <2>2 DEF Frontier
  <2> QED BY <2>3
<1> QED BY <1>1, <1>2

-----------------------------------------------------------------------------
(* The invariant holds before discover. *)
LEMMA InitInv == Init => Inv
<1> SUFFICES ASSUME Init PROVE Inv OBVIOUS
<1>1. /\ host \in Hosts /\ offer = [u \in Units |-> <<>>]
      /\ accepted = [u \in Units |-> 0] /\ verdict = [u \in Units |-> "idle"]
      /\ before = host /\ cur = NoUnit /\ built = {}
  BY DEF Init, ContractInit
<1>2. ContractTypes
  <2>1. host \in HostFiles /\ before \in [Sources -> Contents \union {Absent}]
    BY <1>1, HostsAssumption DEF HostFiles
  <2>2. offer \in [Units -> {<<>>} \union UNION {Offers[u] : u \in Units}] BY <1>1
  <2>3. accepted \in [Units -> 0 .. MaxRetries] BY <1>1, OffersAssumption
  <2>4. verdict \in [Units -> Verdict] BY <1>1 DEF Verdict
  <2> QED BY <2>1, <2>2, <2>3, <2>4 DEF ContractTypes
<1>3. ContractInv BY <1>1, <1>2 DEF ContractInv, RepairState
<1>4. deps \in [Units -> SUBSET Units] /\ local \subseteq Units
  BY GraphsAssumption DEF Init
<1>5. LoopInv
  <2>1. /\ placed = {} /\ band = {} /\ cur = NoUnit /\ passed = FALSE
        /\ built = {} /\ skipped = {} /\ step = "discover" /\ code = NoCode
    BY DEF Init
  <2>2. LoopTypes BY <1>4, <2>1 DEF LoopTypes, Awaiting, Codes, NoCode
  <2>3. Placement BY <2>1 DEF Placement
  <2>4. Phases BY <2>1 DEF Phases, NoCode
  <2> QED BY <1>4, <2>2, <2>3, <2>4 DEF LoopInv
<1>6. RepairsInv BY <1>1 DEF Init, RepairsInv
<1>7. CurrentState BY <1>1, NoUnitAssumption DEF CurrentState
<1>8. HostState BY <1>1 DEF HostState, LeftOf, Writers
<1> QED BY <1>3, <1>5, <1>6, <1>7, <1>8 DEF Inv

(* What a step does to the repairs: nothing, or a step of that of the unit *)
(* being run.                                                              *)
LEMMA OnlyCurrentRepairMoves ==
    ASSUME Inv, [Next]_vars
    PROVE  /\ UNCHANGED graphVars
           /\ UNCHANGED contractVars \/ (cur \in Units /\ UnitStep(cur))
<1> USE DEF UnitStep
<1>1. cur \in Units \/ cur = NoUnit BY ScheduledUnits DEF Inv, LoopInv, LoopTypes
<1>2. step \in Awaiting => cur \in Units BY DEF Inv, LoopInv, LoopTypes
<1>3. CASE ValidationFailed
  BY <1>2, <1>3 DEF ValidationFailed, Awaiting
<1>4. CASE RepairProceeds
  BY <1>2, <1>4 DEF RepairProceeds, Awaiting
<1>5. CASE TimeoutFires
  BY <1>2, <1>5 DEF TimeoutFires
<1>6. CASE Straggles
  BY <1>1, <1>6 DEF Straggles, Proceed
<1>7. CASE StragglerEnds
  BY <1>1, <1>7 DEF StragglerEnds
<1>8. CASE Exited \/ UNCHANGED vars
  BY <1>8 DEF Exited, vars, graphVars, contractVars
<1>9. CASE Discover \/ NextBand \/ \E u \in Units : TakeUnit(u)
  BY <1>9 DEF Discover, NextBand, TakeUnit
<1>10. CASE MountReturned \/ ValidationPassed \/ ValidationBroke
  BY <1>10 DEF MountReturned, ValidationPassed, ValidationBroke
<1>11. CASE RepairReturned \/ TeardownReturned \/ Exit
  BY <1>11 DEF RepairReturned, TeardownReturned, Exit
<1> QED BY <1>3, <1>4, <1>5, <1>6, <1>7, <1>8, <1>9, <1>10, <1>11 DEF Next, Main

(* No step touches the repair of a unit other than the current one. *)
LEMMA ContractKept ==
    ASSUME Inv, [Next]_vars
    PROVE  ContractInv' /\ \A u \in Units \ {cur} : Same(u)
<1>1. CASE UNCHANGED contractVars
  <2>1. before' = before BY OnlyCurrentRepairMoves, GraphKept
  <2>2. \A u \in Units : Same(u) BY <1>1, <2>1 DEF contractVars, Same
  <2>3. \A u \in Units : RepairState(u)'
    BY <2>2, SameRepairState DEF Inv, ContractInv
  <2>4. ContractTypes' BY <1>1, <2>1 DEF Inv, ContractInv, ContractTypes, contractVars
  <2> QED BY <2>2, <2>3, <2>4 DEF ContractInv
<1>2. CASE cur \in Units /\ UnitStep(cur)
  BY <1>2, OnlyCurrentRepairMoves, GraphKept, UnitStepKeeps DEF Inv
<1> QED BY <1>1, <1>2, OnlyCurrentRepairMoves

(* The loops over bands and units keep their part of the invariant. *)
LEMMA LoopKept == ASSUME Inv, [Next]_vars PROVE LoopInv'
<1> USE NoUnitAssumption DEF LoopInv, LoopTypes, Placement, Phases, Awaiting, Codes, NoCode,
        Goes, Leaves
<1>1. /\ LoopInv /\ Scheduled \subseteq Units
      /\ Scheduled' = Scheduled /\ deps' = deps /\ local' = local
  BY OnlyCurrentRepairMoves, GraphKept, ScheduledUnits DEF Inv
<1>2. CASE Discover BY <1>1, <1>2 DEF Discover
<1>3. CASE NextBand
  <2>1. CASE Frontier = {}
    <3>1. placed = Scheduled BY <1>1, <2>1, FrontierUntilPlaced
    <3> QED BY <1>1, <1>3, <2>1, <3>1 DEF NextBand
  <2>2. CASE Frontier # {}
    <3>1. /\ step = "schedule" /\ band = {} /\ step' = "schedule" /\ code' = code
          /\ band' = Frontier /\ placed' = placed \union Frontier
          /\ UNCHANGED <<cur, passed, built, skipped>>
      BY <1>3, <2>2 DEF NextBand
    <3>2. /\ Frontier \subseteq Scheduled /\ Frontier \intersect placed = {}
          /\ \A u \in Frontier : deps[u] \intersect Scheduled \subseteq placed
      BY DEF Frontier
    <3>3. LoopTypes' BY <1>1, <3>1, <3>2
    <3>4. Placement'
      <4>1. placed' \ band' = placed BY <1>1, <3>1, <3>2
      <4>2. \A u \in placed' : deps[u] \intersect Scheduled \subseteq placed'
        BY <1>1, <3>1, <3>2
      <4>3. cur = NoUnit BY <1>1, <3>1
      <4>4. \A u \in band' \union {cur'} : u # NoUnit =>
              deps[u] \intersect Scheduled \subseteq placed' \ (band' \union {cur'})
        BY <1>1, <3>1, <3>2, <4>1, <4>3
      <4> QED BY <1>1, <3>1, <4>1, <4>2, <4>4
    <3>5. Phases' BY <1>1, <3>1, <3>2
    <3> QED BY <1>1, <3>3, <3>4, <3>5
  <2> QED BY <2>1, <2>2
<1>4. ASSUME NEW u \in Units, TakeUnit(u) PROVE LoopInv'
  <2>1. /\ step = "schedule" /\ u \in band /\ band' = band \ {u}
        /\ UNCHANGED <<placed, passed, built>> /\ code' = code /\ cur = NoUnit
    BY <1>1, <1>4 DEF TakeUnit
  <2>2. \A v \in band : deps[v] \intersect Scheduled \subseteq placed \ band
    BY <1>1, <2>1
  <2>3. CASE cur' = u /\ step' = "mount" /\ UNCHANGED skipped
    <3>1. LoopTypes' BY <1>1, <2>1, <2>3
    <3>2. Placement' BY <1>1, <2>1, <2>2, <2>3
    <3> QED BY <1>1, <2>1, <2>3, <3>1, <3>2
  <2>4. CASE skipped' = skipped \union {u} /\ step' = "schedule" /\ UNCHANGED cur
    <3>1. LoopTypes' BY <1>1, <2>1, <2>4
    <3>2. Placement' BY <1>1, <2>1, <2>2, <2>4
    <3> QED BY <1>1, <2>1, <2>4, <3>1, <3>2
  <2> QED BY <1>4, <2>3, <2>4 DEF TakeUnit
<1>5. CASE MountReturned BY <1>1, <1>5 DEF MountReturned
<1>6. CASE ValidationPassed BY <1>1, <1>6 DEF ValidationPassed
<1>7. CASE ValidationFailed BY <1>1, <1>7 DEF ValidationFailed
<1>8. CASE ValidationBroke BY <1>1, <1>8 DEF ValidationBroke
<1>9. CASE RepairReturned BY <1>1, <1>9 DEF RepairReturned
<1>10. CASE TeardownReturned
  <2>1. step = "teardown" /\ UNCHANGED <<placed, band, skipped>> /\ cur \in Units
    BY <1>1, <1>10 DEF TeardownReturned
  <2>2. CASE /\ built' = built \union {cur} /\ cur' = NoUnit /\ passed' = FALSE
             /\ step' = "schedule" /\ code' = code
    <3>1. cur \in placed \ band /\ cur \notin skipped /\ cur # NoUnit BY <1>1, <2>1
    <3>2. LoopTypes' BY <1>1, <2>1, <2>2, <3>1
    <3>3. Placement' BY <1>1, <2>1, <2>2, <3>1
    <3> QED BY <1>1, <2>1, <2>2, <3>2, <3>3
  <2>3. CASE step' = "leaving" /\ code' = 2 /\ UNCHANGED <<built, cur, passed>>
    BY <1>1, <2>1, <2>3
  <2> QED BY <1>10, <2>2, <2>3 DEF TeardownReturned
<1>11. CASE Exit BY <1>1, <1>11 DEF Exit
<1>12. CASE TimeoutFires BY <1>1, <1>12 DEF TimeoutFires
<1>13. CASE RepairProceeds \/ Straggles \/ StragglerEnds \/ Exited \/ UNCHANGED vars
  <2>1. UNCHANGED loopVars
    BY <1>13 DEF RepairProceeds, Straggles, StragglerEnds, Exited, vars
  <2> QED BY <1>1, <2>1 DEF loopVars
<1> QED
  BY <1>2, <1>3, <1>4, <1>5, <1>6, <1>7, <1>8, <1>9, <1>10, <1>11, <1>12, <1>13 DEF Next, Main

(* What one step of a repair makes of its verdict. *)
LEMMA VerdictAfter ==
    ASSUME ContractTypes, NEW u \in Units
    PROVE  /\ Call(u) => verdict'[u] \in {"no_candidates", "open"}
           /\ Proceed(u) /\ verdict[u] \in {"open", "healed"} \union Refusals =>
                 verdict'[u] \in {"open", "healed"} \union Refusals
           /\ Tear(u) \/ Apply(u) => verdict' = verdict
  BY DEF ContractTypes, Call, Proceed, Accept, Tear, Apply, Heal, Refuse, Fail, Answers, Refusals

(* What verdicts and files say of each unit is kept by every step. *)
LEMMA RepairsKept == ASSUME Inv, [Next]_vars PROVE RepairsInv'
<1> USE DEF Goes, Leaves
<1>1. /\ RepairsInv /\ ContractTypes
      /\ step \in Awaiting => cur \in Units
      /\ cur # NoUnit => cur \notin built
      /\ built \subseteq Units
      /\ cur \in Units \union {NoUnit}
  BY ScheduledUnits DEF Inv, ContractInv, LoopInv, LoopTypes, Placement
<1>2. \A u \in Units \ {cur} : verdict'[u] = verdict[u]
  BY ContractKept DEF Same
<1>3. ASSUME UNCHANGED <<cur, built>>
      PROVE \A u \in Units \ {cur'} :
                verdict'[u] \in {"idle", "healed"} /\ (verdict'[u] = "healed" => u \in built')
  BY <1>1, <1>2, <1>3, NoUnitAssumption DEF RepairsInv
<1>4. CASE Discover \/ NextBand
  <2>1. step' \in {"schedule", "leaving"} /\ UNCHANGED <<cur, built>>
    BY <1>4 DEF Discover, NextBand
  <2> QED BY <1>3, <2>1 DEF RepairsInv
<1>5. ASSUME NEW u \in Units, TakeUnit(u) PROVE RepairsInv'
  <2>1. /\ u \in band /\ u \notin built /\ cur = NoUnit /\ ~passed
        /\ UNCHANGED <<contractVars, built, passed>>
    BY <1>5 DEF TakeUnit, Inv, LoopInv, LoopTypes, Phases
  <2>2. u \in Units \ {cur} BY <2>1, NoUnitAssumption
  <2>3. verdict[u] = "idle" BY <1>1, <2>1, <2>2 DEF RepairsInv
  <2>4. (cur' = u /\ step' = "mount") \/ (cur' = cur /\ step' = "schedule")
    BY <1>5 DEF TakeUnit
  <2>5. \A v \in Units : verdict[v] \in {"idle", "healed"} /\ (verdict[v] = "healed" => v \in built)
    BY <1>1, <2>1, NoUnitAssumption DEF RepairsInv
  <2>6. verdict' = verdict /\ built' = built /\ passed' = passed
    BY <2>1 DEF contractVars
  <2> QED BY <2>1, <2>3, <2>4, <2>5, <2>6 DEF RepairsInv
<1>6. CASE MountReturned
  BY <1>1, <1>6 DEF MountReturned, RepairsInv, contractVars
<1>7. CASE ValidationPassed
  BY <1>1, <1>7 DEF ValidationPassed, RepairsInv, contractVars, BuildsOn
<1>8. CASE ValidationFailed
  <2>1. /\ Call(cur) /\ step' = "repair" /\ UNCHANGED <<cur, built, passed>>
        /\ ~passed /\ cur \in Units
    BY <1>1, <1>8 DEF ValidationFailed, RepairsInv, Awaiting
  <2>2. verdict'[cur] \in {"no_candidates", "open"} BY <1>1, <2>1, VerdictAfter
  <2> QED BY <1>3, <2>1, <2>2 DEF RepairsInv, Refusals
<1>9. CASE ValidationBroke
  BY <1>1, <1>9 DEF ValidationBroke, RepairsInv, contractVars
<1>10. CASE RepairProceeds
  <2>1. /\ Proceed(cur) /\ step = "repair" /\ UNCHANGED <<cur, built, passed, step>>
        /\ ~passed /\ cur \in Units
        /\ verdict[cur] \in {"open", "healed"} \union Refusals
    BY <1>1, <1>10 DEF RepairProceeds, RepairsInv, Awaiting, loopVars
  <2>2. verdict'[cur] \in {"open", "healed"} \union Refusals BY <1>1, <2>1, VerdictAfter
  <2> QED BY <1>3, <2>1, <2>2 DEF RepairsInv
<1>11. CASE RepairReturned
  BY <1>1, <1>11 DEF RepairReturned, RepairsInv, contractVars
<1>12. CASE TeardownReturned
  <2>1. step = "teardown" /\ UNCHANGED contractVars /\ cur \in Units
    BY <1>1, <1>12 DEF TeardownReturned, Awaiting
  <2>2. CASE Succeeded /\ built' = built \union {cur} /\ cur' = NoUnit /\ step' = "schedule"
    <3>1. verdict[cur] \in {"healed", "idle"}
      BY <1>1, <2>1, <2>2 DEF RepairsInv, Succeeded, Refusals
    <3> QED BY <1>1, <2>1, <2>2, <3>1 DEF RepairsInv, contractVars
  <2>3. CASE step' = "leaving" /\ UNCHANGED <<built, cur>>
    BY <1>3, <2>3 DEF RepairsInv
  <2> QED BY <1>12, <2>2, <2>3 DEF TeardownReturned
<1>13. CASE Exit \/ TimeoutFires
  <2>1. step' \in {"leaving", "exited"} /\ UNCHANGED <<cur, built>>
    BY <1>13 DEF Exit, TimeoutFires
  <2> QED BY <1>3, <2>1 DEF RepairsInv
<1>14. CASE Straggles \/ StragglerEnds
  <2>1. step' = "leaving" /\ UNCHANGED <<cur, built>>
    BY <1>14 DEF Straggles, StragglerEnds, loopVars, Settle, Inv, LoopInv, LoopTypes
  <2> QED BY <1>3, <2>1 DEF RepairsInv
<1>15. CASE Exited \/ UNCHANGED vars
  BY <1>1, <1>15 DEF Exited, vars, loopVars, contractVars, RepairsInv, BuildsOn
<1> QED
  BY <1>4, <1>5, <1>6, <1>7, <1>8, <1>9, <1>10, <1>11, <1>12, <1>13, <1>14, <1>15
  DEF Next, Main

(* How a unit becomes the one being run, and one that is built. *)
LEMMA CurrentUnit ==
    ASSUME Inv, [Next]_vars
    PROVE  \/ UNCHANGED <<cur, built>>
           \/ /\ UNCHANGED <<contractVars, built>> /\ cur = NoUnit /\ cur' \in Units
              /\ verdict[cur'] = "idle" /\ accepted[cur'] = 0
           \/ /\ UNCHANGED contractVars /\ cur \in Units \ built /\ cur' = NoUnit
              /\ built' = built \union {cur}
              /\ verdict[cur] \in {"idle", "healed"}
              /\ passed => BuildsOn(host, cur)
              /\ ~passed => verdict[cur] = "healed"
<1>1. ASSUME NEW u \in Units, TakeUnit(u)
      PROVE  \/ UNCHANGED <<cur, built>>
             \/ /\ UNCHANGED <<contractVars, built>> /\ cur = NoUnit /\ cur' = u
                /\ verdict[u] = "idle" /\ accepted[u] = 0
  <2>1. /\ u \in band /\ u \notin built /\ cur = NoUnit
        /\ UNCHANGED <<contractVars, built>> /\ (cur' = u \/ cur' = cur)
    BY <1>1 DEF TakeUnit, Inv, LoopInv, LoopTypes, Phases
  <2>2. verdict[u] = "idle" BY <2>1, NoUnitAssumption DEF Inv, RepairsInv
  <2>3. accepted[u] = 0 BY <2>2 DEF Inv, ContractInv, RepairState
  <2> QED BY <2>1, <2>2, <2>3
<1>2. CASE TeardownReturned
  <2>1. /\ step = "teardown" /\ UNCHANGED contractVars /\ cur \in Units /\ cur \notin built
        /\ passed \in BOOLEAN
    BY <1>2 DEF TeardownReturned, Inv, LoopInv, LoopTypes, Placement, Awaiting
  <2>2. CASE Succeeded /\ built' = built \union {cur} /\ cur' = NoUnit
    <3>1. passed => verdict[cur] = "idle" /\ BuildsOn(host, cur)
      BY <2>1 DEF Inv, RepairsInv
    <3>2. ~passed => verdict[cur] = "healed" BY <2>2 DEF Succeeded
    <3> QED BY <2>1, <2>2, <3>1, <3>2
  <2>3. CASE UNCHANGED <<cur, built>> BY <2>3
  <2> QED BY <1>2, <2>2, <2>3 DEF TeardownReturned
<1>3. CASE Discover \/ NextBand \/ MountReturned \/ ValidationPassed \/ ValidationFailed
  BY <1>3 DEF Discover, NextBand, MountReturned, ValidationPassed, ValidationFailed
<1>4. CASE ValidationBroke \/ RepairReturned \/ Exit \/ TimeoutFires
  BY <1>4 DEF ValidationBroke, RepairReturned, Exit, TimeoutFires
<1>5. CASE RepairProceeds \/ Straggles \/ StragglerEnds \/ Exited \/ UNCHANGED vars
  BY <1>5 DEF RepairProceeds, Straggles, StragglerEnds, Exited, vars, loopVars
<1> QED BY <1>1, <1>2, <1>3, <1>4, <1>5 DEF Next, Main

(* What a write to the accepted file does to the files of the host. *)
LEMMA WriteFacts ==
    ASSUME Inv, NEW u \in Units, WriteOf(u)
    PROVE  /\ Accepted(u)' = Accepted(u)
           /\ Accepted(u)[1] \in Dir[u] /\ Accepted(u)[1] \in Sources
           /\ host'[Accepted(u)[1]] \in {Torn, Accepted(u)[2]}
           /\ \A f \in Sources \ {Accepted(u)[1]} : host'[f] = host[f]
           /\ With(host', Accepted(u)) = With(host, Accepted(u))
<1>1. PICK c \in {Torn, Accepted(u)[2]} : host' = With(host, <<Accepted(u)[1], c>>)
  BY DEF WriteOf
<1>2. /\ Accepted(u) = <<Accepted(u)[1], Accepted(u)[2]>>
      /\ Accepted(u)[1] \in Dir[u] /\ Accepted(u)[1] \in Sources
      /\ Accepted(u)[2] \in Contents
  BY AcceptedFacts DEF WriteOf, Inv, ContractInv
<1>3. host \in HostFiles /\ c \in Contents \union {Absent, Torn}
  BY <1>2 DEF Inv, ContractInv, ContractTypes
<1>4. With(host', Accepted(u)) = With(host, Accepted(u))
  BY <1>1, <1>2, <1>3, WithFacts
<1>5. host'[Accepted(u)[1]] = c /\ \A f \in Sources \ {Accepted(u)[1]} : host'[f] = host[f]
  BY <1>1, <1>2, <1>3, WithFacts
<1>6. Accepted(u)' = Accepted(u) BY DEF WriteOf, Accepted
<1> QED BY <1>2, <1>4, <1>5, <1>6

(* The unit being run is repaired with what makes its directory build. *)
LEMMA CurrentKept == ASSUME Inv, [Next]_vars PROVE CurrentState'
<1>1. CASE UNCHANGED <<contractVars, cur>>
  BY <1>1 DEF Inv, CurrentState, contractVars, Accepted, BuildsOn, With
<1>2. CASE UNCHANGED contractVars /\ cur' \in Units /\ verdict[cur'] = "idle" /\ accepted[cur'] = 0
  BY <1>2 DEF CurrentState, contractVars
<1>3. CASE cur' = NoUnit
  BY <1>3, NoUnitAssumption DEF CurrentState
<1>4. CASE cur \in Units /\ UnitStep(cur) /\ cur' = cur
  <2>0. /\ RepairState(cur) /\ ContractTypes /\ cur \in Units
        /\ accepted[cur] # 0 => BuildsOn(With(host, Accepted(cur)), cur)
        /\ verdict[cur] = "healed" => host[Accepted(cur)[1]] = Accepted(cur)[2]
    BY <1>4 DEF Inv, ContractInv, CurrentState
  <2>1. CASE Tear(cur) \/ Apply(cur)
    <3>1. /\ verdict[cur] \in {"open", "abandoned"}
          /\ WriteOf(cur) /\ UNCHANGED <<accepted, verdict>>
      <4>1. host' = With(host, <<Accepted(cur)[1], Torn>>) \/ host' = With(host, Accepted(cur))
        BY <2>1 DEF Tear, Apply
      <4>2. accepted[cur] # 0 /\ verdict[cur] \in {"open", "abandoned"}
            /\ UNCHANGED <<offer, accepted, verdict>>
        BY <2>1 DEF Tear, Apply, Writing
      <4>3. Accepted(cur) = <<Accepted(cur)[1], Accepted(cur)[2]>>
        BY <2>0, <4>2, AcceptedFacts
      <4> QED BY <4>1, <4>2, <4>3 DEF WriteOf
    <3>2. With(host', Accepted(cur)) = With(host, Accepted(cur)) /\ Accepted(cur)' = Accepted(cur)
      <4>1. PICK u \in Units : u = cur BY <1>4
      <4>2. With(host', Accepted(u)) = With(host, Accepted(u)) /\ Accepted(u)' = Accepted(u)
        BY <3>1, <4>1, WriteFacts
      <4> QED BY <1>4, <4>1, <4>2 DEF Accepted
    <3>3. BuildsOn(With(host, Accepted(cur)), cur) BY <2>0, <3>1 DEF WriteOf
    <3>4. BuildsOn(With(host, Accepted(cur)), cur)'
      BY <1>4, <3>2, <3>3 DEF BuildsOn, With
    <3> QED BY <3>1, <3>4, <1>4 DEF CurrentState
  <2>2. CASE Call(cur)
    <3>1. accepted[cur] = 0 /\ UNCHANGED accepted /\ verdict'[cur] \in {"no_candidates", "open"}
      BY <2>0, <2>2, VerdictAfter DEF Call, RepairState
    <3> QED BY <1>4, <3>1 DEF CurrentState
  <2>3. CASE Accept(cur)
    <3>1. PICK k \in 1 .. Tried(offer[cur]) :
            BuildsOn(With(host, offer[cur][k]), cur) /\ accepted' = [accepted EXCEPT ![cur] = k]
      BY <2>3 DEF Accept
    <3>2. UNCHANGED <<host, offer, verdict>> /\ verdict[cur] = "open" BY <2>3 DEF Accept
    <3>3. Accepted(cur)' = offer[cur][k] BY <1>4, <2>0, <3>1, <3>2 DEF Accepted, ContractTypes
    <3>4. BuildsOn(With(host, Accepted(cur)), cur)'
      BY <1>4, <3>1, <3>2, <3>3 DEF BuildsOn, With
    <3> QED BY <1>4, <3>2, <3>4 DEF CurrentState
  <2>4. CASE Heal(cur)
    <3>1. /\ UNCHANGED <<host, offer, accepted>>
          /\ host[Accepted(cur)[1]] = Accepted(cur)[2]
      BY <2>4 DEF Heal, Answers
    <3> QED BY <1>4, <2>0, <3>1 DEF CurrentState, Accepted, BuildsOn, With
  <2>5. CASE Refuse(cur) \/ Fail(cur) \/ Abandon(cur) \/ Settle(cur)
    <3>1. /\ UNCHANGED <<host, offer, accepted>>
          /\ verdict'[cur] \in Refusals \union {"abandoned", "ended"}
      BY <2>0, <2>5 DEF Refuse, Fail, Abandon, Settle, Answers, Refusals, ContractTypes
    <3> QED BY <1>4, <2>0, <3>1 DEF CurrentState, Accepted, BuildsOn, With, Refusals
  <2> QED BY <1>4, <2>1, <2>2, <2>3, <2>4, <2>5 DEF UnitStep, Proceed
<1>5. UNCHANGED contractVars \/ (cur \in Units /\ UnitStep(cur)) BY OnlyCurrentRepairMoves
<1> QED BY <1>1, <1>2, <1>3, <1>4, <1>5, CurrentUnit

(* Where no repair makes progress, each unit has written what it had. *)
LEMMA SameWrites ==
    ASSUME UNCHANGED <<offer, accepted>>, NEW u
    PROVE  Accepted(u)' = Accepted(u) /\ \A file : Wrote(u, file)' = Wrote(u, file)
  BY DEF Accepted, Wrote

(* Every file stays accounted for by the repairs. *)
LEMMA HostKept == ASSUME Inv, [Next]_vars PROVE HostState'
<1>0. /\ before' = before /\ built \subseteq Units /\ HostState /\ CurrentState
      /\ \A u \in Units : RepairState(u)
      /\ cur # NoUnit => cur \notin built
      /\ cur \in Units \union {NoUnit}
  BY OnlyCurrentRepairMoves, GraphKept, ScheduledUnits
  DEF Inv, ContractInv, LoopInv, LoopTypes, Placement
<1>1. CASE UNCHANGED <<cur, built>>
  <2>1. \A u \in Units \ {cur} : /\ Accepted(u)' = Accepted(u)
                                 /\ \A file : Wrote(u, file)' = Wrote(u, file)
    BY ContractKept DEF Same, Accepted, Wrote
  <2>2. \A file \in Sources : LeftOf(file)' = LeftOf(file)
    <3> TAKE file \in Sources
    <3>1. \A u \in built : u \in Units \ {cur} BY <1>0, NoUnitAssumption
    <3>2. Writers(file)' = Writers(file) BY <1>1, <2>1, <3>1 DEF Writers
    <3>3. {Accepted(u)[2] : u \in Writers(file)}' = {Accepted(u)[2] : u \in Writers(file)}
      BY <2>1, <3>1, <3>2 DEF Writers
    <3> QED BY <1>0, <3>2, <3>3 DEF LeftOf
  <2>3. CASE UNCHANGED contractVars
    <3>1. \A file \in Sources : InWork(file)' = InWork(file)
      BY <1>1, <2>3, SameWrites DEF contractVars, InWork
    <3> QED BY <1>0, <2>2, <2>3, <3>1 DEF HostState, contractVars
  <2>4. CASE cur \in Units /\ WriteOf(cur)
    <3>1. \A file \in Sources : InWork(file)' = InWork(file)
      BY <1>1, <2>4, SameWrites DEF WriteOf, InWork
    <3>2. /\ host'[Accepted(cur)[1]] \in InWork(Accepted(cur)[1])
          /\ \A f \in Sources \ {Accepted(cur)[1]} : host'[f] = host[f]
      BY <2>4, WriteFacts DEF InWork, Wrote, WriteOf
    <3> QED BY <1>0, <2>2, <3>1, <3>2 DEF HostState
  <2>5. CASE cur \in Units /\ UnitStep(cur) /\ host' = host
    <3>1. \A file \in Sources : InWork(file) \subseteq InWork(file)'
      <4>1. CASE accepted[cur] = 0 BY <4>1 DEF InWork, Wrote
      <4>2. CASE accepted[cur] # 0
        <5>1. UNCHANGED <<offer, accepted>>
          BY <1>0, <2>5, <4>2
          DEF UnitStep, Proceed, Call, Accept, Tear, Apply, Heal, Refuse, Fail, Abandon,
              Settle, Answers, RepairState
        <5> QED BY <1>1, <5>1, SameWrites DEF InWork
      <4> QED BY <4>1, <4>2
    <3> QED BY <1>0, <2>2, <2>5, <3>1 DEF HostState
  <2> QED BY <1>0, <2>3, <2>4, <2>5, OnlyCurrentRepairMoves, HostAfterStep
<1>2. CASE /\ UNCHANGED <<contractVars, built>> /\ cur = NoUnit /\ cur' \in Units
           /\ accepted[cur'] = 0
  <2>1. \A file \in Sources : InWork(file) = {} BY <1>2, NoUnitAssumption DEF InWork, Wrote
  <2>2. \A file \in Sources : LeftOf(file)' = LeftOf(file)
    BY <1>0, <1>2, SameWrites DEF contractVars, LeftOf, Writers
  <2> QED BY <1>0, <1>2, <2>1, <2>2 DEF HostState, contractVars
<1>3. CASE /\ UNCHANGED contractVars /\ cur \in Units \ built /\ cur' = NoUnit
           /\ built' = built \union {cur} /\ verdict[cur] \in {"idle", "healed"}
  <2> SUFFICES ASSUME NEW file \in Sources PROVE host[file] \in LeftOf(file)'
    BY <1>3 DEF HostState, contractVars
  <2>1. \A u : Accepted(u)' = Accepted(u) /\ Wrote(u, file)' = Wrote(u, file)
    BY <1>3, SameWrites DEF contractVars
  <2>2. CASE Wrote(cur, file)
    <3>1. verdict[cur] = "healed" /\ Accepted(cur)[1] = file
      BY <1>0, <1>3, <2>2 DEF Wrote, RepairState
    <3>2. host[file] = Accepted(cur)[2] BY <1>0, <1>3, <3>1 DEF CurrentState
    <3>3. cur \in Writers(file)' BY <1>3, <2>1, <2>2 DEF Writers
    <3> QED BY <2>1, <3>2, <3>3 DEF LeftOf
  <2>3. CASE ~Wrote(cur, file)
    <3>1. Writers(file)' = Writers(file) BY <1>3, <2>1, <2>3 DEF Writers
    <3>2. LeftOf(file)' = LeftOf(file) BY <1>0, <2>1, <3>1 DEF LeftOf
    <3>3. host[file] \in LeftOf(file) BY <1>0, <2>3 DEF HostState, InWork
    <3> QED BY <3>2, <3>3
  <2> QED BY <2>2, <2>3
<1> QED BY <1>1, <1>2, <1>3, CurrentUnit

(* The inductive invariant holds in every reachable state. *)
THEOREM InvHolds == Spec => []Inv
<1>1. Inv /\ [Next]_vars => Inv'
  BY ContractKept, LoopKept, RepairsKept, CurrentKept, HostKept DEF Inv
<1> QED BY <1>1, InitInv, PTL DEF Spec

-----------------------------------------------------------------------------
(* The variables keep their types: above all, a unit is in one of the       *)
(* places of the loops, and the exit code is set when the command leaves.   *)
THEOREM PipelineTypeCorrect == Spec => []TypeOK
<1>1. Inv => TypeOK
  BY DEF Inv, ContractInv, ContractTypes, HostFiles, LoopInv, LoopTypes, TypeOK
<1> QED BY <1>1, InvHolds, PTL

(* A unit is counted as built when its directory builds; what undoes that   *)
(* later is the repair of another unit that has the file in common.         *)
THEOREM BuiltUnitsStayBuilt == Spec => BuiltUnitsBuild
<1> DEFINE A == \A u \in Units :
          /\ u \in built' \ built => BuildsOn(host, u)'
          /\ u \in built /\ BuildsOn(host, u) /\ ~BuildsOn(host, u)' =>
                /\ cur \notin built
                /\ \E file \in Dir[u] \intersect Dir[cur] : Wrote(cur, file)
<1>1. Inv /\ [Next]_vars => A
  <2> SUFFICES ASSUME Inv, [Next]_vars, NEW u \in Units
        PROVE /\ u \in built' \ built => BuildsOn(host, u)'
              /\ u \in built /\ BuildsOn(host, u) /\ ~BuildsOn(host, u)' =>
                    /\ cur \notin built
                    /\ \E file \in Dir[u] \intersect Dir[cur] : Wrote(cur, file)
    OBVIOUS
  <2>1. ASSUME u \in built' \ built PROVE BuildsOn(host, u)'
    <3>1. /\ UNCHANGED contractVars /\ u = cur /\ cur \in Units
          /\ passed => BuildsOn(host, cur)
          /\ ~passed => verdict[cur] = "healed"
      BY <2>1, CurrentUnit
    <3>2. BuildsOn(host, cur)
      <4>1. CASE passed BY <3>1, <4>1
      <4>2. CASE ~passed
        <5>1. /\ accepted[cur] # 0 /\ RepairState(cur)
              /\ BuildsOn(With(host, Accepted(cur)), cur)
              /\ host[Accepted(cur)[1]] = Accepted(cur)[2]
          BY <3>1, <4>2 DEF Inv, ContractInv, RepairState, CurrentState
        <5>2. /\ Accepted(cur) = <<Accepted(cur)[1], Accepted(cur)[2]>>
              /\ Accepted(cur)[1] \in Sources /\ Accepted(cur)[2] \in Contents
          BY <3>1, <5>1, AcceptedFacts
        <5>3. host \in HostFiles BY DEF Inv, ContractInv, ContractTypes
        <5>4. With(host, <<Accepted(cur)[1], Accepted(cur)[2]>>) = host
          BY <5>1, <5>2, <5>3, WithFacts
        <5> QED BY <5>1, <5>2, <5>4
      <4> QED BY <4>1, <4>2
    <3> QED BY <3>1, <3>2 DEF BuildsOn, contractVars
  <2>2. ASSUME u \in built, BuildsOn(host, u), ~BuildsOn(host, u)'
        PROVE  cur \notin built /\ \E file \in Dir[u] \intersect Dir[cur] : Wrote(cur, file)
    <3>1. host' # host BY <2>2 DEF BuildsOn
    <3>2. cur \in Units /\ UnitStep(cur)
      BY <3>1, OnlyCurrentRepairMoves DEF contractVars
    <3>3. WriteOf(cur) BY <3>1, <3>2, HostAfterStep DEF Inv, ContractInv
    <3>4. /\ Accepted(cur)[1] \in Dir[cur]
          /\ \A f \in Sources \ {Accepted(cur)[1]} : host'[f] = host[f]
      BY <3>2, <3>3, WriteFacts
    <3>5. Accepted(cur)[1] \in Dir[u]
      <4> SUFFICES ASSUME Accepted(cur)[1] \notin Dir[u] PROVE FALSE OBVIOUS
      <4>1. \A f \in Dir[u] : host'[f] = host[f] BY <3>4, DirAssumption
      <4>2. [f \in Dir[u] |-> host'[f]] = [f \in Dir[u] |-> host[f]] BY <4>1
      <4> QED BY <2>2, <4>2 DEF BuildsOn
    <3>6. Wrote(cur, Accepted(cur)[1]) BY <3>2, <3>3 DEF Wrote, WriteOf
    <3>7. cur \notin built BY <3>2, NoUnitAssumption DEF Inv, LoopInv, Placement
    <3> QED BY <3>4, <3>5, <3>6, <3>7
  <2> QED BY <2>1, <2>2
<1>2. Inv /\ [Next]_vars => [A]_vars BY <1>1
<1> QED BY <1>2, InvHolds, PTL DEF Spec, BuiltUnitsBuild

(* No unit is run before its dependencies, in any graph. *)
THEOREM DependenciesRunFirst == Spec => []DependenciesFirst
<1>1. Inv => DependenciesFirst
  <2> SUFFICES ASSUME Inv, step \in Awaiting, NEW d \in deps[cur] \intersect local
        PROVE d \in built \union skipped
    BY DEF DependenciesFirst
  <2>1. cur \in Units /\ cur \in placed \ band /\ cur # NoUnit
    BY NoUnitAssumption DEF Inv, LoopInv, LoopTypes
  <2>2. Scheduled = local
    BY <2>1 DEF Scheduled, Inv, LoopInv, LoopTypes
  <2>3. d \in placed \ (band \union {cur})
    BY <2>1, <2>2 DEF Inv, LoopInv, Placement
  <2> QED BY <2>3 DEF Inv, LoopInv, Placement
<1> QED BY <1>1, InvHolds, PTL

(* The files of the host follow from the repairs of the built units; only   *)
(* the file of the one the run stopped at may be torn or of no use.         *)
THEOREM HostAccounted == Spec => []HostAccountsForRepairs
<1>1. Inv => HostAccountsForRepairs
  <2> SUFFICES ASSUME Inv PROVE HostAccountsForRepairs OBVIOUS
  <2>1. \A u \in Units \ {cur} : verdict[u] = "idle" \/ (verdict[u] = "healed" /\ u \in built)
    BY DEF Inv, RepairsInv
  <2> QED BY <2>1 DEF Inv, HostState, HostAccountsForRepairs
<1> QED BY <1>1, InvHolds, PTL

(* The exit code says what was built and what was touched. *)
THEOREM ExitCodeIsTrue == Spec => []ExitCodeAccounts
<1>1. Inv => ExitCodeAccounts
  <2> SUFFICES ASSUME Inv, step = "exited" PROVE ExitCodeAccounts
    BY DEF ExitCodeAccounts
  <2>1. code = 0 => Scheduled = built \union skipped
    BY DEF Inv, LoopInv, Placement, Phases
  <2>2. code = 1 => placed = {} /\ host = before
    <3> SUFFICES ASSUME code = 1 PROVE placed = {} /\ host = before OBVIOUS
    <3>1. placed = {} BY DEF Inv, LoopInv, Phases
    <3>2. cur \notin Units /\ built = {}
      BY <3>1, NoUnitAssumption DEF Inv, LoopInv, LoopTypes
    <3>3. \A file \in Sources : host[file] = before[file]
      BY <3>2 DEF Inv, HostState, LeftOf, Writers, InWork, Wrote
    <3>4. host = before BY <3>3 DEF Inv, ContractInv, ContractTypes, HostFiles
    <3> QED BY <3>1, <3>4
  <2>3. code \in {2, 101} => cur \in Units \ (built \union skipped)
    BY DEF Inv, LoopInv, Placement, Phases
  <2>4. placed \ band = built \union skipped \union ({cur} \ {NoUnit})
    BY DEF Inv, LoopInv, Placement
  <2> QED BY <2>1, <2>2, <2>3, <2>4 DEF ExitCodeAccounts
<1> QED BY <1>1, InvHolds, PTL

-----------------------------------------------------------------------------
(* How many steps of its own the command can take: to place, take and run    *)
(* each unit, at its place in async_main and run_unit, and for the thread    *)
(* that a timeout has left behind.                                           *)
Unplaced == Scheduled \ placed

PlaceStepsLeft ==
    [discover |-> 4, schedule |-> 3, mount |-> 7, validate |-> 6, repair |-> 5,
     teardown |-> 4, leaving |-> 1, exited |-> 0][step]

Straggling == \E u \in Units : verdict[u] = "abandoned"

ThreadLeft == IF Straggling THEN 1 ELSE 0

CommandStepsLeft ==
    6 * Cardinality(Unplaced) + 5 * Cardinality(band) + PlaceStepsLeft + ThreadLeft

(* The sets of units that are counted are finite. *)
LEMMA UnitsCounted ==
    ASSUME NEW S, S \subseteq Units
    PROVE  /\ IsFiniteSet(S) /\ Cardinality(S) \in Nat
           /\ Cardinality(S) <= Cardinality(Units)
           /\ \A u \in S : Cardinality(S \ {u}) = Cardinality(S) - 1
<1>1. IsFiniteSet(S) /\ Cardinality(S) <= Cardinality(Units)
  BY UnitsAssumption, FS_Subset
<1> QED BY <1>1, FS_CardinalityType, FS_RemoveElement

(* What the number is made of. *)
LEMMA CommandStepsNat ==
    ASSUME Inv
    PROVE  /\ CommandStepsLeft \in Nat
           /\ Cardinality(Unplaced) \in Nat /\ Cardinality(band) \in Nat
           /\ step \in {"discover", "schedule", "mount", "validate", "repair", "teardown",
                        "leaving", "exited"}
           /\ ThreadLeft \in Nat /\ ThreadLeft <= 1
<1>1. /\ Scheduled \subseteq Units /\ placed \subseteq Scheduled /\ band \subseteq placed
      /\ step \in Awaiting \union {"discover", "schedule", "leaving", "exited"}
  BY ScheduledUnits DEF Inv, LoopInv, LoopTypes
<1>2. Unplaced \subseteq Units /\ band \subseteq Units BY <1>1 DEF Unplaced
<1>3. Cardinality(Unplaced) \in Nat /\ Cardinality(band) \in Nat BY <1>2, UnitsCounted
<1>4. PlaceStepsLeft \in Nat BY <1>1 DEF PlaceStepsLeft, Awaiting
<1>5. ThreadLeft \in Nat /\ ThreadLeft <= 1 BY DEF ThreadLeft
<1> QED BY <1>1, <1>3, <1>4, <1>5 DEF CommandStepsLeft, Awaiting

(* A thread is left behind by a command that leaves only. *)
LEMMA NoThreadBefore ==
    ASSUME Inv, step \notin {"leaving", "exited"} PROVE ThreadLeft = 0 /\ ~Straggling
<1>1. RepairsInv /\ step \in Awaiting \union {"discover", "schedule"}
      /\ (step \in {"discover", "schedule"} => cur = NoUnit)
  BY DEF Inv, LoopInv, LoopTypes, Phases
<1>2. \A u \in Units : verdict[u] # "abandoned"
  <2>1. \A u \in Units \ {cur} : verdict[u] # "abandoned" BY <1>1 DEF RepairsInv
  <2>2. step \in Awaiting => verdict[cur] # "abandoned"
    BY <1>1 DEF RepairsInv, Awaiting, Refusals
  <2> QED BY <1>1, <2>1, <2>2, NoUnitAssumption
<1> QED BY <1>2 DEF ThreadLeft, Straggling

(* Adding the same on both sides. *)
LEMMA SmallerSums ==
    \A k, m, n, x, y \in Nat :
        /\ m < n /\ x = y => m + x < n + y
        /\ m + x < n + y => k + m + x < k + n + y
        /\ m = 1 /\ n >= 4 /\ x <= 1 /\ y = 0 => m + x < n + y
  OBVIOUS

(* Where the sets of units stay as they are, the place is what counts. *)
LEMMA SameUnits ==
    ASSUME Inv, Scheduled' = Scheduled, UNCHANGED <<placed, band>>,
           PlaceStepsLeft' \in Nat, PlaceStepsLeft \in Nat, ThreadLeft' \in Nat,
           PlaceStepsLeft' + ThreadLeft' < PlaceStepsLeft + ThreadLeft
    PROVE  CommandStepsLeft' < CommandStepsLeft
<1>1. Unplaced' = Unplaced /\ band' = band BY DEF Unplaced
<1>2. /\ Cardinality(Unplaced) \in Nat /\ Cardinality(band) \in Nat
      /\ ThreadLeft \in Nat
  BY CommandStepsNat
<1>3. 6 * Cardinality(Unplaced) + 5 * Cardinality(band) \in Nat BY <1>2
<1>4. /\ CommandStepsLeft
           = 6 * Cardinality(Unplaced) + 5 * Cardinality(band) + PlaceStepsLeft + ThreadLeft
      /\ CommandStepsLeft'
           = 6 * Cardinality(Unplaced) + 5 * Cardinality(band) + PlaceStepsLeft' + ThreadLeft'
  BY <1>1 DEF CommandStepsLeft
<1> QED BY <1>2, <1>3, <1>4, SmallerSums, Zenon

(* A step that runs a unit, fails or leaves. *)
LEMMA PlacesShrink ==
    ASSUME Inv,
           Discover \/ MountReturned \/ ValidationPassed \/ ValidationFailed
             \/ ValidationBroke \/ RepairReturned \/ TeardownReturned \/ TimeoutFires
             \/ StragglerEnds \/ Exit
    PROVE  CommandStepsLeft' < CommandStepsLeft
<1>1. UNCHANGED <<graphVars, placed, band>>
  BY DEF Discover, MountReturned, ValidationPassed, ValidationFailed, ValidationBroke,
         RepairReturned, TeardownReturned, TimeoutFires, StragglerEnds, Exit, loopVars
<1>2. Scheduled' = Scheduled BY <1>1, GraphKept
<1>3. ThreadLeft \in Nat /\ ThreadLeft' \in Nat /\ ThreadLeft <= 1 /\ ThreadLeft' <= 1 BY DEF ThreadLeft
<1>4. CASE Discover \/ MountReturned \/ ValidationPassed \/ ValidationBroke
             \/ RepairReturned \/ TeardownReturned \/ Exit
  <2>1. ThreadLeft' = ThreadLeft
    BY <1>4 DEF Discover, MountReturned, ValidationPassed, ValidationBroke, RepairReturned,
                TeardownReturned, Exit, contractVars, ThreadLeft, Straggling
  <2>2. \/ step = "discover" /\ step' \in {"schedule", "leaving"}
        \/ step = "mount" /\ step' \in {"validate", "leaving"}
        \/ step = "validate" /\ step' \in {"teardown", "leaving"}
        \/ step = "repair" /\ step' = "teardown"
        \/ step = "teardown" /\ step' \in {"schedule", "leaving"}
        \/ step = "leaving" /\ step' = "exited"
    BY <1>4 DEF Discover, MountReturned, ValidationPassed, ValidationBroke, RepairReturned,
                TeardownReturned, Exit, Goes, Leaves
  <2>3. /\ PlaceStepsLeft' \in Nat /\ PlaceStepsLeft \in Nat
        /\ PlaceStepsLeft' < PlaceStepsLeft
    BY <2>2 DEF PlaceStepsLeft
  <2>4. PlaceStepsLeft' + ThreadLeft' < PlaceStepsLeft + ThreadLeft
    BY <1>3, <2>1, <2>3, SmallerSums
  <2> QED BY <1>1, <1>2, <1>3, <2>3, <2>4, SameUnits
<1>5. CASE ValidationFailed
  <2>1. step = "validate" /\ step' = "repair" BY <1>5 DEF ValidationFailed, Goes
  <2>2. ThreadLeft = 0 /\ ~Straggling BY <2>1, NoThreadBefore
  <2>3. ThreadLeft' = 0
    <3>1. cur \in Units BY <2>1 DEF Inv, LoopInv, LoopTypes, Awaiting
    <3>2. verdict \in [Units -> Verdict] BY DEF Inv, ContractInv, ContractTypes
    <3>3. \A u \in Units : verdict[u] # "abandoned" BY <2>2 DEF Straggling
    <3>4. \A u \in Units : verdict'[u] # "abandoned"
      BY <1>5, <3>2, <3>3 DEF ValidationFailed, Call
    <3> QED BY <3>4 DEF ThreadLeft, Straggling
  <2>4. PlaceStepsLeft = 6 /\ PlaceStepsLeft' = 5 BY <2>1 DEF PlaceStepsLeft
  <2> QED BY <1>1, <1>2, <1>3, <2>2, <2>3, <2>4, SameUnits
<1>6. CASE TimeoutFires
  <2>1. step \in Awaiting /\ step' = "leaving" BY <1>6 DEF TimeoutFires, Leaves
  <2>2. ThreadLeft = 0 BY <2>1, NoThreadBefore DEF Awaiting
  <2>3. PlaceStepsLeft \in Nat /\ PlaceStepsLeft >= 4 /\ PlaceStepsLeft' \in Nat
        /\ PlaceStepsLeft' = 1
    BY <2>1 DEF PlaceStepsLeft, Awaiting
  <2>4. PlaceStepsLeft' + ThreadLeft' < PlaceStepsLeft + ThreadLeft
    BY <1>3, <2>2, <2>3, SmallerSums
  <2> QED BY <1>1, <1>2, <1>3, <2>3, <2>4, SameUnits
<1>7. CASE StragglerEnds
  <2>1. /\ step = "leaving" /\ step' = step /\ cur \in Units \union {NoUnit}
        /\ cur # NoUnit /\ Settle(cur)
    <3>1. cur \in Units \union {NoUnit} BY ScheduledUnits DEF Inv, LoopInv, LoopTypes
    <3> QED BY <1>7, <3>1 DEF StragglerEnds, loopVars
  <2>2. verdict \in [Units -> Verdict] BY DEF Inv, ContractInv, ContractTypes
  <2>3. ThreadLeft = 1 BY <2>1 DEF Settle, ThreadLeft, Straggling
  <2>4. ThreadLeft' = 0
    <3>1. \A u \in Units \ {cur} : verdict[u] # "abandoned" BY DEF Inv, RepairsInv
    <3>2. \A u \in Units : verdict'[u] # "abandoned"
      BY <2>1, <2>2, <3>1 DEF Settle, Answers
    <3> QED BY <3>2 DEF ThreadLeft, Straggling
  <2>5. PlaceStepsLeft = 1 /\ PlaceStepsLeft' = 1 BY <2>1 DEF PlaceStepsLeft
  <2> QED BY <1>1, <1>2, <1>3, <2>3, <2>4, <2>5, SameUnits
<1> QED BY <1>4, <1>5, <1>6, <1>7

(* A band takes as many steps as it has units from the bands to come. *)
LEMMA BandsShrink == ASSUME Inv, NextBand PROVE CommandStepsLeft' < CommandStepsLeft
<1>1. Scheduled' = Scheduled /\ UNCHANGED contractVars /\ step = "schedule" /\ band = {}
  BY GraphKept DEF NextBand
<1>2. ThreadLeft' = ThreadLeft /\ ThreadLeft \in Nat /\ ThreadLeft <= 1
  BY <1>1 DEF ThreadLeft, Straggling, contractVars
<1>3. CASE Frontier = {}
  <2>1. step' = "leaving" /\ UNCHANGED <<placed, band>> BY <1>3 DEF NextBand, Leaves
  <2>2. PlaceStepsLeft = 3 /\ PlaceStepsLeft' = 1 BY <1>1, <2>1 DEF PlaceStepsLeft
  <2> QED BY <1>1, <1>2, <2>1, <2>2, SameUnits
<1>4. CASE Frontier # {}
  <2>1. band' = Frontier /\ placed' = placed \union Frontier /\ step' = "schedule"
    BY <1>4 DEF NextBand, Goes
  <2>2. Frontier \subseteq Unplaced /\ Unplaced' = Unplaced \ Frontier
    BY <1>1, <2>1 DEF Frontier, Unplaced
  <2>3. Unplaced \subseteq Units
    BY ScheduledUnits DEF Unplaced, Inv, LoopInv
  <2>4. /\ IsFiniteSet(Unplaced) /\ IsFiniteSet(Frontier) /\ Cardinality(Frontier) \in Nat
        /\ Cardinality(Unplaced) \in Nat
    BY <2>2, <2>3, UnitsCounted
  <2>5. Cardinality(Unplaced') = Cardinality(Unplaced) - Cardinality(Frontier)
    <3>1. Unplaced \intersect Frontier = Frontier BY <2>2
    <3>2. Cardinality(Unplaced \ Frontier)
             = Cardinality(Unplaced) - Cardinality(Unplaced \intersect Frontier)
      BY <2>4, FS_Difference
    <3> QED BY <2>2, <3>1, <3>2
  <2>6. Cardinality(Frontier) >= 1
    BY <1>4, <2>4, FS_EmptySet
  <2>7. Cardinality(band) = 0 BY <1>1, FS_EmptySet
  <2>8. PlaceStepsLeft = 3 /\ PlaceStepsLeft' = 3 BY <1>1, <2>1 DEF PlaceStepsLeft
  <2>9. /\ CommandStepsLeft = 6 * Cardinality(Unplaced) + 5 * 0 + 3 + ThreadLeft
        /\ CommandStepsLeft' = 6 * (Cardinality(Unplaced) - Cardinality(Frontier))
                                 + 5 * Cardinality(Frontier) + 3 + ThreadLeft
    BY <1>2, <2>1, <2>5, <2>7, <2>8 DEF CommandStepsLeft
  <2> QED BY <1>2, <2>4, <2>6, <2>9
<1> QED BY <1>3, <1>4

(* A unit is taken from the band and run, or passed over. *)
LEMMA UnitsShrink ==
    ASSUME Inv, NEW u \in Units, TakeUnit(u) PROVE CommandStepsLeft' < CommandStepsLeft
<1>1. /\ Scheduled' = Scheduled /\ UNCHANGED contractVars /\ step = "schedule"
      /\ u \in band /\ band' = band \ {u} /\ placed' = placed
      /\ step' \in {"mount", "schedule"}
  BY GraphKept DEF TakeUnit, Goes
<1>2. ThreadLeft' = ThreadLeft /\ ThreadLeft \in Nat /\ ThreadLeft <= 1
  BY <1>1 DEF ThreadLeft, Straggling, contractVars
<1>3. Unplaced' = Unplaced BY <1>1 DEF Unplaced
<1>4. band \subseteq Units BY ScheduledUnits DEF Inv, LoopInv, LoopTypes
<1>5. /\ Cardinality(band') = Cardinality(band) - 1
      /\ Cardinality(Unplaced) \in Nat /\ Cardinality(band) \in Nat
  BY <1>1, <1>4, UnitsCounted, CommandStepsNat
<1>6. PlaceStepsLeft = 3 /\ PlaceStepsLeft' \in {3, 7} BY <1>1 DEF PlaceStepsLeft
<1>7. /\ CommandStepsLeft = 6 * Cardinality(Unplaced) + 5 * Cardinality(band) + 3 + ThreadLeft
      /\ CommandStepsLeft' = 6 * Cardinality(Unplaced) + 5 * (Cardinality(band) - 1)
                               + PlaceStepsLeft' + ThreadLeft
  BY <1>2, <1>3, <1>5, <1>6 DEF CommandStepsLeft
<1> QED BY <1>2, <1>5, <1>6, <1>7

(* What every step does to that number. *)
CommandComesToAnEnd ==
    [][\/ CommandStepsLeft' < CommandStepsLeft
       \/ (RepairProceeds \/ Straggles) /\ CommandStepsLeft' = CommandStepsLeft]_vars

(* Every step of the command brings it nearer to its end, but for those of   *)
(* the repair it waits for, or has given up: the loops over bands and units  *)
(* take at most six steps for each unit and four more, in any graph.         *)
THEOREM CommandRunsInBoundedSteps ==
    Spec => /\ CommandStepsLeft <= 6 * Cardinality(Units) + 4
            /\ [](CommandStepsLeft \in Nat)
            /\ CommandComesToAnEnd
<1> DEFINE A == \/ CommandStepsLeft' < CommandStepsLeft
                \/ (RepairProceeds \/ Straggles) /\ CommandStepsLeft' = CommandStepsLeft
<1>1. Init => CommandStepsLeft <= 6 * Cardinality(Units) + 4
  <2> SUFFICES ASSUME Init PROVE CommandStepsLeft <= 6 * Cardinality(Units) + 4
    OBVIOUS
  <2>1. Inv /\ step = "discover" BY InitInv DEF Init
  <2>2. PlaceStepsLeft = 4 BY <2>1 DEF PlaceStepsLeft
  <2>3. ThreadLeft = 0 BY <2>1, NoThreadBefore
  <2>4. Cardinality(band) = 0 BY FS_EmptySet DEF Init
  <2>5. /\ Cardinality(Unplaced) \in Nat /\ Cardinality(Unplaced) <= Cardinality(Units)
        /\ Cardinality(Units) \in Nat
    <3>1. Unplaced \subseteq Units BY <2>1, ScheduledUnits DEF Unplaced, Inv, LoopInv
    <3> QED BY <3>1, UnitsCounted
  <2> QED BY <2>2, <2>3, <2>4, <2>5 DEF CommandStepsLeft
<1>2. Inv => CommandStepsLeft \in Nat BY CommandStepsNat
<1>3. Inv /\ Inv' /\ [Next]_vars => [A]_vars
  <2> SUFFICES ASSUME Inv, Next PROVE A \/ UNCHANGED vars
    OBVIOUS
  <2>1. CASE Main
    BY <2>1, PlacesShrink, BandsShrink, UnitsShrink DEF Main
  <2>2. CASE TimeoutFires \/ StragglerEnds BY <2>2, PlacesShrink
  <2>3. CASE RepairProceeds \/ Straggles
    <3>1. UNCHANGED <<graphVars, loopVars>> BY <2>3 DEF RepairProceeds, Straggles
    <3>2. Scheduled' = Scheduled /\ UNCHANGED <<placed, band, step, cur>>
      BY <3>1, GraphKept DEF loopVars
    <3>3. Straggling' <=> Straggling
      <4>1. CASE Straggles
        <5>1. verdict' = verdict BY <4>1 DEF Straggles, Tear, Apply
        <5> QED BY <5>1 DEF Straggling
      <4>2. CASE RepairProceeds
        <5>1. step = "repair" /\ Proceed(cur) /\ cur \in Units
          BY <4>2 DEF RepairProceeds, Inv, LoopInv, LoopTypes, Awaiting
        <5>2. verdict \in [Units -> Verdict] BY DEF Inv, ContractInv, ContractTypes
        <5>3. \A u \in Units : verdict[u] # "abandoned"
          BY <5>1, NoThreadBefore DEF Straggling
        <5>4. \A u \in Units : verdict'[u] # "abandoned"
          BY <5>1, <5>2, <5>3 DEF Proceed, Accept, Tear, Apply, Heal, Refuse, Fail, Answers
        <5> QED BY <5>3, <5>4 DEF Straggling
      <4> QED BY <2>3, <4>1, <4>2
    <3>4. CommandStepsLeft' = CommandStepsLeft
      BY <3>2, <3>3 DEF CommandStepsLeft, Unplaced, PlaceStepsLeft, ThreadLeft
    <3> QED BY <2>3, <3>4
  <2> QED BY <2>1, <2>2, <2>3 DEF Next, Exited
<1> QED BY <1>1, <1>2, <1>3, InvHolds, PTL DEF Spec, CommandComesToAnEnd
=============================================================================
