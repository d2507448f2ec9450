----------------------- MODULE SignalSupervisor_proofs -----------------------
(* Proofs about the supervisor of signals, for any threads, signals,        *)
(* supervisors and moments at which signals come.                           *)
EXTENDS SignalSupervisor, TLAPS

Frame == [signal : Signals, at : {"store", "write", "leave"}, stack : Supervisors \union {None}]

Job == [op : {"idle", "make", "drop", "last_crash", "clear"},
        of : Supervisors \union {None}, at : Nat \ {0}]

Types ==
    /\ action \in [Signals -> {"default", "crash_handler"}]
    /\ altStack \in [Threads -> Supervisors \union {None}]
    /\ oldActions \in [Supervisors -> Seq({"default", "crash_handler"})]
    /\ stage \in [Supervisors -> {"unmade", "making", "live", "dropping", "gone"}]
    /\ maker \in [Supervisors -> Threads \union {None}]
    /\ abroad \subseteq Supervisors
    /\ doing \in [Threads -> Job]
    /\ handlers \in [Threads -> Seq(Frame)]
    /\ orderly \in BOOLEAN

(* A thread that makes or drops a supervisor is the only one that does. *)
WorkInv ==
    /\ \A t \in Threads :
          /\ doing[t].op = "make" => /\ doing[t].of \in Supervisors
                                     /\ stage[doing[t].of] = "making"
                                     /\ doing[t].at \in Signals
                                     /\ Len(oldActions[doing[t].of]) = doing[t].at - 1
          /\ doing[t].op = "drop" => /\ doing[t].of \in Supervisors
                                     /\ stage[doing[t].of] = "dropping"
                                     /\ doing[t].at \in 1 .. SignalCount + 1
    /\ \A s \in Supervisors :
          /\ stage[s] = "making" => \E t \in Threads : doing[t].op = "make" /\ doing[t].of = s
          /\ stage[s] = "dropping" => \E t \in Threads : doing[t].op = "drop" /\ doing[t].of = s
          /\ stage[s] = "unmade" => oldActions[s] = <<>>
          /\ stage[s] \in {"live", "dropping"} => Len(oldActions[s]) = SignalCount
    /\ \A t, u \in Threads :
          doing[t].op \in {"make", "drop"} /\ doing[u].op \in {"make", "drop"}
             /\ doing[t].of = doing[u].of => t = u

Stacks(t) == {handlers[t][i].stack : i \in DOMAIN handlers[t]}

(* A stack that is in use is the one of its maker. *)
StackInv ==
    /\ \A t \in Threads : \A s \in Supervisors :
          altStack[t] = s \/ s \in Stacks(t) =>
             /\ stage[s] # "unmade"
             /\ stage[s] = "gone" => s \in abroad
             /\ stage[s] # "gone" => maker[s] = t
    /\ \A t \in Threads :
          doing[t].op = "drop" => doing[t].of \in abroad \/ maker[doing[t].of] = t

Lowest(s) == \A u \in InUse : s <= u

(* What a supervisor found is the default if there was none, and the         *)
(* handler otherwise.                                                        *)
Found(s) == IF Lowest(s) THEN "default" ELSE "crash_handler"

(* Used one inside the other: all but the highest are live, and the signals *)
(* that a thread has not come to yet are as they were.                      *)
NestInv ==
    orderly =>
        /\ \A s, u \in InUse : s < u => stage[s] = "live"
        /\ \A s \in InUse : \A i \in 1 .. Len(oldActions[s]) : oldActions[s][i] = Found(s)
        /\ InUse = {} => \A sig \in Signals : action[sig] = "default"
        /\ (\A s \in InUse : stage[s] = "live") /\ InUse # {} =>
              \A sig \in Signals : action[sig] = "crash_handler"
        /\ \A t \in Threads : doing[t].op \in {"make", "drop"} =>
              \A sig \in Signals :
                 action[sig] = IF (sig < doing[t].at) = (doing[t].op = "make")
                               THEN "crash_handler" ELSE Found(doing[t].of)

Inv == Types /\ WorkInv /\ StackInv /\ NestInv

-----------------------------------------------------------------------------
(* Nothing is made at first. *)
LEMMA InitInv == Init => Inv
<1> SUFFICES ASSUME Init PROVE Inv OBVIOUS
<1>1. Types BY CountAssumption DEF Init, Types, Job, Idle
<1>2. \A s \in Supervisors : stage[s] = "unmade" /\ oldActions[s] = <<>> BY DEF Init
<1>3. \A t \in Threads : /\ doing[t].op = "idle" /\ altStack[t] = None /\ handlers[t] = <<>>
  BY DEF Init, Idle
<1>4. WorkInv BY <1>2, <1>3 DEF WorkInv
<1>5. None \notin Supervisors BY NoneAssumption DEF Supervisors
<1>6. \A t \in Threads : Stacks(t) = {} BY <1>3 DEF Stacks
<1>7. StackInv BY <1>3, <1>5, <1>6 DEF StackInv
<1>8. InUse = {} BY <1>2 DEF InUse
<1>9. NestInv BY <1>3, <1>8 DEF NestInv, Init
<1> QED BY <1>1, <1>4, <1>7, <1>9 DEF Inv

(* A handler that begins gets the stack of its thread, the others keep theirs. *)
LEMMA HandlersKeep ==
    ASSUME Inv, NEW t \in Threads, HandlerStep(t) \/ \E sig \in Signals : Deliver(t, sig)
    PROVE  Inv'
<1>1. Types /\ WorkInv /\ StackInv /\ NestInv BY DEF Inv
<1>2. UNCHANGED <<supervisorVars, doing, orderly>>
  BY DEF HandlerStep, TryLockCrash, WriteCrash, LeaveHandler, Deliver, worldVars
<1>3. handlers \in [Threads -> Seq(Frame)] BY <1>1 DEF Types, Job
<1>4. /\ handlers' \in [Threads -> Seq(Frame)]
      /\ \A u \in Threads : Stacks(u)' \subseteq Stacks(u) \union {altStack[u]}
  <2>1. CASE \E sig \in Signals : Deliver(t, sig)
    <3>1. PICK sig \in Signals : Deliver(t, sig) BY <2>1
    <3> DEFINE f == [signal |-> sig, at |-> "store", stack |-> altStack[t]]
    <3>2. f \in Frame BY <1>1 DEF Types, Job, Frame
    <3>3. handlers' = [handlers EXCEPT ![t] = Append(handlers[t], f)] BY <3>1 DEF Deliver
    <3>4. handlers'[t] = Append(handlers[t], f) /\ handlers[t] \in Seq(Frame) BY <1>3, <3>3
    <3>5. \A i \in DOMAIN handlers'[t] : i \in DOMAIN handlers[t] \/ handlers'[t][i] = f
      BY <3>2, <3>4
    <3>6. \A i \in DOMAIN handlers[t] : handlers'[t][i] = handlers[t][i]
      BY <3>2, <3>4
    <3>7. Stacks(t)' \subseteq Stacks(t) \union {altStack[t]} BY <3>5, <3>6 DEF Stacks
    <3>8. \A u \in Threads \ {t} : handlers'[u] = handlers[u] BY <1>3, <3>3
    <3> QED BY <1>3, <3>2, <3>3, <3>7, <3>8 DEF Stacks
  <2>2. CASE UNCHANGED handlers BY <1>3, <2>2 DEF Stacks
  <2>3. ASSUME NEW a \in {"write", "leave"}, HandlerGoes(t, a), Depth(t) > 0
        PROVE  /\ handlers' \in [Threads -> Seq(Frame)]
               /\ \A u \in Threads : Stacks(u)' \subseteq Stacks(u) \union {altStack[u]}
    <3> DEFINE h == handlers[t]
               d == Depth(t)
               g == [h EXCEPT ![d] = [h[d] EXCEPT !.at = a]]
    <3>1. h \in Seq(Frame) /\ d \in 1 .. Len(h) /\ h[d] \in Frame BY <1>3, <2>3 DEF Depth
    <3>2. handlers' = [handlers EXCEPT ![t] = g] BY <2>3 DEF HandlerGoes
    <3>3. [h[d] EXCEPT !.at = a] \in Frame /\ [h[d] EXCEPT !.at = a].stack = h[d].stack
      BY <3>1 DEF Frame
    <3>4. g \in Seq(Frame) /\ DOMAIN g = DOMAIN h
          /\ \A i \in DOMAIN h : g[i].stack = h[i].stack
      BY <3>1, <3>3
    <3>5. handlers'[t] = g /\ \A u \in Threads \ {t} : handlers'[u] = handlers[u]
      BY <1>3, <3>2
    <3> HIDE DEF g
    <3>6. Stacks(t)' \subseteq Stacks(t) BY <3>4, <3>5 DEF Stacks
    <3> QED BY <1>3, <3>2, <3>4, <3>5, <3>6 DEF Stacks
  <2>4. CASE handlers' = [handlers EXCEPT ![t] = SubSeq(@, 1, Depth(t) - 1)] /\ Depth(t) > 0
    <3> DEFINE h == handlers[t]
               g == SubSeq(h, 1, Len(h) - 1)
    <3>1. h \in Seq(Frame) /\ Len(h) \in Nat \ {0} BY <1>3, <2>4 DEF Depth
    <3>2. g \in Seq(Frame) /\ DOMAIN g \subseteq DOMAIN h /\ \A i \in DOMAIN g : g[i] = h[i]
      BY <3>1
    <3>3. handlers' = [handlers EXCEPT ![t] = g] BY <2>4 DEF Depth
    <3>4. handlers'[t] = g /\ \A u \in Threads \ {t} : handlers'[u] = handlers[u]
      BY <1>3, <3>3
    <3> HIDE DEF g
    <3>5. Stacks(t)' \subseteq Stacks(t) BY <3>2, <3>4 DEF Stacks
    <3> QED BY <1>3, <3>2, <3>3, <3>4, <3>5 DEF Stacks
  <2> QED BY <2>1, <2>2, <2>3, <2>4
        DEF HandlerStep, TryLockCrash, WriteCrash, LeaveHandler, Handles
<1>5. Types' BY <1>1, <1>2, <1>4 DEF Types, Job, supervisorVars
<1>6. WorkInv' BY <1>1, <1>2 DEF WorkInv, supervisorVars
<1>7. StackInv' BY <1>1, <1>2, <1>4 DEF StackInv, supervisorVars
<1>8. InUse' = InUse /\ \A s : Found(s)' = Found(s) BY <1>2 DEF InUse, Found, Lowest, supervisorVars
<1>9. NestInv' BY <1>1, <1>2, <1>8 DEF NestInv, supervisorVars
<1> QED BY <1>5, <1>6, <1>7, <1>9 DEF Inv

(* last_crash and clear touch neither handlers nor supervisors. *)
LEMMA LockKeeps ==
    ASSUME Inv, NEW t \in Threads,
           \E o \in {"last_crash", "clear"} : TakeLock(t, o) \/ EndAccess(t, o)
    PROVE  Inv'
<1>1. Types /\ WorkInv /\ StackInv /\ NestInv BY DEF Inv
<1>2. UNCHANGED <<supervisorVars, handlers, orderly>> BY DEF TakeLock, EndAccess, worldVars
<1>3. PICK o \in {"last_crash", "clear", "idle"} :
         doing' = [doing EXCEPT ![t] = [op |-> o, of |-> None, at |-> 1]]
  BY DEF TakeLock, EndAccess, Does
<1>4. doing[t].op \notin {"make", "drop"} BY DEF TakeLock, EndAccess, Runs
<1>5. \A u \in Threads : doing'[u].op \in {"make", "drop"} => u # t /\ doing'[u] = doing[u]
  BY <1>1, <1>3 DEF Types, Job
<1>6. \A u \in Threads \ {t} : doing'[u] = doing[u] BY <1>1, <1>3 DEF Types, Job
<1>7. Types' BY <1>1, <1>2, <1>3 DEF Types, Job, supervisorVars
<1>8. WorkInv' BY <1>1, <1>2, <1>4, <1>5, <1>6 DEF WorkInv, supervisorVars
<1>9. StackInv' BY <1>1, <1>2, <1>5 DEF StackInv, Stacks, supervisorVars
<1>10. InUse' = InUse /\ \A s : Found(s)' = Found(s) BY <1>2 DEF InUse, Found, Lowest, supervisorVars
<1>11. NestInv' BY <1>1, <1>2, <1>5, <1>10 DEF NestInv, supervisorVars
<1> QED BY <1>7, <1>8, <1>9, <1>11 DEF Inv

-----------------------------------------------------------------------------
(* What a thread works on is in use; used one inside the other, it is the   *)
(* highest, all others are live, and no other thread works on one.          *)
LEMMA WorkFacts ==
    ASSUME Inv, NEW t \in Threads, doing[t].op \in {"make", "drop"}
    PROVE  LET s == doing[t].of
           IN /\ s \in InUse /\ s \in Supervisors /\ stage[s] \in {"making", "dropping"}
              /\ orderly => \A u \in InUse \ {s} : u < s /\ stage[u] = "live"
              /\ orderly => \A u \in Threads \ {t} : doing[u].op \notin {"make", "drop"}
<1> DEFINE s == doing[t].of
<1>1. WorkInv /\ NestInv BY DEF Inv
<1>2. s \in Supervisors /\ stage[s] \in {"making", "dropping"} BY <1>1 DEF WorkInv
<1>3. s \in InUse BY <1>2 DEF InUse
<1>4. \A u \in InUse : u \in Int BY CountAssumption DEF InUse, Supervisors
<1>5. ASSUME orderly, NEW u \in InUse \ {s} PROVE u < s /\ stage[u] = "live"
  <2>1. ~(s < u) BY <1>1, <1>2, <1>3, <1>5 DEF NestInv
  <2>2. u \in Int /\ s \in Int /\ u # s BY <1>3, <1>4
  <2>3. u < s BY <2>1, <2>2
  <2> QED BY <1>1, <1>3, <1>5, <2>3 DEF NestInv
<1>6. ASSUME orderly, NEW u \in Threads \ {t}, doing[u].op \in {"make", "drop"} PROVE FALSE
  <2>1. doing[u].of \in InUse /\ stage[doing[u].of] # "live" BY <1>1, <1>6 DEF WorkInv, InUse
  <2>2. doing[u].of = s BY <1>5, <1>6, <2>1
  <2> QED BY <1>1, <1>6, <2>2 DEF WorkInv
<1> QED BY <1>2, <1>3, <1>5, <1>6

(* The handler of one more signal is set, and what it was remembered. *)
LEMMA InstallKeeps == ASSUME Inv, NEW t \in Threads, InstallNext(t) PROVE Inv'
<1> DEFINE s == doing[t].of
           n == doing[t].at
<1>1. Types /\ WorkInv /\ StackInv /\ NestInv /\ doing[t].op = "make"
  BY DEF Inv, InstallNext, Runs
<1>2. /\ s \in InUse /\ s \in Supervisors /\ stage[s] = "making"
      /\ orderly => \A u \in InUse \ {s} : u < s /\ stage[u] = "live"
      /\ orderly => \A u \in Threads \ {t} : doing[u].op \notin {"make", "drop"}
  BY <1>1, WorkFacts DEF WorkInv
<1>3. n \in Signals /\ Len(oldActions[s]) = n - 1 /\ n \in Nat /\ n + 1 \in Nat \ {0}
      /\ SignalCount \in Nat
  BY <1>1, CountAssumption DEF WorkInv, Signals
<1>4. /\ oldActions' = [oldActions EXCEPT ![s] = Append(oldActions[s], action[n])]
      /\ action' = [action EXCEPT ![n] = "crash_handler"]
      /\ UNCHANGED <<altStack, maker, abroad, handlers, orderly>>
  BY DEF InstallNext, worldVars
<1>5. \/ /\ n < SignalCount /\ stage' = stage
         /\ doing' = [doing EXCEPT ![t] = [doing[t] EXCEPT !.at = n + 1]]
      \/ /\ n = SignalCount /\ stage' = [stage EXCEPT ![s] = "live"]
         /\ doing' = [doing EXCEPT ![t] = [op |-> "idle", of |-> None, at |-> 1]]
  BY <1>3 DEF InstallNext, GoesOn, Does, Signals
<1>6. /\ oldActions[s] \in Seq({"default", "crash_handler"})
      /\ action[n] \in {"default", "crash_handler"}
      /\ oldActions'[s] = Append(oldActions[s], action[n])
      /\ \A u \in Supervisors \ {s} : oldActions'[u] = oldActions[u]
  BY <1>1, <1>2, <1>3, <1>4 DEF Types, Job
<1>7. Len(oldActions'[s]) = n /\ oldActions'[s][n] = action[n]
      /\ \A i \in 1 .. n - 1 : oldActions'[s][i] = oldActions[s][i]
  BY <1>3, <1>6
<1>8. Types'
  <2>1. action' \in [Signals -> {"default", "crash_handler"}] BY <1>1, <1>4 DEF Types, Job
  <2>2. Append(oldActions[s], action[n]) \in Seq({"default", "crash_handler"}) BY <1>6
  <2>3. oldActions' \in [Supervisors -> Seq({"default", "crash_handler"})]
    BY <1>1, <1>4, <2>2 DEF Types, Job
  <2>4. [doing[t] EXCEPT !.at = n + 1] \in Job
    BY <1>1, <1>3 DEF Types, Job
  <2>5. [op |-> "idle", of |-> None, at |-> 1] \in Job BY DEF Job
  <2>6. doing \in [Threads -> Job] BY <1>1 DEF Types
  <2>7. doing' \in [Threads -> Job] BY <1>5, <2>4, <2>5, <2>6
  <2>8. stage' \in [Supervisors -> {"unmade", "making", "live", "dropping", "gone"}]
    BY <1>1, <1>5 DEF Types
  <2> QED BY <1>1, <1>4, <2>1, <2>3, <2>7, <2>8 DEF Types, Job
<1>9. /\ \A u \in Threads \ {t} : doing'[u] = doing[u]
      /\ \A u \in Supervisors \ {s} : stage'[u] = stage[u]
      /\ \/ /\ n < SignalCount /\ stage'[s] = "making" /\ stage' = stage
            /\ doing'[t] = [doing[t] EXCEPT !.at = n + 1]
            /\ doing'[t].op = "make" /\ doing'[t].of = s /\ doing'[t].at = n + 1
         \/ n = SignalCount /\ stage'[s] = "live" /\ doing'[t].op = "idle"
  BY <1>1, <1>2, <1>5 DEF Types, Job
<1>10. WorkInv'
  <2>1. \A u \in Threads \ {t} : doing[u].op \in {"make", "drop"} => doing[u].of # s
    BY <1>1 DEF WorkInv
  <2>2. n < SignalCount => n + 1 \in Signals /\ (n + 1) - 1 = n BY <1>3 DEF Signals
  <2>3. \A u \in Threads \ {t} : doing[u].op \in {"make", "drop"} =>
           /\ oldActions'[doing[u].of] = oldActions[doing[u].of]
           /\ stage'[doing[u].of] = stage[doing[u].of]
    BY <1>1, <1>6, <1>9, <2>1 DEF WorkInv
  <2>4. \A u \in Threads :
          /\ doing'[u].op = "make" => /\ doing'[u].of \in Supervisors
                                      /\ stage'[doing'[u].of] = "making"
                                      /\ doing'[u].at \in Signals
                                      /\ Len(oldActions'[doing'[u].of]) = doing'[u].at - 1
          /\ doing'[u].op = "drop" => /\ doing'[u].of \in Supervisors
                                      /\ stage'[doing'[u].of] = "dropping"
                                      /\ doing'[u].at \in 1 .. SignalCount + 1
    <3> TAKE u \in Threads
    <3>1. CASE u = t BY <1>2, <1>7, <1>9, <2>2, <3>1
    <3>2. CASE u # t BY <1>1, <1>9, <2>3, <3>2 DEF WorkInv
    <3> QED BY <3>1, <3>2
  <2>5. \A v \in Supervisors :
          /\ stage'[v] = "making" => \E u \in Threads : doing'[u].op = "make" /\ doing'[u].of = v
          /\ stage'[v] = "dropping" => \E u \in Threads : doing'[u].op = "drop" /\ doing'[u].of = v
          /\ stage'[v] = "unmade" => oldActions'[v] = <<>>
          /\ stage'[v] \in {"live", "dropping"} => Len(oldActions'[v]) = SignalCount
    <3> TAKE v \in Supervisors
    <3>1. CASE v = s BY <1>7, <1>9, <3>1
    <3>2. CASE v # s
      <4>1. stage'[v] = stage[v] /\ oldActions'[v] = oldActions[v] BY <1>6, <1>9, <3>2
      <4>2. \A u \in Threads : doing[u].of = v => u # t /\ doing'[u] = doing[u] BY <1>9, <3>2
      <4> QED BY <1>1, <4>1, <4>2 DEF WorkInv
    <3> QED BY <3>1, <3>2
  <2>6. \A u, v \in Threads :
          doing'[u].op \in {"make", "drop"} /\ doing'[v].op \in {"make", "drop"}
             /\ doing'[u].of = doing'[v].of => u = v
    BY <1>1, <1>9, <2>1 DEF WorkInv
  <2> QED BY <2>4, <2>5, <2>6 DEF WorkInv
<1>11. StackInv' BY <1>1, <1>2, <1>4, <1>9 DEF StackInv, Stacks
<1>12. InUse' = InUse BY <1>2, <1>9 DEF InUse
<1>13. \A u : Found(u)' = Found(u) BY <1>12 DEF Found, Lowest
<1>14. NestInv'
  <2> SUFFICES ASSUME orderly' PROVE NestInv' BY DEF NestInv
  <2>1. orderly BY <1>4
  <2>2. \A sig \in Signals : action[sig] = IF sig < n THEN "crash_handler" ELSE Found(s)
    BY <1>1, <2>1 DEF NestInv
  <2>3. \A u, v \in InUse : u < v => stage'[u] = "live"
    <3> SUFFICES ASSUME NEW u \in InUse, NEW v \in InUse, u < v PROVE stage'[u] = "live" OBVIOUS
    <3>1. stage[u] = "live" BY <1>1, <2>1 DEF NestInv
    <3> QED BY <1>2, <1>9, <3>1 DEF InUse
  <2>4. \A u \in InUse : \A i \in 1 .. Len(oldActions'[u]) : oldActions'[u][i] = Found(u)
    <3>1. \A i \in 1 .. n : oldActions'[s][i] = Found(s)
      <4>1. \A i \in 1 .. n - 1 : oldActions[s][i] = Found(s)
        BY <1>1, <1>2, <1>3, <2>1 DEF NestInv
      <4>2. action[n] = Found(s) BY <1>3, <2>2
      <4>3. \A i \in 1 .. n : i \in 1 .. n - 1 \/ i = n BY <1>3
      <4> QED BY <1>7, <4>1, <4>2, <4>3
    <3>2. \A u \in InUse \ {s} : oldActions'[u] = oldActions[u] BY <1>6 DEF InUse
    <3> QED BY <1>1, <1>7, <2>1, <3>1, <3>2 DEF NestInv
  <2>5. \A sig \in Signals : action'[sig] = IF sig < n + 1 THEN "crash_handler" ELSE Found(s)
    BY <1>1, <1>3, <1>4, <2>2 DEF Types, Job, Signals
  <2>6. (\A u \in InUse : stage'[u] = "live") => \A sig \in Signals : action'[sig] = "crash_handler"
    <3>1. stage'[s] = "live" => n = SignalCount BY <1>9
    <3> QED BY <1>2, <1>3, <2>5, <3>1 DEF Signals
  <2>7. \A u \in Threads : doing'[u].op \in {"make", "drop"} =>
           /\ u = t /\ doing'[u].op = "make" /\ doing'[u].of = s /\ doing'[u].at = n + 1
    BY <1>2, <1>9, <2>1
  <2> QED BY <1>2, <1>12, <1>13, <2>3, <2>4, <2>5, <2>6, <2>7 DEF NestInv
<1> QED BY <1>8, <1>10, <1>11, <1>14 DEF Inv

(* One more signal gets back what was found. *)
LEMMA RestoreKeeps == ASSUME Inv, NEW t \in Threads, RestoreNext(t) PROVE Inv'
<1> DEFINE s == doing[t].of
           n == doing[t].at
<1>1. Types /\ WorkInv /\ StackInv /\ NestInv /\ doing[t].op = "drop" /\ n \in Signals
  BY DEF Inv, RestoreNext, Runs
<1>2. /\ s \in InUse /\ s \in Supervisors /\ stage[s] = "dropping"
      /\ Len(oldActions[s]) = SignalCount
      /\ orderly => \A u \in Threads \ {t} : doing[u].op \notin {"make", "drop"}
  BY <1>1, WorkFacts DEF WorkInv
<1>3. n \in Nat /\ n + 1 \in 1 .. SignalCount + 1 /\ n + 1 \in Nat \ {0} /\ SignalCount \in Nat
  BY <1>1, CountAssumption DEF Signals
<1>4. /\ action' = [action EXCEPT ![n] = oldActions[s][n]]
      /\ doing' = [doing EXCEPT ![t] = [doing[t] EXCEPT !.at = n + 1]]
      /\ UNCHANGED <<altStack, oldActions, stage, maker, abroad, handlers, orderly>>
  BY DEF RestoreNext, GoesOn, worldVars
<1>5. /\ \A u \in Threads \ {t} : doing'[u] = doing[u]
      /\ doing'[t] = [doing[t] EXCEPT !.at = n + 1]
      /\ doing'[t].op = "drop" /\ doing'[t].of = s /\ doing'[t].at = n + 1
  BY <1>1, <1>4 DEF Types, Job
<1>6. Types'
  <2>1. oldActions[s] \in Seq({"default", "crash_handler"}) BY <1>1, <1>2 DEF Types, Job
  <2>2. oldActions[s][n] \in {"default", "crash_handler"} BY <1>1, <1>2, <2>1 DEF Signals
  <2>3. [doing[t] EXCEPT !.at = n + 1] \in Job
    BY <1>1, <1>3 DEF Types, Job
  <2> QED BY <1>1, <1>4, <2>2, <2>3 DEF Types, Job
<1>7. WorkInv'
  <2>1. \A u \in Threads : doing'[u].op = doing[u].op /\ doing'[u].of = doing[u].of
    BY <1>1, <1>5
  <2>2. \A u \in Threads :
           \/ doing'[u].at = doing[u].at
           \/ doing[u].op = "drop" /\ doing'[u].at \in 1 .. SignalCount + 1
    <3> TAKE u \in Threads
    <3>1. CASE u = t BY <1>1, <1>3, <1>5, <3>1
    <3>2. CASE u # t BY <1>5, <3>2
    <3> QED BY <3>1, <3>2
  <2>3. \A u \in Threads : doing[u].op = "make" => doing'[u] = doing[u] BY <1>1, <1>5
  <2>4. \A u \in Threads : doing[u].op = "drop" => doing'[u].at \in 1 .. SignalCount + 1
    BY <1>1, <2>2 DEF WorkInv
  <2> QED BY <1>1, <1>4, <2>1, <2>3, <2>4 DEF WorkInv
<1>8. StackInv' BY <1>1, <1>4, <1>5 DEF StackInv, Stacks
<1>9. InUse' = InUse BY <1>4 DEF InUse
<1>10. \A u : Found(u)' = Found(u) BY <1>9 DEF Found, Lowest
<1>11. NestInv'
  <2> SUFFICES ASSUME orderly' PROVE NestInv' BY DEF NestInv
  <2>1. orderly BY <1>4
  <2>2. \A sig \in Signals : action[sig] = IF sig < n THEN Found(s) ELSE "crash_handler"
    BY <1>1, <2>1 DEF NestInv
  <2>3. oldActions[s][n] = Found(s)
    BY <1>1, <1>2, <2>1 DEF NestInv, Signals
  <2>4. \A sig \in Signals : action'[sig] = IF sig < n + 1 THEN Found(s) ELSE "crash_handler"
    BY <1>1, <1>3, <1>4, <2>2, <2>3 DEF Types, Job, Signals
  <2>5. \A u \in Threads : doing'[u].op \in {"make", "drop"} =>
           /\ u = t /\ doing'[u].op = "drop" /\ doing'[u].of = s /\ doing'[u].at = n + 1
    BY <1>2, <1>5, <2>1
  <2> QED BY <1>1, <1>2, <1>4, <1>9, <1>10, <2>1, <2>4, <2>5 DEF NestInv
<1> QED BY <1>6, <1>7, <1>8, <1>11 DEF Inv

(* The supervisor is gone, and with it the stack of this thread. *)
LEMMA DroppedKeeps == ASSUME Inv, NEW t \in Threads, Dropped(t) PROVE Inv'
<1> DEFINE s == doing[t].of
<1>1. Types /\ WorkInv /\ StackInv /\ NestInv /\ doing[t].op = "drop"
      /\ doing[t].at \notin Signals /\ handlers[t] = <<>>
  BY DEF Inv, Dropped, Runs
<1>2. /\ s \in InUse /\ s \in Supervisors /\ stage[s] = "dropping"
      /\ doing[t].at \in 1 .. SignalCount + 1
      /\ orderly => \A u \in InUse \ {s} : u < s /\ stage[u] = "live"
      /\ orderly => \A u \in Threads \ {t} : doing[u].op \notin {"make", "drop"}
  BY <1>1, WorkFacts DEF WorkInv
<1>3. /\ altStack' = [altStack EXCEPT ![t] = None]
      /\ stage' = [stage EXCEPT ![s] = "gone"]
      /\ doing' = [doing EXCEPT ![t] = [op |-> "idle", of |-> None, at |-> 1]]
      /\ oldActions' = [oldActions EXCEPT ![s] = <<>>]
      /\ maker' = [maker EXCEPT ![s] = None]
      /\ UNCHANGED <<action, abroad, handlers, orderly>>
  BY DEF Dropped, Does, worldVars
<1>4. Types'
  <2>1. [op |-> "idle", of |-> None, at |-> 1] \in Job /\ <<>> \in Seq({"default", "crash_handler"})
    BY DEF Job
  <2>2. doing' \in [Threads -> Job] BY <1>1, <1>3, <2>1 DEF Types
  <2>3. oldActions' \in [Supervisors -> Seq({"default", "crash_handler"})]
    BY <1>1, <1>3, <2>1 DEF Types
  <2> QED BY <1>1, <1>3, <2>2, <2>3 DEF Types
<1>5. /\ \A u \in Threads \ {t} : doing'[u] = doing[u] /\ altStack'[u] = altStack[u]
      /\ doing'[t].op = "idle" /\ altStack'[t] = None
      /\ \A u \in Supervisors \ {s} : /\ stage'[u] = stage[u] /\ maker'[u] = maker[u]
                                        /\ oldActions'[u] = oldActions[u]
      /\ stage'[s] = "gone"
  BY <1>1, <1>2, <1>3 DEF Types, Job
<1>6. \A u \in Threads \ {t} : doing[u].op \in {"make", "drop"} => doing[u].of # s
  BY <1>1 DEF WorkInv
<1>7. WorkInv'
  <2>1. \A v \in Supervisors \ {s} : \A u \in Threads : doing[u].of = v => u # t /\ doing'[u] = doing[u]
    BY <1>5
  <2>2. \A u \in Threads : doing'[u].op \in {"make", "drop"} =>
            u # t /\ doing'[u] = doing[u] /\ doing[u].of # s
    BY <1>5, <1>6
  <2> QED BY <1>1, <1>5, <2>1, <2>2 DEF WorkInv
<1>8. StackInv'
  <2>1. Stacks(t) = {} BY <1>1 DEF Stacks
  <2>2. \A u \in Threads : Stacks(u)' = Stacks(u) BY <1>3 DEF Stacks
  <2>3. None \notin Supervisors BY NoneAssumption DEF Supervisors
  <2>4. s \in abroad \/ \A u \in Threads \ {t} : ~(altStack[u] = s \/ s \in Stacks(u))
    BY <1>1, <1>2 DEF StackInv
  <2>5. \A u \in Threads : doing'[u].op = "drop" => doing'[u].of \in abroad \/ maker'[doing'[u].of] = u
    BY <1>1, <1>5, <1>6 DEF StackInv, WorkInv
  <2> QED BY <1>1, <1>3, <1>5, <2>1, <2>2, <2>3, <2>4, <2>5 DEF StackInv
<1>9. InUse' = InUse \ {s} BY <1>2, <1>5 DEF InUse
<1>10. NestInv'
  <2> SUFFICES ASSUME orderly' PROVE NestInv' BY DEF NestInv
  <2>1. orderly BY <1>3
  <2>2. \A u \in InUse : u \in Int BY CountAssumption DEF InUse, Supervisors
  <2>3. \A u \in InUse \ {s} : u < s /\ stage[u] = "live" /\ stage'[u] = "live"
    BY <1>2, <1>5, <2>1 DEF InUse
  <2>4. \A u \in InUse \ {s} : Found(u)' = Found(u)
    <3> TAKE u \in InUse \ {s}
    <3>1. u <= s BY <1>2, <2>2, <2>3
    <3>2. Lowest(u)' <=> Lowest(u) BY <1>9, <3>1 DEF Lowest
    <3> QED BY <3>2 DEF Found
  <2>5. \A sig \in Signals : sig < doing[t].at BY <1>1, <1>2, CountAssumption DEF Signals
  <2>6. \A sig \in Signals : action'[sig] = Found(s) BY <1>1, <1>3, <2>1, <2>5 DEF NestInv
  <2>7. Found(s) = IF InUse \ {s} = {} THEN "default" ELSE "crash_handler"
    <3>1. s <= s BY <1>2, <2>2
    <3>2. \A u \in InUse \ {s} : ~(s <= u) BY <1>2, <2>2, <2>3
    <3>3. Lowest(s) <=> InUse \ {s} = {} BY <1>2, <3>1, <3>2 DEF Lowest
    <3> QED BY <3>3 DEF Found
  <2>8. \A u \in Threads : doing'[u].op \notin {"make", "drop"} BY <1>2, <1>5, <2>1
  <2>9. \A u \in InUse \ {s} : oldActions'[u] = oldActions[u] BY <1>5 DEF InUse
  <2> QED BY <1>1, <1>9, <2>1, <2>3, <2>4, <2>6, <2>7, <2>8, <2>9 DEF NestInv
<1> QED BY <1>4, <1>7, <1>8, <1>10 DEF Inv

(* A supervisor of the most recent kind begins to be dropped. *)
LEMMA BeginDropKeeps ==
    ASSUME Inv, NEW t \in Threads, NEW s \in Supervisors, BeginDrop(t, s) PROVE Inv'
<1>1. Types /\ WorkInv /\ StackInv /\ NestInv /\ doing[t].op = "idle" /\ stage[s] = "live"
  BY DEF Inv, BeginDrop, Runs
<1>2. /\ stage' = [stage EXCEPT ![s] = "dropping"]
      /\ abroad' = IF maker[s] = t THEN abroad ELSE abroad \union {s}
      /\ doing' = [doing EXCEPT ![t] = [op |-> "drop", of |-> s, at |-> 1]]
      /\ orderly' = (orderly /\ \A u \in InUse \ {s} : stage[u] = "live" /\ u < s)
      /\ UNCHANGED <<action, altStack, oldActions, maker, handlers>>
  BY DEF BeginDrop, Does
<1>3. /\ \A u \in Threads \ {t} : doing'[u] = doing[u]
      /\ doing'[t] = [op |-> "drop", of |-> s, at |-> 1]
      /\ \A u \in Supervisors \ {s} : stage'[u] = stage[u]
      /\ stage'[s] = "dropping"
  BY <1>1, <1>2 DEF Types
<1>4. \A u \in Threads : doing[u].op \in {"make", "drop"} => u # t /\ doing[u].of # s
  BY <1>1 DEF WorkInv
<1>5. Types'
  <2>1. [op |-> "drop", of |-> s, at |-> 1] \in Job BY DEF Job
  <2>2. doing' \in [Threads -> Job] BY <1>1, <1>2, <2>1 DEF Types
  <2>3. orderly' \in BOOLEAN BY <1>2
  <2> QED BY <1>1, <1>2, <2>2, <2>3 DEF Types
<1>6. 1 \in 1 .. SignalCount + 1 BY CountAssumption
<1>7. WorkInv'
  <2>1. \A v \in Supervisors \ {s} : \A u \in Threads :
           doing[u].op \in {"make", "drop"} /\ doing[u].of = v => u # t /\ doing'[u] = doing[u]
    BY <1>3, <1>4
  <2>2. \A u \in Threads : doing'[u].op \in {"make", "drop"} =>
            \/ u = t
            \/ u # t /\ doing'[u] = doing[u] /\ doing[u].of # s
    BY <1>3, <1>4
  <2> QED BY <1>1, <1>2, <1>3, <1>6, <2>1, <2>2 DEF WorkInv
<1>8. StackInv'
  <2>1. abroad \subseteq abroad' /\ (s \in abroad' \/ maker[s] = t) BY <1>2
  <2>2. \A u \in Threads : Stacks(u)' = Stacks(u) BY <1>2 DEF Stacks
  <2>3. \A u \in Threads : doing'[u].op = "drop" => doing'[u].of \in abroad' \/ maker'[doing'[u].of] = u
    BY <1>1, <1>2, <1>3, <2>1 DEF StackInv
  <2> QED BY <1>1, <1>2, <1>3, <2>1, <2>2, <2>3 DEF StackInv
<1>9. s \in InUse /\ InUse' = InUse BY <1>1, <1>3 DEF InUse
<1>10. \A u : Found(u)' = Found(u) BY <1>9 DEF Found, Lowest
<1>11. NestInv'
  <2> SUFFICES ASSUME orderly' PROVE NestInv' BY DEF NestInv
  <2>1. orderly /\ \A u \in InUse \ {s} : stage[u] = "live" /\ u < s BY <1>2
  <2>2. \A u \in InUse : stage[u] = "live" BY <1>1, <2>1
  <2>3. \A sig \in Signals : action[sig] = "crash_handler" BY <1>1, <1>9, <2>1, <2>2 DEF NestInv
  <2>4. \A u \in Threads : doing[u].op \notin {"make", "drop"}
    <3> SUFFICES ASSUME NEW u \in Threads, doing[u].op \in {"make", "drop"} PROVE FALSE OBVIOUS
    <3>1. doing[u].of \in InUse /\ stage[doing[u].of] # "live" BY <1>1 DEF WorkInv, InUse
    <3> QED BY <2>2, <3>1
  <2>5. \A u, v \in InUse : u < v => stage'[u] = "live"
    <3> SUFFICES ASSUME NEW u \in InUse, NEW v \in InUse, u < v PROVE u # s BY <1>3, <2>2 DEF InUse
    <3>1. \A w \in InUse : w \in Int BY CountAssumption DEF InUse, Supervisors
    <3> QED BY <1>9, <2>1, <3>1
  <2>6. \A u \in Threads : doing'[u].op \in {"make", "drop"} => u = t BY <1>3, <2>4
  <2>7. \A sig \in Signals : ~(sig < 1) BY DEF Signals
  <2> QED BY <1>1, <1>2, <1>3, <1>9, <1>10, <2>1, <2>3, <2>5, <2>6, <2>7 DEF NestInv
<1> QED BY <1>5, <1>7, <1>8, <1>11 DEF Inv

(* A supervisor above all others begins to be made. *)
LEMMA BeginMakeKeeps ==
    ASSUME Inv, NEW t \in Threads, NEW s \in Supervisors, NEW exitOnCrash, BeginMake(t, s, exitOnCrash)
    PROVE  Inv'
<1>1. /\ Types /\ WorkInv /\ StackInv /\ NestInv /\ doing[t].op = "idle" /\ handlers[t] = <<>>
      /\ \A u \in Supervisors : stage[u] = "unmade" <=> u >= s
  BY DEF Inv, BeginMake, Runs
<1>2. /\ stage' = [stage EXCEPT ![s] = "making"]
      /\ maker' = [maker EXCEPT ![s] = t]
      /\ altStack' = [altStack EXCEPT ![t] = s]
      /\ doing' = [doing EXCEPT ![t] = [op |-> "make", of |-> s, at |-> 1]]
      /\ orderly' = (orderly /\ \A u \in InUse : stage[u] = "live")
      /\ UNCHANGED <<action, oldActions, abroad, handlers>>
  BY DEF BeginMake, Does
<1>3. /\ \A u \in Threads \ {t} : doing'[u] = doing[u] /\ altStack'[u] = altStack[u]
      /\ doing'[t] = [op |-> "make", of |-> s, at |-> 1] /\ altStack'[t] = s
      /\ \A u \in Supervisors \ {s} : stage'[u] = stage[u] /\ maker'[u] = maker[u]
      /\ stage'[s] = "making" /\ maker'[s] = t
  BY <1>1, <1>2 DEF Types
<1>4. \A u \in Supervisors : u \in Int BY CountAssumption DEF Supervisors
<1>5. stage[s] = "unmade" /\ oldActions[s] = <<>> BY <1>1, <1>4 DEF WorkInv
<1>6. \A u \in Threads : doing[u].op \in {"make", "drop"} => u # t /\ doing[u].of # s
  BY <1>1, <1>5 DEF WorkInv
<1>7. Types'
  <2>1. [op |-> "make", of |-> s, at |-> 1] \in Job BY DEF Job
  <2>2. doing' \in [Threads -> Job] BY <1>1, <1>2, <2>1 DEF Types
  <2>3. orderly' \in BOOLEAN BY <1>2
  <2> QED BY <1>1, <1>2, <2>2, <2>3 DEF Types
<1>8. 1 \in Signals /\ Len(oldActions[s]) = 1 - 1 BY <1>5, CountAssumption DEF Signals
<1>9. WorkInv'
  <2>1. \A v \in Supervisors \ {s} : \A u \in Threads :
           doing[u].op \in {"make", "drop"} /\ doing[u].of = v => u # t /\ doing'[u] = doing[u]
    BY <1>3, <1>6
  <2>2. \A u \in Threads : doing'[u].op \in {"make", "drop"} =>
            \/ u = t
            \/ u # t /\ doing'[u] = doing[u] /\ doing[u].of # s
    BY <1>3, <1>6
  <2> QED BY <1>1, <1>2, <1>3, <1>8, <2>1, <2>2 DEF WorkInv
<1>10. StackInv'
  <2>1. Stacks(t) = {} BY <1>1 DEF Stacks
  <2>2. \A u \in Threads : Stacks(u)' = Stacks(u) BY <1>2 DEF Stacks
  <2>3. \A u \in Threads \ {t} : ~(altStack[u] = s \/ s \in Stacks(u)) BY <1>1, <1>5 DEF StackInv
  <2>4. \A u \in Threads : doing'[u].op = "drop" =>
           u # t /\ doing'[u] = doing[u] /\ doing[u].of \in Supervisors \ {s}
    BY <1>1, <1>3, <1>6 DEF WorkInv
  <2> QED BY <1>1, <1>2, <1>3, <2>1, <2>2, <2>3, <2>4 DEF StackInv
<1>11. InUse' = InUse \union {s} /\ s \notin InUse BY <1>3, <1>5 DEF InUse
<1>12. \A u \in InUse : u < s
  <2> SUFFICES ASSUME NEW u \in InUse PROVE u < s OBVIOUS
  <2>1. u \in Supervisors /\ stage[u] # "unmade" BY DEF InUse
  <2>2. ~(u >= s) BY <1>1, <2>1
  <2> QED BY <1>4, <2>1, <2>2
<1>13. NestInv'
  <2> SUFFICES ASSUME orderly' PROVE NestInv' BY DEF NestInv
  <2>1. orderly /\ \A u \in InUse : stage[u] = "live" /\ stage'[u] = "live"
    BY <1>2, <1>3, <1>11 DEF InUse
  <2>2. \A u \in InUse : Found(u)' = Found(u)
    <3> TAKE u \in InUse
    <3>1. u <= s BY <1>4, <1>12 DEF InUse
    <3>2. Lowest(u)' <=> Lowest(u) BY <1>11, <3>1 DEF Lowest
    <3> QED BY <3>2 DEF Found
  <2>3. Found(s)' = IF InUse = {} THEN "default" ELSE "crash_handler"
    <3>1. s <= s BY <1>4
    <3>2. \A u \in InUse : ~(s <= u) BY <1>4, <1>12 DEF InUse
    <3>3. Lowest(s)' <=> InUse = {} BY <1>11, <3>1, <3>2 DEF Lowest
    <3> QED BY <3>3 DEF Found
  <2>4. \A u \in Threads : doing'[u].op \in {"make", "drop"} => u = t
    <3> SUFFICES ASSUME NEW u \in Threads, doing[u].op \in {"make", "drop"} PROVE FALSE BY <1>3
    <3>1. doing[u].of \in InUse /\ stage[doing[u].of] # "live" BY <1>1 DEF WorkInv, InUse
    <3> QED BY <2>1, <3>1
  <2>5. \A sig \in Signals : action'[sig] = IF InUse = {} THEN "default" ELSE "crash_handler"
    BY <1>1, <1>2, <2>1 DEF NestInv
  <2>6. \A sig \in Signals : ~(sig < 1) BY DEF Signals
  <2>7. \A u, v \in InUse \union {s} : u < v => stage'[u] = "live"
    <3> SUFFICES ASSUME NEW v \in InUse \union {s} PROVE ~(s < v) BY <2>1
    <3> QED BY <1>4, <1>12 DEF InUse
  <2>8. \A u \in InUse \union {s} : \A i \in 1 .. Len(oldActions'[u]) : oldActions'[u][i] = Found(u)'
    <3>1. 1 .. Len(oldActions[s]) = {} BY <1>5
    <3> QED BY <1>1, <1>2, <2>1, <2>2, <3>1 DEF NestInv
  <2> QED BY <1>3, <1>11, <2>3, <2>4, <2>5, <2>6, <2>7, <2>8 DEF NestInv
<1> QED BY <1>7, <1>9, <1>10, <1>13 DEF Inv

-----------------------------------------------------------------------------
(* Every step keeps the invariant. *)
LEMMA NextInv == Inv /\ [Next]_vars => Inv'
<1> SUFFICES ASSUME Inv, [Next]_vars PROVE Inv' OBVIOUS
<1>1. CASE UNCHANGED vars
  <2>1. UNCHANGED <<supervisorVars, doing, handlers, orderly>> BY <1>1 DEF vars, worldVars
  <2>2. Types' /\ WorkInv' BY <2>1 DEF Inv, Types, WorkInv, supervisorVars
  <2>3. StackInv' BY <2>1 DEF Inv, StackInv, Stacks, supervisorVars
  <2>4. InUse' = InUse /\ \A s : Found(s)' = Found(s) BY <2>1 DEF InUse, Found, Lowest, supervisorVars
  <2>5. NestInv' BY <2>1, <2>4 DEF Inv, NestInv, supervisorVars
  <2> QED BY <2>2, <2>3, <2>5 DEF Inv
<1>2. ASSUME NEW t \in Threads, OwnStep(t) PROVE Inv'
  BY <1>2, InstallKeeps, RestoreKeeps, DroppedKeeps, LockKeeps DEF OwnStep
<1>3. ASSUME NEW t \in Threads, Begins(t) PROVE Inv'
  BY <1>3, BeginDropKeeps, BeginMakeKeeps, LockKeeps DEF Begins
<1> QED BY <1>1, <1>2, <1>3, HandlersKeep DEF Next, Ended

(* The invariant holds in every reachable state. *)
THEOREM InvHolds == Spec => []Inv
  BY InitInv, NextInv, PTL DEF Spec

(* While supervisors are used one inside the other, on whatever threads, the *)
(* signals have the handler as long as one is alive and are at their default *)
(* when the last is gone.                                                    *)
THEOREM RestoredWhenNested == Spec => []HandlersRestored
<1>1. Inv => HandlersRestored
  <2> SUFFICES ASSUME Inv, orderly, \A s \in Supervisors : stage[s] \in {"unmade", "live", "gone"},
                      NEW sig \in Signals
               PROVE  action[sig] = "crash_handler" <=> \E s \in Supervisors : stage[s] = "live"
    BY DEF HandlersRestored
  <2>1. InUse = {s \in Supervisors : stage[s] = "live"} BY DEF InUse
  <2> QED BY <2>1 DEF Inv, NestInv
<1> QED BY <1>1, InvHolds, PTL

(* No thread and no handler is left with the stack of a supervisor that is  *)
(* gone, unless another thread than its maker dropped it.                   *)
THEOREM StackOutlivesUse == Spec => []AltStackAlive
<1>1. Inv => AltStackAlive BY DEF Inv, StackInv, Stacks, AltStackAlive
<1> QED BY <1>1, InvHolds, PTL
=============================================================================
