---------------------- MODULE WavefrontScheduler_proofs ----------------------
(* Proofs about the pool for any number of workers and tasks, and about     *)
(* run_units on it for any set of units, workers and graphs.                *)
EXTENDS WavefrontScheduler, FiniteSetTheorems, TLAPS

(* THE POOL                                                                 *)
(* The lemmas speak of [PoolNext]_poolVars and not of PoolSpec, so that the *)
(* proofs about the scheduler can cite them for its steps.                  *)

(* What taking the head of a queue does. *)
LEMMA QueueTail ==
    ASSUME NEW S, NEW q \in Seq(S), q # <<>>
    PROVE  /\ Head(q) \in S
           /\ Tail(q) \in Seq(S)
           /\ Len(q) \in Nat \ {0}
           /\ Head(q) = q[1]
           /\ Len(Tail(q)) = Len(q) - 1
           /\ \A i \in 1 .. Len(q) - 1 : Tail(q)[i] = q[i + 1]
  OBVIOUS

(* What adding to the end of a queue does. *)
LEMMA QueueAppend ==
    ASSUME NEW S, NEW q \in Seq(S), NEW e \in S
    PROVE  /\ Append(q, e) \in Seq(S)
           /\ Len(q) \in Nat
           /\ Len(Append(q, e)) = Len(q) + 1
           /\ \A i \in 1 .. Len(q) : Append(q, e)[i] = q[i]
           /\ Append(q, e)[Len(q) + 1] = e
  OBVIOUS

-----------------------------------------------------------------------------
(* The variables keep their types. *)
LEMMA PoolInitTypeOK == PoolInit => PoolTypeOK
  BY DEF PoolInit, PoolTypeOK, TaskState, WorkerState, OwnerState

(* A steal takes a task from the queue: the type of `cur` needs the queue. *)
LEMMA PoolStepTypeOK ==
    ASSUME PoolTypeOK, TaskHeldOnce, [PoolNext]_poolVars
    PROVE  PoolTypeOK'
<1> USE DEF PoolTypeOK, TaskState, WorkerState, OwnerState
<1>1. ASSUME NEW t \in Tasks, Submit(t) PROVE PoolTypeOK'
  BY <1>1 DEF Submit
<1>2. ASSUME NEW w \in Workers, StealSuccess(w) PROVE PoolTypeOK'
  <2>1. Head(injector) \in Tasks /\ Tail(injector) \in Seq(Tasks)
    BY <1>2, QueueTail DEF StealSuccess
  <2> QED BY <1>2, <2>1 DEF StealSuccess
<1>3. ASSUME NEW w \in Workers, StealEmpty(w) PROVE PoolTypeOK'
  BY <1>3 DEF StealEmpty
<1>4. ASSUME NEW w \in Workers, CheckRunning(w) PROVE PoolTypeOK'
  BY <1>4 DEF CheckRunning
<1>5. ASSUME NEW w \in Workers, RunReturn(w) PROVE PoolTypeOK'
  BY <1>5 DEF RunReturn
<1>6. ASSUME NEW w \in Workers, RunPanic(w) PROVE PoolTypeOK'
  BY <1>6 DEF RunPanic
<1>7. CASE ShutdownSignal BY <1>7 DEF ShutdownSignal
<1>8. CASE ShutdownJoined BY <1>8 DEF ShutdownJoined
<1>9. CASE DropSignal BY <1>9 DEF DropSignal
<1>10. CASE DropJoined BY <1>10 DEF DropJoined
<1>11. CASE UNCHANGED poolVars BY <1>11 DEF poolVars
<1> QED
  BY <1>1, <1>2, <1>3, <1>4, <1>5, <1>6, <1>7, <1>8, <1>9, <1>10, <1>11
     DEF PoolNext, WorkerStep, PoolTerminated

-----------------------------------------------------------------------------
(* TaskHeldOnce, in two parts: the injector and the workers' hands. *)
QueueExact ==
    /\ \A i \in 1 .. Len(injector) : task[injector[i]] = "queued"
    /\ \A i, j \in 1 .. Len(injector) : injector[i] = injector[j] => i = j
    /\ \A t \in Tasks :
          task[t] = "queued" => \E i \in 1 .. Len(injector) : injector[i] = t

HandsExact ==
    /\ \A w \in Workers :
          IF wpc[w] = "run"
          THEN cur[w] \in Tasks /\ task[cur[w]] = "running"
          ELSE cur[w] = NoTask
    /\ \A v, w \in Workers : cur[v] = cur[w] /\ cur[v] # NoTask => v = w
    /\ \A t \in Tasks : task[t] = "running" => \E w \in Workers : cur[w] = t

(* The two parts are the whole. *)
LEMMA HeldOnceParts == TaskHeldOnce <=> QueueExact /\ HandsExact
  BY DEF TaskHeldOnce, QueueExact, HandsExact

(* Nothing is queued or in anybody's hands at first. *)
LEMMA PoolInitHeldOnce == PoolInit => TaskHeldOnce
  BY DEF PoolInit, TaskHeldOnce

(* A submitted task is new to the queue; a stolen one leaves it. *)
LEMMA PoolStepQueueExact ==
    ASSUME PoolTypeOK, QueueExact, HandsExact, [PoolNext]_poolVars
    PROVE  QueueExact'
<1> USE DEF PoolTypeOK, QueueExact
<1>1. ASSUME NEW t \in Tasks, Submit(t) PROVE QueueExact'
  <2> DEFINE n == Len(injector)
  <2>1. /\ n \in Nat /\ Len(injector') = n + 1 /\ injector'[n + 1] = t
        /\ \A i \in 1 .. n : injector'[i] = injector[i]
    BY <1>1, QueueAppend DEF Submit
  <2>2. \A i \in 1 .. n : injector[i] # t
    BY <1>1 DEF Submit
  <2>3. /\ task'[t] = "queued"
        /\ \A s \in Tasks \ {t} : task'[s] = task[s]
    BY <1>1 DEF Submit
  <2>4. \A i \in 1 .. n : injector[i] \in Tasks \ {t}
    BY <2>2
  <2>5. \A i \in 1 .. n + 1 : task'[injector'[i]] = "queued"
    <3> SUFFICES ASSUME NEW i \in 1 .. n + 1 PROVE task'[injector'[i]] = "queued"
      OBVIOUS
    <3>1. CASE i = n + 1 BY <3>1, <2>1, <2>3
    <3>2. CASE i \in 1 .. n BY <3>2, <2>1, <2>3, <2>4
    <3> QED BY <3>1, <3>2, <2>1
  <2>6. \A i, j \in 1 .. n + 1 : injector'[i] = injector'[j] => i = j
    BY <2>1, <2>2
  <2>7. \A s \in Tasks : task'[s] = "queued" =>
            \E i \in 1 .. n + 1 : injector'[i] = s
    <3> SUFFICES ASSUME NEW s \in Tasks, task'[s] = "queued"
                 PROVE  \E i \in 1 .. n + 1 : injector'[i] = s
      OBVIOUS
    <3>1. CASE s = t BY <3>1, <2>1
    <3>2. CASE s # t
      <4>1. PICK i \in 1 .. n : injector[i] = s BY <3>2, <2>3
      <4> QED BY <4>1, <2>1
    <3> QED BY <3>1, <3>2
  <2> QED BY <2>1, <2>5, <2>6, <2>7
<1>2. ASSUME NEW w \in Workers, StealSuccess(w) PROVE QueueExact'
  <2> DEFINE n == Len(injector)
             h == Head(injector)
  <2>1. /\ n \in Nat \ {0} /\ Len(injector') = n - 1
        /\ h = injector[1] /\ h \in Tasks
        /\ \A i \in 1 .. n - 1 : injector'[i] = injector[i + 1]
    BY <1>2, QueueTail DEF StealSuccess
  <2>2. /\ task'[h] = "running"
        /\ \A s \in Tasks \ {h} : task'[s] = task[s]
    BY <1>2, <2>1 DEF StealSuccess
  <2>3. \A i \in 2 .. n : injector[i] \in Tasks \ {h}
    BY <2>1
  <2>4. \A i \in 1 .. n - 1 : task'[injector'[i]] = "queued"
    BY <2>1, <2>2, <2>3
  <2>5. \A i, j \in 1 .. n - 1 : injector'[i] = injector'[j] => i = j
    BY <2>1
  <2>6. \A s \in Tasks : task'[s] = "queued" =>
            \E i \in 1 .. n - 1 : injector'[i] = s
    <3> SUFFICES ASSUME NEW s \in Tasks, task'[s] = "queued"
                 PROVE  \E i \in 1 .. n - 1 : injector'[i] = s
      OBVIOUS
    <3>1. s # h /\ task[s] = "queued" BY <2>2
    <3>2. PICK i \in 1 .. n : injector[i] = s BY <3>1
    <3>3. i # 1 BY <3>1, <3>2, <2>1
    <3>4. i - 1 \in 1 .. n - 1 /\ injector'[i - 1] = s BY <3>2, <3>3, <2>1
    <3> QED BY <3>4
  <2> QED BY <2>1, <2>4, <2>5, <2>6
<1>3. ASSUME NEW w \in Workers, StealEmpty(w) PROVE QueueExact'
  BY <1>3 DEF StealEmpty
<1>4. ASSUME NEW w \in Workers, CheckRunning(w) PROVE QueueExact'
  BY <1>4 DEF CheckRunning
<1>5. ASSUME NEW w \in Workers, RunReturn(w) \/ RunPanic(w) PROVE QueueExact'
  <2>1. cur[w] \in Tasks /\ task[cur[w]] = "running" /\ injector' = injector
    BY <1>5 DEF RunReturn, RunPanic, HandsExact
  <2>2. /\ task'[cur[w]] # "queued"
        /\ \A s \in Tasks \ {cur[w]} : task'[s] = task[s]
    BY <1>5, <2>1 DEF RunReturn, RunPanic
  <2>3. \A i \in 1 .. Len(injector) : injector[i] \in Tasks \ {cur[w]}
    BY <2>1
  <2> QED BY <2>1, <2>2, <2>3
<1>6. CASE ShutdownSignal BY <1>6 DEF ShutdownSignal
<1>7. CASE ShutdownJoined BY <1>7 DEF ShutdownJoined
<1>8. CASE DropSignal BY <1>8 DEF DropSignal
<1>9. CASE DropJoined
  <2>1. injector' = <<>> /\ \A t \in Tasks : task'[t] # "queued"
    BY <1>9 DEF DropJoined
  <2> QED BY <2>1
<1>10. CASE UNCHANGED poolVars BY <1>10 DEF poolVars
<1> QED
  BY <1>1, <1>2, <1>3, <1>4, <1>5, <1>6, <1>7, <1>8, <1>9, <1>10
     DEF PoolNext, WorkerStep, PoolTerminated

(* A stolen task was in nobody's hands, because it was in the queue. *)
LEMMA PoolStepHandsExact ==
    ASSUME PoolTypeOK, QueueExact, HandsExact, [PoolNext]_poolVars
    PROVE  HandsExact'
<1> USE DEF PoolTypeOK, HandsExact
<1>1. ASSUME NEW t \in Tasks, Submit(t) PROVE HandsExact'
  BY <1>1 DEF Submit
<1>2. ASSUME NEW w \in Workers, StealSuccess(w) PROVE HandsExact'
  <2> DEFINE h == Head(injector)
  <2>1. h \in Tasks /\ task[h] = "queued"
    BY <1>2, QueueTail DEF StealSuccess, QueueExact
  <2>2. /\ wpc' = [wpc EXCEPT ![w] = "run"]
        /\ cur' = [cur EXCEPT ![w] = h]
        /\ task' = [task EXCEPT ![h] = "running"]
        /\ wpc[w] = "steal"
    BY <1>2 DEF StealSuccess
  <2>3. h # NoTask /\ \A v \in Workers : cur[v] # h
    BY <2>1, NoTaskAssumption
  <2> HIDE DEF h
  <2> QED BY <2>1, <2>2, <2>3, NoTaskAssumption
<1>3. ASSUME NEW w \in Workers, StealEmpty(w) PROVE HandsExact'
  BY <1>3 DEF StealEmpty
<1>4. ASSUME NEW w \in Workers, CheckRunning(w) PROVE HandsExact'
  BY <1>4 DEF CheckRunning
<1>5. ASSUME NEW w \in Workers, RunReturn(w) \/ RunPanic(w) PROVE HandsExact'
  <2>1. /\ wpc[w] = "run" /\ wpc'[w] # "run"
        /\ \A v \in Workers \ {w} : wpc'[v] = wpc[v] /\ cur'[v] = cur[v]
        /\ cur'[w] = NoTask
        /\ task'[cur[w]] # "running"
        /\ \A t \in Tasks \ {cur[w]} : task'[t] = task[t]
    BY <1>5 DEF RunReturn, RunPanic
  <2> QED BY <2>1, NoTaskAssumption
<1>6. CASE ShutdownSignal BY <1>6 DEF ShutdownSignal
<1>7. CASE ShutdownJoined BY <1>7 DEF ShutdownJoined
<1>8. CASE DropSignal BY <1>8 DEF DropSignal
<1>9. CASE DropJoined
  <2>1. \A t \in Tasks : task'[t] = "running" <=> task[t] = "running"
    BY <1>9 DEF DropJoined
  <2> QED BY <2>1, <1>9 DEF DropJoined
<1>10. CASE UNCHANGED poolVars BY <1>10 DEF poolVars
<1> QED
  BY <1>1, <1>2, <1>3, <1>4, <1>5, <1>6, <1>7, <1>8, <1>9, <1>10
     DEF PoolNext, WorkerStep, PoolTerminated

(* Together: no step duplicates or loses a task. *)
LEMMA PoolStepHeldOnce ==
    ASSUME PoolTypeOK, TaskHeldOnce, [PoolNext]_poolVars
    PROVE  TaskHeldOnce'
<1>1. QueueExact /\ HandsExact BY HeldOnceParts
<1>2. QueueExact' /\ HandsExact'
  BY <1>1, PoolStepQueueExact, PoolStepHandsExact
<1> QED BY <1>2 DEF TaskHeldOnce, QueueExact, HandsExact

-----------------------------------------------------------------------------
(* OpenPoolKeepsWorkers: a panic ends one worker and one task together. *)
Gone == {w \in Workers : wpc[w] \in Terminated}
Lost == {t \in Tasks : task[t] = "panicked"}

(* At first nobody is gone and nothing has panicked. *)
LEMMA PoolInitKeepsWorkers == PoolInit => OpenPoolKeepsWorkers
<1> SUFFICES ASSUME PoolInit PROVE OpenPoolKeepsWorkers
  OBVIOUS
<1>1. Gone = {} /\ Lost = {}
  BY DEF PoolInit, Gone, Lost, Terminated
<1>2. Cardinality(Gone) = Cardinality(Lost)
  BY <1>1
<1> QED
  BY <1>2 DEF PoolInit, OpenPoolKeepsWorkers, Gone, Lost

(* An exit needs the flag down; a panic counts on both sides. *)
LEMMA PoolStepKeepsWorkers ==
    ASSUME PoolTypeOK, TaskHeldOnce, OpenPoolKeepsWorkers, [PoolNext]_poolVars
    PROVE  OpenPoolKeepsWorkers'
<1> DEFINE Same == /\ running' = running /\ owner' = owner
                   /\ Gone' = Gone /\ Lost' = Lost
                   /\ \A w \in Workers : wpc'[w] = "exited" => wpc[w] = "exited"
<1>0. ASSUME Same PROVE OpenPoolKeepsWorkers'
  BY <1>0 DEF OpenPoolKeepsWorkers, Gone, Lost
<1>1. ASSUME NEW t \in Tasks, Submit(t) PROVE OpenPoolKeepsWorkers'
  <2>1. Same
    BY <1>1 DEF PoolTypeOK, Submit, Gone, Lost
  <2> QED BY <2>1, <1>0
<1>2. ASSUME NEW w \in Workers, StealSuccess(w) \/ StealEmpty(w)
      PROVE  OpenPoolKeepsWorkers'
  <2>1. StealSuccess(w) => Head(injector) \in Tasks /\ task[Head(injector)] = "queued"
    BY QueueTail DEF PoolTypeOK, TaskHeldOnce, StealSuccess
  <2>2. Same
    BY <1>2, <2>1 DEF PoolTypeOK, StealSuccess, StealEmpty, Gone, Lost, Terminated
  <2> QED BY <2>2, <1>0
<1>3. ASSUME NEW w \in Workers, CheckRunning(w) PROVE OpenPoolKeepsWorkers'
  <2>1. CASE running
    <3>1. Same
      BY <1>3, <2>1 DEF PoolTypeOK, CheckRunning, Gone, Lost, Terminated
    <3> QED BY <3>1, <1>0
  <2>2. CASE ~running
    BY <1>3, <2>2 DEF CheckRunning, OpenPoolKeepsWorkers
  <2> QED BY <2>1, <2>2
<1>4. ASSUME NEW w \in Workers, RunReturn(w) PROVE OpenPoolKeepsWorkers'
  <2>1. cur[w] \in Tasks /\ task[cur[w]] = "running"
    BY <1>4 DEF TaskHeldOnce, RunReturn
  <2>2. Same
    BY <1>4, <2>1 DEF PoolTypeOK, RunReturn, Gone, Lost, Terminated
  <2> QED BY <2>2, <1>0
<1>5. ASSUME NEW w \in Workers, RunPanic(w) PROVE OpenPoolKeepsWorkers'
  <2>1. cur[w] \in Tasks /\ task[cur[w]] = "running" /\ wpc[w] = "run"
    BY <1>5 DEF TaskHeldOnce, RunPanic
  <2>2. /\ Gone' = Gone \union {w} /\ w \notin Gone
        /\ Lost' = Lost \union {cur[w]} /\ cur[w] \notin Lost
    BY <1>5, <2>1 DEF PoolTypeOK, RunPanic, Gone, Lost, Terminated
  <2>3. IsFiniteSet(Gone) /\ IsFiniteSet(Lost)
    BY FS_Subset, WorkersAssumption, TasksAssumption DEF Gone, Lost
  <2>4. /\ Cardinality(Gone') = Cardinality(Gone) + 1
        /\ Cardinality(Lost') = Cardinality(Lost) + 1
    BY <2>2, <2>3, FS_AddElement
  <2>5. \A v \in Workers : wpc'[v] = "exited" => wpc[v] = "exited"
    BY <1>5 DEF PoolTypeOK, RunPanic
  <2> QED
    BY <1>5, <2>4, <2>5 DEF RunPanic, OpenPoolKeepsWorkers, Gone, Lost
<1>6. CASE ShutdownSignal \/ DropSignal
  BY <1>6 DEF ShutdownSignal, DropSignal, OpenPoolKeepsWorkers
<1>7. CASE ShutdownJoined \/ DropJoined
  <2>1. ~running
    BY <1>7 DEF PoolTypeOK, ShutdownJoined, DropJoined
  <2> QED
    BY <1>7, <2>1 DEF ShutdownJoined, DropJoined, OpenPoolKeepsWorkers
<1>8. CASE UNCHANGED poolVars
  <2>1. Same BY <1>8 DEF poolVars, Gone, Lost
  <2> QED BY <2>1, <1>0
<1> QED
  BY <1>1, <1>2, <1>3, <1>4, <1>5, <1>6, <1>7, <1>8
     DEF PoolNext, WorkerStep, PoolTerminated

-----------------------------------------------------------------------------
(* JoinedPoolIsIdle: it needs, besides the hands of the workers, that the    *)
(* workers are gone for good and that only the drop of the pool drops tasks. *)
LEMMA PoolInitIdle == PoolInit => JoinedPoolIsIdle
  BY DEF PoolInit, JoinedPoolIsIdle

(* Joined workers stay gone, so a task cannot start any more. *)
LEMMA PoolStepIdle ==
    ASSUME PoolTypeOK, TaskHeldOnce, JoinedPoolIsIdle, [PoolNext]_poolVars
    PROVE  JoinedPoolIsIdle'
<1> USE DEF PoolTypeOK, JoinedPoolIsIdle, AllTerminated, Terminated
<1>1. ASSUME NEW t \in Tasks, Submit(t) PROVE JoinedPoolIsIdle'
  BY <1>1 DEF Submit
<1>2. ASSUME NEW w \in Workers, StealSuccess(w) PROVE JoinedPoolIsIdle'
  <2>1. Head(injector) \in Tasks
    BY <1>2, QueueTail DEF StealSuccess
  <2>2. owner \notin {"shut", "dropped"}
    BY <1>2 DEF StealSuccess
  <2> QED BY <1>2, <2>1, <2>2 DEF StealSuccess
<1>3. ASSUME NEW w \in Workers, StealEmpty(w) \/ CheckRunning(w)
      PROVE  JoinedPoolIsIdle'
  BY <1>3 DEF StealEmpty, CheckRunning
<1>4. ASSUME NEW w \in Workers, RunReturn(w) \/ RunPanic(w)
      PROVE  JoinedPoolIsIdle'
  <2>1. owner \notin {"shut", "dropped"}
    BY <1>4 DEF RunReturn, RunPanic
  <2> QED BY <1>4, <2>1 DEF RunReturn, RunPanic
<1>5. CASE ShutdownSignal \/ DropSignal
  BY <1>5 DEF ShutdownSignal, DropSignal
<1>6. CASE ShutdownJoined \/ DropJoined
  <2>1. AllTerminated /\ UNCHANGED wpc /\ owner' \in {"shut", "dropped"}
    BY <1>6 DEF ShutdownJoined, DropJoined
  <2>2. \A t \in Tasks : task[t] # "running"
    <3> SUFFICES ASSUME NEW t \in Tasks, task[t] = "running" PROVE FALSE
      OBVIOUS
    <3>1. PICK w \in Workers : cur[w] = t
      BY DEF TaskHeldOnce
    <3>2. wpc[w] # "run" BY <2>1
    <3>3. cur[w] = NoTask BY <3>2 DEF TaskHeldOnce
    <3> QED BY <3>1, <3>3, NoTaskAssumption
  <2>3. \A t \in Tasks : /\ task'[t] # "running"
                         /\ task'[t] = "dropped" => owner' = "dropped"
    BY <1>6, <2>2 DEF ShutdownJoined, DropJoined
  <2> QED BY <2>1, <2>3
<1>7. CASE UNCHANGED poolVars BY <1>7 DEF poolVars
<1> QED
  BY <1>1, <1>2, <1>3, <1>4, <1>5, <1>6, <1>7
     DEF PoolNext, WorkerStep, PoolTerminated

-----------------------------------------------------------------------------
(* The inductive invariant of the pool: TaskHeldOnce is what the type of    *)
(* `cur`, the count of workers and the idle pool all rest on.               *)
PoolInv ==
    PoolTypeOK /\ TaskHeldOnce /\ OpenPoolKeepsWorkers /\ JoinedPoolIsIdle

(* The parts make up an inductive invariant. *)
LEMMA PoolInvInductive ==
    /\ PoolInit => PoolInv
    /\ PoolInv /\ [PoolNext]_poolVars => PoolInv'
  BY PoolInitTypeOK, PoolInitHeldOnce, PoolInitKeepsWorkers, PoolInitIdle,
     PoolStepTypeOK, PoolStepHeldOnce, PoolStepKeepsWorkers, PoolStepIdle
     DEF PoolInv

(* The inductive invariant holds in every state of the pool. *)
THEOREM PoolInvariant == PoolSpec => []PoolInv
  BY PoolInvInductive, PTL DEF PoolSpec

(* The variables of the pool always have their types. *)
THEOREM PoolTypeCorrect == PoolSpec => []PoolTypeOK
<1>1. PoolInv => PoolTypeOK BY DEF PoolInv
<1> QED BY <1>1, PoolInvariant, PTL

(* A submitted task is in the queue once or in the hands of one worker: it *)
(* is not called twice, whichever workers compete for it.                  *)
THEOREM PoolRunsTasksOnce == PoolSpec => []TaskHeldOnce
<1>1. PoolInv => TaskHeldOnce BY DEF PoolInv
<1> QED BY <1>1, PoolInvariant, PTL

(* While the pool is open it loses one worker for each panicked task, and *)
(* no other.                                                              *)
THEOREM PoolKeepsWorkers == PoolSpec => []OpenPoolKeepsWorkers
<1>1. PoolInv => OpenPoolKeepsWorkers BY DEF PoolInv
<1> QED BY <1>1, PoolInvariant, PTL

(* After `shutdown` or `drop` no task is running, and none ever starts. *)
THEOREM PoolJoinedIdle == PoolSpec => []JoinedPoolIsIdle
<1>1. PoolInv => JoinedPoolIsIdle BY DEF PoolInv
<1> QED BY <1>1, PoolInvariant, PTL
-----------------------------------------------------------------------------
(* PROGRESS OF THE POOL                                                     *)
(* What the liveness properties rest on besides fairness: who can still move *)
(* and that every step counts.                                               *)

(* Only a task that may panic does. *)
PanicsExpected == \A t \in Tasks : task[t] = "panicked" => t \in MayPanic

(* RunPanic is the only step that makes a task panicked. *)
LEMMA StepPanicsExpected ==
    ASSUME PoolInv, PanicsExpected, [PoolNext]_poolVars
    PROVE  PanicsExpected'
<1> USE DEF PoolInv, PoolTypeOK, PanicsExpected
<1>1. ASSUME NEW t \in Tasks, Submit(t) PROVE PanicsExpected'
  BY <1>1 DEF Submit
<1>2. ASSUME NEW w \in Workers, StealSuccess(w) PROVE PanicsExpected'
  BY <1>2 DEF StealSuccess
<1>3. ASSUME NEW w \in Workers, StealEmpty(w) \/ CheckRunning(w) PROVE PanicsExpected'
  BY <1>3 DEF StealEmpty, CheckRunning
<1>4. ASSUME NEW w \in Workers, RunReturn(w) \/ RunPanic(w) PROVE PanicsExpected'
  BY <1>4 DEF RunReturn, RunPanic
<1>5. CASE ShutdownSignal \/ DropSignal \/ ShutdownJoined
  BY <1>5 DEF ShutdownSignal, DropSignal, ShutdownJoined
<1>6. CASE DropJoined
  BY <1>6 DEF DropJoined
<1>7. CASE UNCHANGED poolVars BY <1>7 DEF poolVars
<1> QED
  BY <1>1, <1>2, <1>3, <1>4, <1>5, <1>6, <1>7
     DEF PoolNext, WorkerStep, PoolTerminated

(* A pool with more workers than tasks that may panic. *)
Sturdy == Cardinality(MayPanic) < Cardinality(Workers)

LiveWorkers == {w \in Workers : wpc[w] \notin Terminated}

(* While the pool is open its losses are panics, and each panic is of a *)
(* task of its own.                                                     *)
LEMMA OpenPoolAlive ==
    ASSUME PoolInv, PanicsExpected, owner = "open", Sturdy
    PROVE  LiveWorkers # {}
<1>1. Cardinality(Gone) = Cardinality(Lost)
  BY DEF PoolInv, PoolTypeOK, OpenPoolKeepsWorkers, Gone, Lost
<1>2. Lost \in SUBSET MayPanic
  BY DEF PanicsExpected, Lost
<1>3. IsFiniteSet(MayPanic)
  BY FS_Subset, TasksAssumption
<1>4. Cardinality(Lost) <= Cardinality(MayPanic)
  BY <1>2, <1>3, FS_Subset
<1>5. ASSUME LiveWorkers = {} PROVE FALSE
  <2>1. Gone = Workers BY <1>5 DEF LiveWorkers, Gone
  <2>2. Cardinality(Workers) \in Nat /\ Cardinality(MayPanic) \in Nat
    BY <1>3, WorkersAssumption, FS_CardinalityType
  <2>3. Cardinality(Lost) = Cardinality(Workers) BY <1>1, <2>1
  <2> QED BY <1>4, <2>2, <2>3 DEF Sturdy
<1> QED BY <1>5

(* An open pool with fewer panicking tasks than workers always has a worker *)
(* left for what is queued.                                                 *)
THEOREM OpenPoolSurvives ==
    PoolSpec => [](owner = "open" /\ Sturdy => LiveWorkers # {})
<1>1. PoolInit => PanicsExpected
  BY DEF PoolInit, PanicsExpected
<1>2. PoolInv /\ PanicsExpected /\ [PoolNext]_poolVars => PanicsExpected'
  BY StepPanicsExpected
<1>3. PoolInv /\ PanicsExpected => (owner = "open" /\ Sturdy => LiveWorkers # {})
  BY OpenPoolAlive
<1> QED BY <1>1, <1>2, <1>3, PoolInvariant, PTL DEF PoolSpec

-----------------------------------------------------------------------------
(* The workers that are at a place of worker_loop. *)
At(p) == {w \in Workers : wpc[w] = p}

(* Moving one worker changes the numbers at two places by one. *)
LEMMA WorkerMoves ==
    ASSUME NEW w \in Workers, NEW q \in WorkerState, wpc \in [Workers -> WorkerState],
           wpc' = [wpc EXCEPT ![w] = q], NEW p \in WorkerState
    PROVE  /\ Cardinality(At(p)) \in Nat
           /\ Cardinality(At(p)') = Cardinality(At(p)) + (IF q = p THEN 1 ELSE 0)
                                      - (IF wpc[w] = p THEN 1 ELSE 0)
<1>1. IsFiniteSet(At(p))
  BY FS_Subset, WorkersAssumption DEF At
<1>2. CASE p = q
  <2>1. At(p)' = At(p) \union {w} BY <1>2 DEF At
  <2>2. w \in At(p) <=> wpc[w] = p BY DEF At
  <2> QED BY <1>1, <1>2, <2>1, <2>2, FS_AddElement, FS_CardinalityType
<1>3. CASE p # q
  <2>1. At(p)' = At(p) \ {w} BY <1>3 DEF At
  <2>2. w \in At(p) <=> wpc[w] = p BY DEF At
  <2>3. Cardinality(At(p)') = IF w \in At(p) THEN Cardinality(At(p)) - 1
                              ELSE Cardinality(At(p))
    BY <1>1, <2>1, FS_RemoveElement
  <2>4. Cardinality(At(p)) \in Nat BY <1>1, FS_CardinalityType
  <2> QED BY <1>3, <2>2, <2>3, <2>4
<1> QED BY <1>2, <1>3

Closing == owner \in {"joining", "dropping"}

(* How many steps the workers of a closing pool have left at most: two for  *)
(* each task in the queue, and for each worker one to leave, one to find the *)
(* queue empty and one to return from its task.                              *)
StepsToClose ==
    2 * Len(injector) + 3 * Cardinality(At("run")) + 2 * Cardinality(At("steal"))
      + Cardinality(At("check"))

(* It is a number. *)
LEMMA StepsToCloseIsNat == PoolInv => StepsToClose \in Nat
<1> SUFFICES ASSUME PoolInv PROVE StepsToClose \in Nat
  OBVIOUS
<1>1. \A p : IsFiniteSet(At(p))
  BY FS_Subset, WorkersAssumption DEF At
<1>2. \A p : Cardinality(At(p)) \in Nat
  BY <1>1, FS_CardinalityType
<1>3. Len(injector) \in Nat
  BY DEF PoolInv, PoolTypeOK
<1> QED BY <1>2, <1>3 DEF StepsToClose

(* Each step of a worker of a closing pool takes one away. *)
LEMMA ClosingStep ==
    ASSUME PoolInv, Closing, NEW w \in Workers, WorkerStep(w)
    PROVE  StepsToClose' < StepsToClose
<1> USE DEF PoolInv, PoolTypeOK, WorkerState
<1>0. ~running BY DEF Closing
<1> DEFINE R == Cardinality(At("run"))
           S == Cardinality(At("steal"))
           C == Cardinality(At("check"))
           Moved(q) == wpc' = [wpc EXCEPT ![w] = q]
<1>1. ASSUME NEW q \in WorkerState, wpc' = [wpc EXCEPT ![w] = q]
      PROVE  /\ R \in Nat /\ S \in Nat /\ C \in Nat
             /\ R' = R + (IF q = "run" THEN 1 ELSE 0) - (IF wpc[w] = "run" THEN 1 ELSE 0)
             /\ S' = S + (IF q = "steal" THEN 1 ELSE 0) - (IF wpc[w] = "steal" THEN 1 ELSE 0)
             /\ C' = C + (IF q = "check" THEN 1 ELSE 0) - (IF wpc[w] = "check" THEN 1 ELSE 0)
  <2>1. "run" \in WorkerState /\ "steal" \in WorkerState /\ "check" \in WorkerState
    OBVIOUS
  <2>2. /\ R \in Nat
        /\ R' = R + (IF q = "run" THEN 1 ELSE 0) - (IF wpc[w] = "run" THEN 1 ELSE 0)
    BY <1>1, <2>1, WorkerMoves, wpc \in [Workers -> WorkerState]
  <2>3. /\ S \in Nat
        /\ S' = S + (IF q = "steal" THEN 1 ELSE 0) - (IF wpc[w] = "steal" THEN 1 ELSE 0)
    BY <1>1, <2>1, WorkerMoves, wpc \in [Workers -> WorkerState]
  <2>4. /\ C \in Nat
        /\ C' = C + (IF q = "check" THEN 1 ELSE 0) - (IF wpc[w] = "check" THEN 1 ELSE 0)
    BY <1>1, <2>1, WorkerMoves, wpc \in [Workers -> WorkerState]
  <2> QED BY <2>2, <2>3, <2>4
<1>2. Len(injector) \in Nat
  OBVIOUS
<1>3. CASE StealSuccess(w)
  <2>1. Moved("run") /\ wpc[w] = "steal" /\ "run" \in WorkerState
    BY <1>3 DEF StealSuccess
  <2>2. Len(injector') = Len(injector) - 1
    BY <1>3, QueueTail DEF StealSuccess
  <2>3. R' = R + 1 /\ S' = S - 1 /\ C' = C /\ R \in Nat /\ S \in Nat /\ C \in Nat
    <3> HIDE DEF R, S, C
    <3> QED BY <1>1, <2>1
  <2> HIDE DEF R, S, C
  <2> QED BY <1>2, <2>2, <2>3 DEF StepsToClose, R, S, C
<1>4. CASE StealEmpty(w)
  <2>1. Moved("check") /\ wpc[w] = "steal" /\ "check" \in WorkerState /\ injector' = injector
    BY <1>4 DEF StealEmpty
  <2>3. R' = R /\ S' = S - 1 /\ C' = C + 1 /\ R \in Nat /\ S \in Nat /\ C \in Nat
    <3> HIDE DEF R, S, C
    <3> QED BY <1>1, <2>1
  <2> QED BY <1>2, <2>1, <2>3 DEF StepsToClose
<1>5. CASE CheckRunning(w)
  <2>1. Moved("exited") /\ wpc[w] = "check" /\ "exited" \in WorkerState /\ injector' = injector
    BY <1>5, <1>0 DEF CheckRunning
  <2>3. R' = R /\ S' = S /\ C' = C - 1 /\ R \in Nat /\ S \in Nat /\ C \in Nat
    <3> HIDE DEF R, S, C
    <3> QED BY <1>1, <2>1
  <2> QED BY <1>2, <2>1, <2>3 DEF StepsToClose
<1>6. CASE RunReturn(w)
  <2>1. Moved("steal") /\ wpc[w] = "run" /\ "steal" \in WorkerState /\ injector' = injector
    BY <1>6 DEF RunReturn
  <2>3. R' = R - 1 /\ S' = S + 1 /\ C' = C /\ R \in Nat /\ S \in Nat /\ C \in Nat
    <3> HIDE DEF R, S, C
    <3> QED BY <1>1, <2>1
  <2> QED BY <1>2, <2>1, <2>3 DEF StepsToClose
<1>7. CASE RunPanic(w)
  <2>1. Moved("dead") /\ wpc[w] = "run" /\ "dead" \in WorkerState /\ injector' = injector
    BY <1>7 DEF RunPanic
  <2>3. R' = R - 1 /\ S' = S /\ C' = C /\ R \in Nat /\ S \in Nat /\ C \in Nat
    <3> HIDE DEF R, S, C
    <3> QED BY <1>1, <2>1
  <2> QED BY <1>2, <2>1, <2>3 DEF StepsToClose
<1> QED BY <1>3, <1>4, <1>5, <1>6, <1>7 DEF WorkerStep

(* While the owner joins, every step is one of these, or the end of the joins. *)
ClosingRunsOut ==
    [][Closing => \/ StepsToClose' < StepsToClose
                  \/ AllTerminated /\ ~Closing']_poolVars

(* A closing pool can only be held up by its workers, and they have a number *)
(* of steps that shrinks with each: whoever joins them returns.              *)
THEOREM PoolClosesInBoundedSteps == PoolSpec => [](StepsToClose \in Nat) /\ ClosingRunsOut
<1> DEFINE A == Closing => \/ StepsToClose' < StepsToClose
                           \/ AllTerminated /\ ~Closing'
<1>1. PoolInv /\ [PoolNext]_poolVars => [A]_poolVars
  <2> SUFFICES ASSUME PoolInv, PoolNext, Closing
               PROVE  \/ StepsToClose' < StepsToClose
                      \/ AllTerminated /\ ~Closing'
                      \/ UNCHANGED poolVars
    OBVIOUS
  <2>1. CASE \E w \in Workers : WorkerStep(w)
    BY <2>1, ClosingStep
  <2>2. CASE ShutdownJoined \/ DropJoined
    BY <2>2 DEF ShutdownJoined, DropJoined, Closing
  <2>3. CASE ShutdownSignal \/ DropSignal \/ \E t \in Tasks : Submit(t)
    BY <2>3 DEF ShutdownSignal, DropSignal, Submit, Closing
  <2> QED BY <2>1, <2>2, <2>3 DEF PoolNext, PoolTerminated
<1>2. PoolSpec => [](StepsToClose \in Nat)
  BY StepsToCloseIsNat, PoolInvariant, PTL
<1>3. PoolSpec => [][A]_poolVars
  BY <1>1, PoolInvariant, PTL DEF PoolSpec
<1> QED BY <1>2, <1>3 DEF ClosingRunsOut

-----------------------------------------------------------------------------
(* Draining: what AwakeWorkerDrainsQueue starts from does not get lost. *)
MoreAwakeThanPanics == Cardinality(AwakeWorkers) > Cardinality(PanicsAhead)

(* A worker leaves the awake ones for a panic, or when the queue is empty. *)
LEMMA AwakeStep ==
    ASSUME PoolInv, NEW w \in Workers, WorkerStep(w), injector # <<>>
    PROVE  \/ AwakeWorkers' = AwakeWorkers /\ PanicsAhead' \subseteq PanicsAhead
           \/ \E t \in PanicsAhead :
                  /\ w \in AwakeWorkers /\ AwakeWorkers' = AwakeWorkers \ {w}
                  /\ PanicsAhead' = PanicsAhead \ {t}
           \/ running
<1> USE DEF PoolInv, PoolTypeOK, AwakeWorkers, PanicsAhead
<1>1. CASE StealSuccess(w)
  <2>1. Head(injector) \in Tasks /\ task[Head(injector)] = "queued"
    BY <1>1, QueueTail DEF StealSuccess, TaskHeldOnce
  <2> QED BY <1>1, <2>1 DEF StealSuccess
<1>2. CASE StealEmpty(w) BY <1>2 DEF StealEmpty
<1>3. CASE CheckRunning(w) BY <1>3 DEF CheckRunning
<1>4. CASE RunReturn(w) BY <1>4 DEF RunReturn
<1>5. CASE RunPanic(w)
  <2>1. cur[w] \in MayPanic /\ task[cur[w]] = "running" /\ wpc[w] = "run"
    BY <1>5 DEF RunPanic, TaskHeldOnce
  <2>2. PanicsAhead' = PanicsAhead \ {cur[w]}
    BY <1>5, <2>1, TasksAssumption DEF RunPanic
  <2>3. AwakeWorkers' = AwakeWorkers \ {w}
    BY <1>5, <2>1 DEF RunPanic
  <2> QED BY <2>1, <2>2, <2>3
<1> QED BY <1>1, <1>2, <1>3, <1>4, <1>5 DEF WorkerStep

(* More awake workers than panics, up to the step that empties the queue. *)
AwakeUntilDrained ==
    [][owner = "joining" /\ injector # <<>> /\ MoreAwakeThanPanics =>
          owner' = "joining" /\ (injector' = <<>> \/ MoreAwakeThanPanics')]_poolVars

(* While more workers are awake than panics are ahead, so it stays until the *)
(* queue is empty, and `shutdown` does not return before that.               *)
THEOREM PoolStaysAwakeUntilDrained == PoolSpec => AwakeUntilDrained
<1> DEFINE A == owner = "joining" /\ injector # <<>> /\ MoreAwakeThanPanics =>
                   owner' = "joining" /\ (injector' = <<>> \/ MoreAwakeThanPanics')
<1>1. PoolInv /\ [PoolNext]_poolVars => [A]_poolVars
  <2> SUFFICES ASSUME PoolInv, PoolNext, owner = "joining", injector # <<>>,
                      MoreAwakeThanPanics
               PROVE  \/ owner' = "joining" /\ MoreAwakeThanPanics'
                      \/ UNCHANGED poolVars
    OBVIOUS
  <2>1. /\ IsFiniteSet(AwakeWorkers) /\ IsFiniteSet(PanicsAhead)
        /\ Cardinality(AwakeWorkers) \in Nat /\ Cardinality(PanicsAhead) \in Nat
    <3>1. IsFiniteSet(MayPanic) BY TasksAssumption, FS_Subset
    <3>2. AwakeWorkers \in SUBSET Workers /\ PanicsAhead \in SUBSET MayPanic
      BY DEF AwakeWorkers, PanicsAhead
    <3>3. IsFiniteSet(AwakeWorkers) /\ IsFiniteSet(PanicsAhead)
      BY <3>1, <3>2, FS_Subset, WorkersAssumption
    <3> QED BY <3>3, FS_CardinalityType
  <2>2. CASE \E w \in Workers : WorkerStep(w)
    <3>1. PICK w \in Workers : WorkerStep(w) BY <2>2
    <3>2. ~running /\ owner' = owner
      BY <3>1 DEF PoolInv, PoolTypeOK, WorkerStep, StealSuccess, StealEmpty,
                  CheckRunning, RunReturn, RunPanic
    <3>3. CASE AwakeWorkers' = AwakeWorkers /\ PanicsAhead' \subseteq PanicsAhead
      <4>1. PanicsAhead' \in SUBSET PanicsAhead BY <3>3
      <4>2. Cardinality(PanicsAhead') <= Cardinality(PanicsAhead)
            /\ Cardinality(PanicsAhead') \in Nat
        BY <2>1, <4>1, FS_Subset, FS_CardinalityType
      <4>3. Cardinality(AwakeWorkers') = Cardinality(AwakeWorkers) BY <3>3
      <4> QED BY <2>1, <3>2, <4>2, <4>3 DEF MoreAwakeThanPanics
    <3>4. CASE \E t \in PanicsAhead :
                  /\ w \in AwakeWorkers /\ AwakeWorkers' = AwakeWorkers \ {w}
                  /\ PanicsAhead' = PanicsAhead \ {t}
      <4>1. PICK t \in PanicsAhead :
                  /\ w \in AwakeWorkers /\ AwakeWorkers' = AwakeWorkers \ {w}
                  /\ PanicsAhead' = PanicsAhead \ {t}
        BY <3>4
      <4>2. Cardinality(AwakeWorkers') = Cardinality(AwakeWorkers) - 1
        BY <2>1, <4>1, FS_RemoveElement
      <4>3. Cardinality(PanicsAhead') = Cardinality(PanicsAhead) - 1
        BY <2>1, <4>1, FS_RemoveElement
      <4> QED BY <2>1, <3>2, <4>2, <4>3 DEF MoreAwakeThanPanics
    <3> QED BY <3>1, <3>2, <3>3, <3>4, AwakeStep
  <2>3. CASE ShutdownJoined
    <3>1. AwakeWorkers = {} BY <2>3 DEF ShutdownJoined, AllTerminated, Terminated, AwakeWorkers
    <3>2. Cardinality(AwakeWorkers) = 0 BY <3>1, FS_EmptySet
    <3> QED BY <2>1, <3>2 DEF MoreAwakeThanPanics
  <2>4. CASE DropJoined \/ ShutdownSignal \/ DropSignal \/ \E t \in Tasks : Submit(t)
    BY <2>4 DEF DropJoined, ShutdownSignal, DropSignal, Submit
  <2> QED BY <2>2, <2>3, <2>4 DEF PoolNext, PoolTerminated
<1> QED BY <1>1, PoolInvariant, PTL DEF PoolSpec, AwakeUntilDrained

-----------------------------------------------------------------------------
(* THE SCHEDULER                                                            *)
(* Every step of the scheduler is a step of the pool or leaves it alone, so *)
(* the invariant of the pool carries over.                                  *)

(* Where the closures of the units are, in terms of the bands. *)
BandState ==
    /\ owner \in {"open", "dropping", "dropped"}
    /\ phase # "returned" => owner = "open"
    /\ phase # "submit" => toSubmit = {}
    /\ \A u \in Tasks : task[u] = "new" <=> u \notin placed \/ u \in toSubmit
    /\ phase \in {"next", "returned"} => \A u \in placed : task[u] \in Finished
    /\ \A u \in placed \ band : task[u] \in Finished
    /\ \A u \in placed : \A d \in deps[u] : task[d] \in Finished
    /\ phase = "returned" => Frontier = {}

(* Which results have been sent, and where they are. *)
ResultState ==
    /\ \A u \in sent : task[u] \in {"running", "done"}
    /\ \A u \in Tasks : task[u] = "done" => u \in sent
    /\ results \subseteq sent
    /\ phase \in {"next", "returned"} => channel = <<>>

SchedulerInv ==
    TypeOK /\ PoolInv /\ BandState /\ ResultState /\ ChannelOfBand

-----------------------------------------------------------------------------
(* The scheduler uses the pool only through the pool's own actions. *)
LEMMA StepIsPoolStep == [Next]_vars => [PoolNext]_poolVars
<1> SUFFICES ASSUME [Next]_vars PROVE [PoolNext]_poolVars
  OBVIOUS
<1>1. ASSUME NEW u \in Tasks, SubmitUnit(u) PROVE PoolNext
  BY <1>1 DEF SubmitUnit, PoolNext
<1>2. CASE StartBand \/ DropSender \/ Receive \/ BandDone \/ RunUnitsReturns
  BY <1>2 DEF StartBand, DropSender, Receive, BandDone, RunUnitsReturns
<1>3. ASSUME NEW w \in Workers, WorkerThread(w) PROVE [PoolNext]_poolVars
  BY <1>3 DEF WorkerThread, PoolStep, SendResult, ClosureReturns, ClosurePanics,
              PoolNext, WorkerStep
<1>4. CASE DropScheduler
  BY <1>4 DEF DropScheduler, PoolNext
<1>5. CASE UNCHANGED vars
  BY <1>5 DEF vars
<1> QED
  BY <1>1, <1>2, <1>3, <1>4, <1>5 DEF Next, CallerStep, SchedulerGone

(* Hence the pool keeps its own invariant under the scheduler. *)
LEMMA StepPoolInv ==
    ASSUME PoolInv, [Next]_vars
    PROVE  PoolInv'
  BY StepIsPoolStep, PoolInvInductive

(* What a worker's step does to the tasks: it begins a queued one or ends *)
(* its own.                                                               *)
LEMMA WorkerEffect ==
    ASSUME PoolInv, NEW w \in Workers, WorkerThread(w)
    PROVE  /\ \A u \in Tasks : task'[u] = "new" <=> task[u] = "new"
           /\ \A u \in Tasks : task[u] \in Finished => task'[u] = task[u]
           /\ UNCHANGED <<owner, deps, phase, placed, band, toSubmit, results>>
<1> USE DEF PoolInv, PoolTypeOK, Finished
<1>1. CASE PoolStep(w)
  <2>1. CASE StealSuccess(w)
    <3>1. Head(injector) \in Tasks /\ task[Head(injector)] = "queued"
      BY <2>1, QueueTail DEF StealSuccess, TaskHeldOnce
    <3> QED BY <1>1, <2>1, <3>1 DEF PoolStep, StealSuccess, callVars
  <2>2. CASE StealEmpty(w) \/ CheckRunning(w)
    BY <1>1, <2>2 DEF PoolStep, StealEmpty, CheckRunning, callVars
  <2> QED BY <1>1, <2>1, <2>2 DEF PoolStep
<1>2. CASE SendResult(w)
  BY <1>2 DEF SendResult, poolVars
<1>3. CASE ClosureReturns(w) \/ ClosurePanics(w)
  <2>1. cur[w] \in Tasks /\ task[cur[w]] = "running"
    BY <1>3 DEF ClosureReturns, ClosurePanics, RunReturn, RunPanic, TaskHeldOnce
  <2> QED
    BY <1>3, <2>1 DEF ClosureReturns, ClosurePanics, RunReturn, RunPanic, callVars
<1> QED BY <1>1, <1>2, <1>3 DEF WorkerThread

-----------------------------------------------------------------------------
(* Before the first band nothing is placed, sent or received. *)
LEMMA InitSchedulerInv == Init => SchedulerInv
<1> SUFFICES ASSUME Init PROVE SchedulerInv
  OBVIOUS
<1>1. PoolInv
  BY PoolInvInductive DEF Init
<1>2. TypeOK
  BY <1>1 DEF Init, TypeOK, PoolInv, Phase
<1>3. BandState /\ ResultState /\ ChannelOfBand
  BY DEF Init, PoolInit, BandState, ResultState, ChannelOfBand
<1> QED BY <1>1, <1>2, <1>3 DEF SchedulerInv

(* The caller's variables keep their types. *)
LEMMA StepTypeOK ==
    ASSUME SchedulerInv, [Next]_vars
    PROVE  TypeOK'
<1>0. PoolTypeOK'
  BY StepPoolInv DEF SchedulerInv, PoolInv
<1> USE DEF SchedulerInv, TypeOK, Phase
<1>1. CASE StartBand
  <2>1. Frontier \subseteq Tasks BY DEF Frontier
  <2> QED BY <1>0, <1>1, <2>1 DEF StartBand
<1>2. ASSUME NEW u \in Tasks, SubmitUnit(u) PROVE TypeOK'
  BY <1>0, <1>2 DEF SubmitUnit
<1>3. CASE DropSender \/ BandDone \/ RunUnitsReturns
  BY <1>0, <1>3 DEF DropSender, BandDone, RunUnitsReturns
<1>4. CASE Receive
  <2>1. Head(channel) \in Tasks /\ Tail(channel) \in Seq(Tasks)
    BY <1>4, QueueTail DEF Receive
  <2> QED BY <1>0, <1>4, <2>1 DEF Receive
<1>5. ASSUME NEW w \in Workers, WorkerThread(w) PROVE TypeOK'
  <2>1. CASE SendResult(w)
    <3>1. cur[w] \in Tasks
      BY <2>1 DEF SendResult, PoolInv, TaskHeldOnce
    <3>2. Append(channel, cur[w]) \in Seq(Tasks)
      BY <3>1, QueueAppend
    <3> QED BY <1>0, <2>1, <3>1, <3>2 DEF SendResult
  <2>2. CASE UNCHANGED callVars
    BY <1>0, <2>2 DEF callVars
  <2> QED
    BY <1>5, <2>1, <2>2 DEF WorkerThread, PoolStep, ClosureReturns, ClosurePanics
<1>6. CASE DropScheduler
  BY <1>0, <1>6 DEF DropScheduler, callVars
<1>7. CASE UNCHANGED vars
  BY <1>0, <1>7 DEF vars, callVars
<1> QED
  BY <1>1, <1>2, <1>3, <1>4, <1>5, <1>6, <1>7 DEF Next, CallerStep, SchedulerGone

(* A band is begun only when the bands before it have ended. *)
LEMMA StepBandState ==
    ASSUME SchedulerInv, [Next]_vars
    PROVE  BandState'
<1> USE DEF SchedulerInv, BandState
<1>0. TypeOK' BY StepTypeOK
<1>1. CASE StartBand
  <2>1. /\ Frontier \subseteq Tasks \ placed
        /\ \A u \in Frontier : deps[u] \subseteq placed
    BY DEF Frontier
  <2>2. \A u \in placed : task[u] \in Finished
    BY <1>1 DEF StartBand
  <2>3. UNCHANGED <<task, owner, deps>> /\ phase' = "submit"
    BY <1>1 DEF StartBand, poolVars
  <2>4. placed' = placed \union Frontier /\ band' = Frontier /\ toSubmit' = Frontier
    BY <1>1 DEF StartBand
  <2>5. \A u \in Tasks : task'[u] = "new" <=> u \notin placed' \/ u \in toSubmit'
    BY <1>1, <2>1, <2>3, <2>4 DEF StartBand
  <2>6. \A u \in placed' : \A d \in deps'[u] : task'[d] \in Finished
    BY <2>1, <2>2, <2>3, <2>4
  <2>7. \A u \in placed' \ band' : task'[u] \in Finished
    BY <2>2, <2>3, <2>4
  <2> QED BY <1>1, <2>3, <2>5, <2>6, <2>7 DEF StartBand
<1>2. ASSUME NEW u \in Tasks, SubmitUnit(u) PROVE BandState'
  <2>1. /\ task[u] = "new" /\ task' = [task EXCEPT ![u] = "queued"]
        /\ UNCHANGED <<owner, deps, phase, placed, band>>
        /\ phase = "submit" /\ u \in toSubmit /\ toSubmit' = toSubmit \ {u}
    BY <1>2 DEF SubmitUnit, Submit
  <2>2. \A v \in Tasks : task[v] \in Finished => task'[v] \in Finished
    BY <2>1 DEF TypeOK, PoolTypeOK, Finished
  <2>3. \A v \in Tasks : task'[v] = "new" <=> v \notin placed \/ v \in toSubmit'
    BY <2>1 DEF TypeOK, PoolTypeOK
  <2>4. \A v \in placed : deps[v] \subseteq Tasks
    BY DepGraphsAssumption DEF TypeOK
  <2> QED BY <2>1, <2>2, <2>3, <2>4 DEF TypeOK
<1>3. CASE DropSender \/ Receive
  BY <1>3 DEF DropSender, Receive, poolVars, Frontier
<1>4. CASE BandDone
  <2>1. \A u \in band : task[u] \notin {"queued", "running"}
    BY <1>4 DEF BandDone, LiveSenders
  <2>2. \A u \in band : task[u] \in Finished
    <3> SUFFICES ASSUME NEW u \in band PROVE task[u] \in Finished
      OBVIOUS
    <3>1. task[u] # "new" /\ task[u] # "dropped"
      BY <1>4 DEF BandDone, TypeOK, PoolInv, JoinedPoolIsIdle
    <3>2. task[u] \in TaskState
      BY DEF TypeOK, PoolTypeOK
    <3> QED BY <2>1, <3>1, <3>2 DEF Finished, TaskState
  <2>3. \A u \in placed : task[u] \in Finished
    BY <2>2
  <2> QED BY <1>4, <2>3 DEF BandDone, poolVars
<1>5. CASE RunUnitsReturns
  BY <1>5 DEF RunUnitsReturns, poolVars, Frontier
<1>6. ASSUME NEW w \in Workers, WorkerThread(w) PROVE BandState'
  <2>1. /\ \A u \in Tasks : task'[u] = "new" <=> task[u] = "new"
        /\ \A u \in Tasks : task[u] \in Finished => task'[u] = task[u]
        /\ UNCHANGED <<owner, deps, phase, placed, band, toSubmit, results>>
    BY <1>6, WorkerEffect
  <2>2. \A v \in placed : deps[v] \subseteq Tasks
    BY DepGraphsAssumption DEF TypeOK
  <2>3. Frontier' = Frontier
    BY <2>1 DEF Frontier
  <2> QED BY <2>1, <2>2, <2>3 DEF TypeOK
<1>7. CASE DropScheduler
  <2>1. /\ phase = "returned" /\ UNCHANGED callVars
        /\ owner' \in {"dropping", "dropped"}
    BY <1>7 DEF DropScheduler, DropSignal, DropJoined
  <2>2. \A u \in Tasks : task[u] = "new" \/ task[u] \in Finished
    BY <2>1
  <2>3. \A u \in Tasks : task'[u] = task[u]
    BY <1>7, <2>2 DEF DropScheduler, DropSignal, DropJoined, Finished
  <2>4. \A v \in placed : deps[v] \subseteq Tasks
    BY DepGraphsAssumption DEF TypeOK
  <2>5. Frontier' = Frontier
    BY <2>1 DEF Frontier, callVars
  <2> QED BY <2>1, <2>3, <2>4, <2>5 DEF TypeOK, callVars
<1>8. CASE UNCHANGED vars
  BY <1>8 DEF vars, callVars, poolVars, Frontier
<1> QED
  BY <1>1, <1>2, <1>3, <1>4, <1>5, <1>6, <1>7, <1>8
     DEF Next, CallerStep, SchedulerGone

(* A result is sent by the running closure, once, and a closure ends well *)
(* only after that.                                                       *)
LEMMA StepResultState ==
    ASSUME SchedulerInv, [Next]_vars
    PROVE  ResultState'
<1> USE DEF SchedulerInv, ResultState
<1>1. CASE StartBand
  BY <1>1 DEF StartBand, poolVars
<1>2. ASSUME NEW u \in Tasks, SubmitUnit(u) PROVE ResultState'
  <2>1. /\ task[u] = "new" /\ task' = [task EXCEPT ![u] = "queued"]
        /\ UNCHANGED <<phase, channel, sent, results>>
    BY <1>2 DEF SubmitUnit, Submit
  <2>2. u \notin sent
    BY <2>1
  <2> QED BY <2>1, <2>2 DEF TypeOK, PoolTypeOK
<1>3. CASE DropSender \/ RunUnitsReturns \/ BandDone
  BY <1>3 DEF DropSender, RunUnitsReturns, BandDone, poolVars
<1>4. CASE Receive
  <2>1. Head(channel) \in sent
    BY <1>4, QueueTail DEF Receive, TypeOK, ChannelOfBand
  <2> QED BY <1>4, <2>1 DEF Receive, poolVars
<1>5. ASSUME NEW w \in Workers, WorkerThread(w) PROVE ResultState'
  <2>0. CASE PoolStep(w)
    <3>1. CASE StealSuccess(w)
      <4>1. Head(injector) \in Tasks /\ task[Head(injector)] = "queued"
        BY <3>1, QueueTail DEF StealSuccess, PoolInv, TaskHeldOnce, PoolTypeOK
      <4> QED
        BY <2>0, <3>1, <4>1 DEF PoolStep, StealSuccess, callVars, TypeOK, PoolTypeOK
    <3>2. CASE StealEmpty(w) \/ CheckRunning(w)
      BY <2>0, <3>2 DEF PoolStep, StealEmpty, CheckRunning, callVars
    <3> QED BY <2>0, <3>1, <3>2 DEF PoolStep
  <2>1. CASE SendResult(w)
    <3>1. cur[w] \in Tasks /\ task[cur[w]] = "running"
      BY <2>1 DEF SendResult, PoolInv, TaskHeldOnce
    <3>2. phase \notin {"next", "returned"}
      BY <3>1 DEF BandState, Finished
    <3> QED BY <2>1, <3>1, <3>2 DEF SendResult, poolVars
  <2>2. CASE ClosureReturns(w) \/ ClosurePanics(w)
    <3>1. cur[w] \in Tasks /\ task[cur[w]] = "running"
      BY <2>2 DEF ClosureReturns, ClosurePanics, RunReturn, RunPanic,
                  PoolInv, TaskHeldOnce
    <3> QED
      BY <2>2, <3>1 DEF ClosureReturns, ClosurePanics, RunReturn, RunPanic,
                        callVars, TypeOK, PoolTypeOK
  <2> QED BY <1>5, <2>0, <2>1, <2>2 DEF WorkerThread
<1>6. CASE DropScheduler
  <2>1. UNCHANGED callVars /\ \A u \in Tasks : task'[u] = task[u] \/ task[u] = "queued"
    BY <1>6 DEF DropScheduler, DropSignal, DropJoined
  <2>2. \A u \in Tasks : task[u] = "queued" => task'[u] \in {"queued", "dropped"}
    BY <1>6 DEF DropScheduler, DropSignal, DropJoined
  <2> QED BY <2>1, <2>2 DEF callVars, TypeOK
<1>7. CASE UNCHANGED vars
  BY <1>7 DEF vars, callVars, poolVars
<1> QED
  BY <1>1, <1>2, <1>3, <1>4, <1>5, <1>6, <1>7 DEF Next, CallerStep, SchedulerGone

(* The channel holds unread results of this band only: it is empty when the *)
(* band is replaced, and a running unit is of the current band.             *)
LEMMA StepChannelOfBand ==
    ASSUME SchedulerInv, [Next]_vars
    PROVE  ChannelOfBand'
<1> USE DEF SchedulerInv, ChannelOfBand
<1>1. CASE StartBand
  <2>1. channel = <<>> /\ channel' = <<>> /\ UNCHANGED <<sent, results>>
    BY <1>1 DEF StartBand, ResultState
  <2>2. sent \subseteq results
    BY <2>1
  <2> QED BY <2>1, <2>2
<1>2. ASSUME NEW u \in Tasks, SubmitUnit(u) PROVE ChannelOfBand'
  BY <1>2 DEF SubmitUnit
<1>3. CASE DropSender \/ RunUnitsReturns \/ BandDone
  BY <1>3 DEF DropSender, RunUnitsReturns, BandDone
<1>4. CASE Receive
  <2> DEFINE n == Len(channel)
             h == Head(channel)
  <2>1. /\ n \in Nat \ {0} /\ Len(channel') = n - 1 /\ h = channel[1]
        /\ \A i \in 1 .. n - 1 : channel'[i] = channel[i + 1]
    BY <1>4, QueueTail DEF Receive, TypeOK
  <2>2. results' = results \union {h} /\ UNCHANGED <<band, sent>>
    BY <1>4 DEF Receive
  <2>3. \A i \in 2 .. n : channel[i] # h
    BY <2>1
  <2>4. \A i \in 1 .. n - 1 :
            channel'[i] \in (band' \intersect sent') \ results'
    BY <2>1, <2>2, <2>3
  <2>5. \A i, j \in 1 .. n - 1 : channel'[i] = channel'[j] => i = j
    BY <2>1
  <2>6. \A u \in sent' :
            u \in results' \/ \E i \in 1 .. n - 1 : channel'[i] = u
    <3> SUFFICES ASSUME NEW u \in sent, u \notin results'
                 PROVE  \E i \in 1 .. n - 1 : channel'[i] = u
      BY <2>2
    <3>1. PICK i \in 1 .. n : channel[i] = u
      BY <2>2
    <3>2. i # 1
      BY <2>1, <2>2, <3>1
    <3>3. i - 1 \in 1 .. n - 1 /\ channel'[i - 1] = u
      BY <2>1, <3>1, <3>2
    <3> QED BY <3>3
  <2> QED BY <2>1, <2>4, <2>5, <2>6
<1>5. ASSUME NEW w \in Workers, WorkerThread(w) PROVE ChannelOfBand'
  <2>1. CASE SendResult(w)
    <3> DEFINE n == Len(channel)
               u == cur[w]
    <3>1. u \in Tasks /\ task[u] = "running" /\ u \notin sent
      BY <2>1 DEF SendResult, PoolInv, TaskHeldOnce
    <3>2. u \in band
      BY <3>1 DEF BandState, Finished
    <3>3. /\ n \in Nat /\ Len(channel') = n + 1 /\ channel'[n + 1] = u
          /\ \A i \in 1 .. n : channel'[i] = channel[i]
          /\ sent' = sent \union {u} /\ UNCHANGED <<band, results>>
      BY <2>1, <3>1, QueueAppend DEF SendResult, TypeOK
    <3>4. u \notin results
      BY <3>1 DEF ResultState
    <3>5. \A i \in 1 .. n : channel[i] # u
      BY <3>1
    <3> HIDE DEF u, n
    <3>6. \A i \in 1 .. n + 1 :
              channel'[i] \in (band' \intersect sent') \ results'
      <4> SUFFICES ASSUME NEW i \in 1 .. n + 1
                   PROVE  channel'[i] \in (band' \intersect sent') \ results'
        OBVIOUS
      <4>1. CASE i = n + 1 BY <4>1, <3>2, <3>3, <3>4
      <4>2. CASE i \in 1 .. n BY <4>2, <3>3 DEF n
      <4> QED BY <3>3, <4>1, <4>2
    <3>7. \A i, j \in 1 .. n + 1 : channel'[i] = channel'[j] => i = j
      BY <3>3, <3>5 DEF n
    <3>8. \A v \in sent' :
              v \in results' \/ \E i \in 1 .. n + 1 : channel'[i] = v
      <4> SUFFICES ASSUME NEW v \in sent', v \notin results'
                   PROVE  \E i \in 1 .. n + 1 : channel'[i] = v
        OBVIOUS
      <4>1. CASE v = u BY <4>1, <3>3
      <4>2. CASE v # u
        <5>1. PICK i \in 1 .. n : channel[i] = v BY <4>2, <3>3 DEF n
        <5> QED BY <5>1, <3>3
      <4> QED BY <4>1, <4>2
    <3> QED BY <3>3, <3>6, <3>7, <3>8
  <2>2. CASE UNCHANGED callVars
    BY <2>2 DEF callVars
  <2> QED
    BY <1>5, <2>1, <2>2 DEF WorkerThread, PoolStep, ClosureReturns, ClosurePanics
<1>6. CASE DropScheduler
  BY <1>6 DEF DropScheduler, callVars
<1>7. CASE UNCHANGED vars
  BY <1>7 DEF vars, callVars
<1> QED
  BY <1>1, <1>2, <1>3, <1>4, <1>5, <1>6, <1>7 DEF Next, CallerStep, SchedulerGone

-----------------------------------------------------------------------------
(* The four parts of the invariant hold each other up. *)
LEMMA SchedulerInvInductive ==
    /\ Init => SchedulerInv
    /\ SchedulerInv /\ [Next]_vars => SchedulerInv'
<1>1. ASSUME SchedulerInv, [Next]_vars PROVE SchedulerInv'
  <2>1. PoolInv' BY <1>1, StepPoolInv DEF SchedulerInv
  <2> QED
    BY <1>1, <2>1, StepTypeOK, StepBandState, StepResultState, StepChannelOfBand
       DEF SchedulerInv
<1> QED BY <1>1, InitSchedulerInv

(* The inductive invariant of run_units: the state of each closure, of its *)
(* result and of the pool fit the band the caller is in.                   *)
THEOREM SchedulerInvariant == Spec => []SchedulerInv
  BY SchedulerInvInductive, PTL DEF Spec

(* The variables of the scheduler always have their types. *)
THEOREM SchedulerTypeCorrect == Spec => []TypeOK
<1>1. SchedulerInv => TypeOK BY DEF SchedulerInv
<1> QED BY <1>1, SchedulerInvariant, PTL

(* No unit is handed to the pool before the units of all earlier bands, its *)
(* dependencies among them, have ended.                                     *)
THEOREM SchedulerBandBarrier == Spec => []BandBarrier
<1>1. SchedulerInv => BandBarrier
  BY DEF SchedulerInv, BandState, BandBarrier
<1> QED BY <1>1, SchedulerInvariant, PTL

(* A result sent by a worker is in the channel of its own band or in the map. *)
THEOREM SchedulerChannelOfBand == Spec => []ChannelOfBand
<1>1. SchedulerInv => ChannelOfBand BY DEF SchedulerInv
<1> QED BY <1>1, SchedulerInvariant, PTL

(* At the return all bands have ended and the channel is read to its end. *)
LEMMA InvAccounts == SchedulerInv => ReturnAccountsForUnits
<1> SUFFICES ASSUME SchedulerInv, phase = "returned" PROVE
        /\ results = {u \in Tasks : task[u] = "done"}
        /\ \A u \in placed : task[u] \in Finished
        /\ \A u \in Tasks \ placed :
              task[u] = "new" /\ \E d \in deps[u] : d \notin placed
  BY DEF ReturnAccountsForUnits
<1> USE DEF SchedulerInv
<1>1. \A u \in placed : task[u] \in Finished
  BY DEF BandState
<1>2. \A u \in Tasks \ placed : task[u] = "new" /\ ~(deps[u] \subseteq placed)
  BY DEF BandState, Frontier
<1>3. sent = results
  <2>1. channel = <<>>
    BY DEF ResultState
  <2>2. sent \subseteq results
    BY <2>1 DEF ChannelOfBand
  <2> QED BY <2>2 DEF ResultState
<1>4. \A u \in Tasks : u \in sent <=> task[u] = "done"
  <2>1. \A u \in Tasks : task[u] # "running"
    BY <1>1, <1>2 DEF Finished
  <2> QED BY <2>1 DEF ResultState
<1>5. results = {u \in Tasks : task[u] = "done"}
  BY <1>3, <1>4 DEF TypeOK
<1> QED BY <1>1, <1>2, <1>5

(* When run_units returns, each unit has a result, has panicked, or waits for *)
(* a unit that was never placed.                                              *)
THEOREM SchedulerAccounts == Spec => []ReturnAccountsForUnits
  BY InvAccounts, SchedulerInvariant, PTL

-----------------------------------------------------------------------------
(* The refinement.  A unit begins when its closure is stolen, and ends when *)
(* the closure returns or panics; every other step but the return of        *)
(* run_units changes nothing the abstract run sees.                         *)
LEMMA AbstractUnitValues ==
    ASSUME NEW u \in Tasks
    PROVE  /\ task[u] \in {"new", "queued"} => AbstractUnit[u] = "waiting"
           /\ task[u] = "running"  => AbstractUnit[u] = "active"
           /\ task[u] = "done"     => AbstractUnit[u] = "succeeded"
           /\ task[u] = "panicked" => AbstractUnit[u] = "panicked"
  BY DEF AbstractUnit

(* A step that keeps who has begun and who has ended is a stutter. *)
LEMMA AbstractSame ==
    ASSUME \A u \in Tasks : task'[u] = task[u], UNCHANGED <<deps, phase, results>>
    PROVE  UNCHANGED Abstract!aVars
<1>1. AbstractUnit' = AbstractUnit
  BY DEF AbstractUnit
<1>2. AbstractAnswer' = AbstractAnswer
  BY DEF AbstractAnswer
<1> QED BY <1>1, <1>2 DEF Abstract!aVars

(* The scheduler starts where an abstract run starts. *)
LEMMA InitRefines == Init => Abstract!AInit
<1> SUFFICES ASSUME Init PROVE Abstract!AInit
  OBVIOUS
<1>1. AbstractUnit = [u \in Tasks |-> "waiting"]
  BY DEF Init, PoolInit, AbstractUnit
<1>2. AbstractAnswer = [returned |-> FALSE, results |-> {}]
  BY DEF Init, AbstractAnswer
<1> QED BY <1>1, <1>2 DEF Init, Abstract!AInit

(* The steps of a worker: Begin, End or a stutter. *)
LEMMA WorkerRefines ==
    ASSUME SchedulerInv, NEW w \in Workers, WorkerThread(w)
    PROVE  Abstract!ANext \/ UNCHANGED Abstract!aVars
<1> USE DEF SchedulerInv
<1>1. UNCHANGED <<deps, phase, results>> /\ AbstractAnswer' = AbstractAnswer
  BY WorkerEffect DEF AbstractAnswer
<1>2. CASE StealSuccess(w)
  <2> DEFINE h == Head(injector)
  <2>1. /\ h \in Tasks /\ task[h] = "queued"
        /\ task' = [task EXCEPT ![h] = "running"]
    BY <1>2, QueueTail DEF StealSuccess, PoolInv, PoolTypeOK, TaskHeldOnce
  <2>2. \A d \in deps[h] : d \in Tasks /\ task[d] \in Finished
    BY <2>1, DepGraphsAssumption DEF BandState, TypeOK
  <2> HIDE DEF h
  <2>3. AbstractUnit[h] = "waiting"
    BY <2>1 DEF AbstractUnit
  <2>4. \A d \in deps[h] : AbstractUnit[d] \in {"succeeded", "panicked"}
    BY <2>2, AbstractUnitValues DEF Finished
  <2>5. AbstractUnit' = [AbstractUnit EXCEPT ![h] = "active"]
    BY <2>1 DEF AbstractUnit, TypeOK, PoolTypeOK
  <2>6. Abstract!Begin(h)
    BY <1>1, <2>3, <2>4, <2>5 DEF Abstract!Begin, Abstract!AEnded
  <2> QED BY <2>1, <2>6 DEF Abstract!ANext
<1>3. CASE RunReturn(w) \/ RunPanic(w)
  <2> DEFINE c == cur[w]
  <2>1. c \in Tasks /\ task[c] = "running"
    BY <1>3 DEF RunReturn, RunPanic, PoolInv, TaskHeldOnce
  <2>2. PICK o \in {"done", "panicked"} : task' = [task EXCEPT ![c] = o]
    BY <1>3 DEF RunReturn, RunPanic
  <2> HIDE DEF c
  <2>3. AbstractUnit[c] = "active"
    BY <2>1 DEF AbstractUnit
  <2>4. \E outcome \in {"succeeded", "panicked"} :
            AbstractUnit' = [AbstractUnit EXCEPT ![c] = outcome]
    <3>1. CASE o = "done"
      <4>1. AbstractUnit' = [AbstractUnit EXCEPT ![c] = "succeeded"]
        BY <2>1, <2>2, <3>1 DEF AbstractUnit, TypeOK, PoolTypeOK
      <4> QED BY <4>1
    <3>2. CASE o = "panicked"
      <4>1. AbstractUnit' = [AbstractUnit EXCEPT ![c] = "panicked"]
        BY <2>1, <2>2, <3>2 DEF AbstractUnit, TypeOK, PoolTypeOK
      <4> QED BY <4>1
    <3> QED BY <3>1, <3>2
  <2>5. Abstract!End(c)
    BY <1>1, <2>3, <2>4 DEF Abstract!End
  <2> QED BY <2>1, <2>5 DEF Abstract!ANext
<1>4. CASE StealEmpty(w) \/ CheckRunning(w) \/ SendResult(w)
  <2>1. task' = task
    BY <1>4 DEF StealEmpty, CheckRunning, SendResult, poolVars
  <2> QED BY <1>1, <2>1, AbstractSame
<1> QED
  BY <1>2, <1>3, <1>4 DEF WorkerThread, PoolStep, ClosureReturns, ClosurePanics

(* Nothing can be begun when run_units returns, and its results are those of *)
(* the units that succeeded.                                                 *)
LEMMA ReturnRefines ==
    ASSUME SchedulerInv, SchedulerInv', RunUnitsReturns
    PROVE  Abstract!Return
<1> USE DEF SchedulerInv
<1>1. /\ phase = "next" /\ phase' = "returned" /\ Frontier = {}
      /\ UNCHANGED <<task, deps, placed, toSubmit, results>>
  BY DEF RunUnitsReturns, poolVars
<1>2. AbstractUnit' = AbstractUnit
  BY <1>1 DEF AbstractUnit
<1>3. AbstractAnswer = [returned |-> FALSE, results |-> {}]
  BY <1>1 DEF AbstractAnswer
<1>4. AbstractAnswer' = [returned |-> TRUE, results |-> results]
  BY <1>1 DEF AbstractAnswer
<1>5. ReturnAccountsForUnits'
  <2>1. phase' = "returned" BY <1>1
  <2>2. SchedulerInv' => ReturnAccountsForUnits' BY InvAccounts, PTL
  <2> QED BY <2>2
<1>6. results = {u \in Tasks : task[u] = "done"}
  BY <1>1, <1>5 DEF ReturnAccountsForUnits
<1>7. \A u \in Tasks : AbstractUnit[u] = "succeeded" <=> task[u] = "done"
  BY DEF AbstractUnit
<1>8. results = {u \in Tasks : AbstractUnit[u] = "succeeded"}
  BY <1>6, <1>7
<1>9. ASSUME NEW u \in Tasks
      PROVE  \/ AbstractUnit[u] \in {"succeeded", "panicked"}
             \/ /\ AbstractUnit[u] = "waiting"
                /\ \E d \in deps[u] : AbstractUnit[d] = "waiting"
  <2>1. CASE u \in placed
    BY <1>1, <2>1, AbstractUnitValues DEF BandState, Finished
  <2>2. CASE u \notin placed
    <3>1. PICK d \in deps[u] : d \notin placed
      BY <1>1, <2>2 DEF Frontier
    <3>2. d \in Tasks
      BY DepGraphsAssumption DEF TypeOK
    <3>3. task[u] = "new" /\ task[d] = "new"
      BY <2>2, <3>1, <3>2 DEF BandState
    <3> QED BY <3>2, <3>3, AbstractUnitValues
  <2> QED BY <2>1, <2>2
<1> QED
  BY <1>1, <1>2, <1>3, <1>4, <1>8, <1>9 DEF Abstract!Return, Abstract!AEnded

(* Every step of the scheduler is an abstract step or a stutter. *)
LEMMA StepRefines ==
    ASSUME SchedulerInv, SchedulerInv', [Next]_vars
    PROVE  [Abstract!ANext]_(Abstract!aVars)
<1> USE DEF SchedulerInv
<1>1. ASSUME NEW w \in Workers, WorkerThread(w)
      PROVE  [Abstract!ANext]_(Abstract!aVars)
  BY <1>1, WorkerRefines
<1>2. CASE RunUnitsReturns
  BY <1>2, ReturnRefines DEF Abstract!ANext
<1>3. CASE StartBand \/ DropSender \/ BandDone
  <2>1. /\ task' = task /\ UNCHANGED <<deps, results>> /\ phase # "returned"
        /\ phase' # "returned"
    BY <1>3 DEF StartBand, DropSender, BandDone, poolVars
  <2>2. AbstractUnit' = AbstractUnit /\ AbstractAnswer' = AbstractAnswer
    BY <2>1 DEF AbstractUnit, AbstractAnswer
  <2> QED BY <2>1, <2>2 DEF Abstract!aVars
<1>4. CASE Receive
  <2>1. task' = task /\ UNCHANGED <<deps, phase>> /\ phase = "recv"
    BY <1>4 DEF Receive, poolVars
  <2>2. AbstractUnit' = AbstractUnit /\ AbstractAnswer' = AbstractAnswer
    BY <2>1 DEF AbstractUnit, AbstractAnswer
  <2> QED BY <2>1, <2>2 DEF Abstract!aVars
<1>5. ASSUME NEW u \in Tasks, SubmitUnit(u)
      PROVE  [Abstract!ANext]_(Abstract!aVars)
  <2>1. /\ task[u] = "new" /\ task' = [task EXCEPT ![u] = "queued"]
        /\ UNCHANGED <<deps, phase, results>>
    BY <1>5 DEF SubmitUnit, Submit
  <2>2. \A v \in Tasks : task'[v] = task[v] \/ v = u
    BY <2>1 DEF TypeOK, PoolTypeOK
  <2>3. task'[u] = "queued"
    BY <2>1 DEF TypeOK, PoolTypeOK
  <2>4. AbstractUnit' = AbstractUnit
    BY <2>1, <2>2, <2>3 DEF AbstractUnit
  <2>5. AbstractAnswer' = AbstractAnswer
    BY <2>1 DEF AbstractAnswer
  <2> QED BY <2>1, <2>4, <2>5 DEF Abstract!aVars
<1>6. CASE DropScheduler
  <2>1. phase = "returned" /\ UNCHANGED callVars
    BY <1>6 DEF DropScheduler
  <2>2. \A u \in Tasks : task[u] # "queued"
    BY <2>1 DEF BandState, Finished
  <2>3. \A u \in Tasks : task'[u] = task[u]
    BY <1>6, <2>2 DEF DropScheduler, DropSignal, DropJoined
  <2> QED BY <2>1, <2>3, AbstractSame DEF callVars
<1>7. CASE UNCHANGED vars
  BY <1>7, AbstractSame DEF vars, callVars, poolVars
<1> QED
  BY <1>1, <1>2, <1>3, <1>4, <1>5, <1>6, <1>7 DEF Next, CallerStep, SchedulerGone

(* The threads of run_units, whatever their number and speed, implement a run *)
(* that respects the dependencies and returns what it ran.                    *)
THEOREM SchedulerRefinesOrderedRun == Spec => ImplementsOrderedRun
<1>1. Init => Abstract!AInit
  BY InitRefines
<1>2. SchedulerInv /\ SchedulerInv' /\ [Next]_vars => [Abstract!ANext]_(Abstract!aVars)
  BY StepRefines
<1> QED
  BY <1>1, <1>2, SchedulerInvariant, PTL DEF Spec, ImplementsOrderedRun, Abstract!ASpec

-----------------------------------------------------------------------------
(* PROGRESS OF THE SCHEDULER                                                *)
(* The caller is in rx.recv() and closures of the band are alive. *)
Waiting == phase = "recv" /\ channel = <<>> /\ LiveSenders # {}

SomebodyMoves ==
    \/ \E w \in Workers : wpc[w] = "run"
    \/ injector # <<>> /\ \E w \in Workers : wpc[w] \in {"steal", "check"}

PoolDied ==
    /\ \A w \in Workers : wpc[w] = "dead"
    /\ \E u \in band : task[u] = "queued"

WaitsForSomebody == Waiting => SomebodyMoves \/ PoolDied

(* Somebody has a step to take while the caller waits: a closure is running, *)
(* or one is queued and a worker is there to take it; if neither, every      *)
(* worker was lost to a panic and the call is stuck with a closure queued.   *)
THEOREM SchedulerWaitsForSomebody == Spec => []WaitsForSomebody
<1>1. SchedulerInv => WaitsForSomebody
  <2> SUFFICES ASSUME SchedulerInv, Waiting, ~SomebodyMoves PROVE PoolDied
    BY DEF WaitsForSomebody
  <2> USE DEF SchedulerInv, PoolInv, PoolTypeOK, TypeOK
  <2>1. PICK u \in band : task[u] \in {"queued", "running"} /\ u \in Tasks
    BY DEF Waiting, LiveSenders
  <2>2. task[u] # "running"
    <3> SUFFICES ASSUME task[u] = "running" PROVE FALSE
      OBVIOUS
    <3>1. PICK w \in Workers : cur[w] = u BY <2>1 DEF TaskHeldOnce
    <3>2. wpc[w] = "run" BY <2>1, <3>1, NoTaskAssumption DEF TaskHeldOnce
    <3> QED BY <3>2 DEF SomebodyMoves
  <2>3. PICK i \in 1 .. Len(injector) : injector[i] = u
    BY <2>1, <2>2 DEF TaskHeldOnce
  <2>4. injector # <<>> BY <2>3
  <2>5. running BY DEF BandState, Waiting
  <2>6. \A w \in Workers : wpc[w] = "dead"
    <3> TAKE w \in Workers
    <3>1. wpc[w] \notin {"run", "steal", "check"} BY <2>4 DEF SomebodyMoves
    <3>2. wpc[w] # "exited" BY <2>5 DEF OpenPoolKeepsWorkers
    <3> QED BY <3>1, <3>2 DEF WorkerState
  <2> QED BY <2>1, <2>2, <2>6 DEF PoolDied
<1> QED BY <1>1, SchedulerInvariant, PTL

-----------------------------------------------------------------------------
(* How many steps the call and its closures have left at most, those aside   *)
(* in which a worker finds the injector empty and looks at the flag.  A unit *)
(* not placed costs its submission, its steal, its result, its receipt and   *)
(* the end of its closure, and a band three steps of the caller.             *)
Unplaced == Tasks \ placed

InState(x) == {u \in Tasks : task[u] = x}

Unsent == Tasks \ sent

CallerStepsLeft ==
    IF phase = "submit" THEN 3
    ELSE IF phase = "recv" THEN 2
    ELSE IF phase = "next" THEN 1 ELSE 0

StepsLeft ==
    6 * Cardinality(Unplaced) + 3 * Cardinality(toSubmit)
      + 2 * Cardinality(InState("queued")) + Cardinality(InState("running"))
      + 2 * Cardinality(Unsent) + Len(channel) + CallerStepsLeft

Polls(w) == StealEmpty(w) \/ CheckRunning(w)

(* The sets that are counted are finite. *)
LEMMA CountsAreNat ==
    ASSUME SchedulerInv
    PROVE  /\ \A x : IsFiniteSet(InState(x)) /\ Cardinality(InState(x)) \in Nat
           /\ IsFiniteSet(Unplaced) /\ Cardinality(Unplaced) \in Nat
           /\ IsFiniteSet(toSubmit) /\ Cardinality(toSubmit) \in Nat
           /\ IsFiniteSet(Unsent) /\ Cardinality(Unsent) \in Nat
           /\ Len(channel) \in Nat
           /\ CallerStepsLeft \in Nat
           /\ StepsLeft \in Nat
<1>1. \A S \in SUBSET Tasks : IsFiniteSet(S) /\ Cardinality(S) \in Nat
  <2> TAKE S \in SUBSET Tasks
  <2>1. IsFiniteSet(S) BY FS_Subset, TasksAssumption
  <2> QED BY <2>1, FS_CardinalityType
<1>2. \A x : InState(x) \in SUBSET Tasks BY DEF InState
<1>3. Unplaced \in SUBSET Tasks /\ Unsent \in SUBSET Tasks BY DEF Unplaced, Unsent
<1>4. toSubmit \in SUBSET Tasks /\ Len(channel) \in Nat BY DEF SchedulerInv, TypeOK
<1>5. CallerStepsLeft \in Nat BY DEF SchedulerInv, TypeOK, Phase, CallerStepsLeft
<1> QED BY <1>1, <1>2, <1>3, <1>4, <1>5 DEF StepsLeft

(* A task that changes its state leaves one count and enters another. *)
LEMMA TaskMoves ==
    ASSUME SchedulerInv, NEW u \in Tasks, NEW y \in TaskState,
           task' = [task EXCEPT ![u] = y], NEW x, task[u] # y
    PROVE  Cardinality(InState(x)') = Cardinality(InState(x)) + (IF y = x THEN 1 ELSE 0)
                                        - (IF task[u] = x THEN 1 ELSE 0)
<1>1. IsFiniteSet(InState(x)) /\ Cardinality(InState(x)) \in Nat BY CountsAreNat
<1>2. task \in [Tasks -> TaskState] BY DEF SchedulerInv, TypeOK, PoolTypeOK
<1>3. CASE y = x
  <2>1. InState(x)' = InState(x) \union {u} /\ u \notin InState(x)
    BY <1>2, <1>3 DEF InState
  <2>2. Cardinality(InState(x)') = Cardinality(InState(x)) + 1
    BY <1>1, <2>1, FS_AddElement
  <2> QED BY <1>1, <1>3, <2>2
<1>4. CASE y # x /\ task[u] = x
  <2>1. InState(x)' = InState(x) \ {u} /\ u \in InState(x)
    BY <1>2, <1>4 DEF InState
  <2>2. Cardinality(InState(x)') = Cardinality(InState(x)) - 1
    BY <1>1, <2>1, FS_RemoveElement
  <2> QED BY <1>1, <1>4, <2>2
<1>5. CASE y # x /\ task[u] # x
  <2>1. InState(x)' = InState(x) BY <1>2, <1>5 DEF InState
  <2> QED BY <1>1, <1>5, <2>1
<1> QED BY <1>3, <1>4, <1>5

(* What the steps of the caller take away. *)
LEMMA CallerStepCounts ==
    ASSUME SchedulerInv, CallerStep
    PROVE  StepsLeft' < StepsLeft
<1> DEFINE N == Cardinality(Unplaced)
           T == Cardinality(toSubmit)
           Q == Cardinality(InState("queued"))
           R == Cardinality(InState("running"))
           U == Cardinality(Unsent)
           L == Len(channel)
           P == CallerStepsLeft
<1>1. N \in Nat /\ T \in Nat /\ Q \in Nat /\ R \in Nat /\ U \in Nat /\ L \in Nat /\ P \in Nat
  BY CountsAreNat
<1>2. StepsLeft = 6 * N + 3 * T + 2 * Q + R + 2 * U + L + P
  BY DEF StepsLeft
<1>3. StepsLeft' = 6 * N' + 3 * T' + 2 * Q' + R' + 2 * U' + L' + P'
  BY DEF StepsLeft
<1> SUFFICES 6 * N' + 3 * T' + 2 * Q' + R' + 2 * U' + L' + P'
               < 6 * N + 3 * T + 2 * Q + R + 2 * U + L + P
  BY <1>2, <1>3
<1>4. UNCHANGED poolVars => Q' = Q /\ R' = R
  BY DEF poolVars, InState
<1>5. UNCHANGED sent => U' = U BY DEF Unsent
<1>6. UNCHANGED placed => N' = N BY DEF Unplaced
<1>7. UNCHANGED toSubmit => T' = T OBVIOUS
<1>8. UNCHANGED channel => L' = L OBVIOUS
<1>9. CASE StartBand
  <2>1. /\ Frontier \in SUBSET Unplaced /\ Frontier # {} /\ toSubmit = {}
        /\ Unplaced' = Unplaced \ Frontier /\ toSubmit' = Frontier
    BY <1>9 DEF StartBand, Frontier, Unplaced, SchedulerInv, BandState
  <2>2. IsFiniteSet(Unplaced) BY CountsAreNat
  <2>3. IsFiniteSet(Frontier) /\ Cardinality(Frontier) \in Nat
    BY <2>1, <2>2, FS_Subset, FS_CardinalityType
  <2>4. T' = Cardinality(Frontier) BY <2>1
  <2>5. Cardinality(Frontier) # 0 BY <2>1, <2>3, FS_EmptySet
  <2>6. N' = N - Cardinality(Frontier)
    <3>1. Unplaced \intersect Frontier = Frontier BY <2>1
    <3>2. Cardinality(Unplaced \ Frontier)
            = Cardinality(Unplaced) - Cardinality(Unplaced \intersect Frontier)
      BY <2>2, FS_Difference
    <3> QED BY <2>1, <3>1, <3>2
  <2>7. T = 0 BY <2>1, FS_EmptySet
  <2>8. L' = 0 /\ P = 1 /\ P' = 3 BY <1>9 DEF StartBand, CallerStepsLeft
  <2>9. Q' = Q /\ R' = R /\ U' = U BY <1>4, <1>5, <1>9 DEF StartBand
  <2> HIDE DEF N, T, Q, R, U, L, P
  <2> QED BY <1>1, <2>3, <2>4, <2>5, <2>6, <2>7, <2>8, <2>9
<1>10. ASSUME NEW u \in Tasks, SubmitUnit(u)
       PROVE  6 * N' + 3 * T' + 2 * Q' + R' + 2 * U' + L' + P'
                < 6 * N + 3 * T + 2 * Q + R + 2 * U + L + P
  <2>1. /\ task' = [task EXCEPT ![u] = "queued"] /\ task[u] = "new"
        /\ toSubmit' = toSubmit \ {u} /\ u \in toSubmit
        /\ UNCHANGED <<phase, placed, channel, sent>>
    BY <1>10 DEF SubmitUnit, Submit
  <2>2. "queued" \in TaskState BY DEF TaskState
  <2>3. Q' = Q + 1 /\ R' = R
    <3>1. task[u] # "queued" BY <2>1
    <3>2. /\ Q' = Q + (IF "queued" = "queued" THEN 1 ELSE 0)
                     - (IF task[u] = "queued" THEN 1 ELSE 0)
          /\ R' = R + (IF "queued" = "running" THEN 1 ELSE 0)
                     - (IF task[u] = "running" THEN 1 ELSE 0)
      BY <2>1, <2>2, <3>1, TaskMoves
    <3> HIDE DEF Q, R
    <3> QED BY <1>1, <2>1, <3>2
  <2>4. T' = T - 1 BY <2>1, CountsAreNat, FS_RemoveElement
  <2>5. N' = N /\ U' = U /\ L' = L BY <1>5, <1>6, <1>8, <2>1
  <2>6. P' = P BY <2>1 DEF CallerStepsLeft
  <2> HIDE DEF N, T, Q, R, U, L, P
  <2> QED BY <1>1, <2>3, <2>4, <2>5, <2>6
<1>11. CASE DropSender \/ BandDone \/ RunUnitsReturns
  <2>1. Q' = Q /\ R' = R /\ U' = U /\ N' = N /\ T' = T /\ L' = L
    BY <1>4, <1>5, <1>6, <1>7, <1>8, <1>11 DEF DropSender, BandDone, RunUnitsReturns
  <2>2. \/ P = 3 /\ P' = 2
        \/ P = 2 /\ P' = 1
        \/ P = 1 /\ P' = 0
    <3>1. DropSender => P = 3 /\ P' = 2 BY DEF DropSender, CallerStepsLeft
    <3>2. BandDone => P = 2 /\ P' = 1 BY DEF BandDone, CallerStepsLeft
    <3>3. RunUnitsReturns => P = 1 /\ P' = 0 BY DEF RunUnitsReturns, CallerStepsLeft
    <3> QED BY <1>11, <3>1, <3>2, <3>3
  <2> HIDE DEF N, T, Q, R, U, L, P
  <2> QED BY <1>1, <2>1, <2>2
<1>12. CASE Receive
  <2>1. Q' = Q /\ R' = R /\ U' = U /\ N' = N /\ T' = T
    BY <1>4, <1>5, <1>6, <1>7, <1>12 DEF Receive
  <2>2. L' = L - 1 BY <1>12, QueueTail DEF Receive, SchedulerInv, TypeOK
  <2>3. P' = P BY <1>12 DEF Receive, CallerStepsLeft
  <2> HIDE DEF N, T, Q, R, U, L, P
  <2> QED BY <1>1, <2>1, <2>2, <2>3
<1> QED BY <1>9, <1>10, <1>11, <1>12 DEF CallerStep

(* What the steps of a worker take away, unless it polls. *)
LEMMA WorkerStepCounts ==
    ASSUME SchedulerInv, NEW w \in Workers, WorkerThread(w), ~Polls(w)
    PROVE  StepsLeft' < StepsLeft
<1> DEFINE N == Cardinality(Unplaced)
           T == Cardinality(toSubmit)
           Q == Cardinality(InState("queued"))
           R == Cardinality(InState("running"))
           U == Cardinality(Unsent)
           L == Len(channel)
           P == CallerStepsLeft
<1>1. N \in Nat /\ T \in Nat /\ Q \in Nat /\ R \in Nat /\ U \in Nat /\ L \in Nat /\ P \in Nat
  BY CountsAreNat
<1>2. StepsLeft = 6 * N + 3 * T + 2 * Q + R + 2 * U + L + P
  BY DEF StepsLeft
<1>3. StepsLeft' = 6 * N' + 3 * T' + 2 * Q' + R' + 2 * U' + L' + P'
  BY DEF StepsLeft
<1> SUFFICES 6 * N' + 3 * T' + 2 * Q' + R' + 2 * U' + L' + P'
               < 6 * N + 3 * T + 2 * Q + R + 2 * U + L + P
  BY <1>2, <1>3
<1>4. UNCHANGED callVars => N' = N /\ T' = T /\ U' = U /\ L' = L /\ P' = P
  BY DEF callVars, Unplaced, Unsent, CallerStepsLeft
<1>5. CASE PoolStep(w)
  <2>1. StealSuccess(w) /\ UNCHANGED callVars BY <1>5 DEF PoolStep, Polls
  <2>2. /\ Head(injector) \in Tasks /\ task[Head(injector)] = "queued"
        /\ task' = [task EXCEPT ![Head(injector)] = "running"]
    BY <2>1, QueueTail DEF StealSuccess, SchedulerInv, PoolInv, PoolTypeOK, TaskHeldOnce
  <2>3. "running" \in TaskState BY DEF TaskState
  <2>4. Q' = Q - 1 /\ R' = R + 1
    <3>1. task[Head(injector)] # "running" BY <2>2
    <3>2. /\ Q' = Q + (IF "running" = "queued" THEN 1 ELSE 0)
                     - (IF task[Head(injector)] = "queued" THEN 1 ELSE 0)
          /\ R' = R + (IF "running" = "running" THEN 1 ELSE 0)
                     - (IF task[Head(injector)] = "running" THEN 1 ELSE 0)
      BY <2>2, <2>3, <3>1, TaskMoves
    <3> HIDE DEF Q, R
    <3> QED BY <1>1, <2>2, <3>2
  <2>5. N' = N /\ T' = T /\ U' = U /\ L' = L /\ P' = P BY <1>4, <2>1
  <2> HIDE DEF N, T, Q, R, U, L, P
  <2> QED BY <1>1, <2>4, <2>5
<1>6. CASE SendResult(w)
  <2>1. cur[w] \in Tasks /\ cur[w] \notin sent
    BY <1>6 DEF SendResult, SchedulerInv, PoolInv, TaskHeldOnce
  <2>2. Unsent' = Unsent \ {cur[w]} /\ cur[w] \in Unsent
    BY <1>6, <2>1 DEF SendResult, Unsent
  <2>3. U' = U - 1 BY <2>2, CountsAreNat, FS_RemoveElement
  <2>4. L' = L + 1 BY <1>6, <2>1, QueueAppend DEF SendResult, SchedulerInv, TypeOK
  <2>5. Q' = Q /\ R' = R /\ N' = N /\ T' = T /\ P' = P
    BY <1>6 DEF SendResult, poolVars, InState, Unplaced, CallerStepsLeft
  <2> HIDE DEF N, T, Q, R, U, L, P
  <2> QED BY <1>1, <2>3, <2>4, <2>5
<1>7. CASE ClosureReturns(w) \/ ClosurePanics(w)
  <2>1. cur[w] \in Tasks /\ task[cur[w]] = "running" /\ UNCHANGED callVars
    BY <1>7 DEF ClosureReturns, ClosurePanics, RunReturn, RunPanic, SchedulerInv,
                PoolInv, TaskHeldOnce
  <2>2. PICK y \in {"done", "panicked"} : task' = [task EXCEPT ![cur[w]] = y]
    BY <1>7 DEF ClosureReturns, ClosurePanics, RunReturn, RunPanic
  <2>3. y \in TaskState /\ y # "running" /\ y # "queued" BY DEF TaskState
  <2>4. Q' = Q /\ R' = R - 1
    <3>1. task[cur[w]] # y BY <2>1, <2>3
    <3>2. /\ Q' = Q + (IF y = "queued" THEN 1 ELSE 0)
                     - (IF task[cur[w]] = "queued" THEN 1 ELSE 0)
          /\ R' = R + (IF y = "running" THEN 1 ELSE 0)
                     - (IF task[cur[w]] = "running" THEN 1 ELSE 0)
      BY <2>1, <2>2, <2>3, <3>1, TaskMoves
    <3> HIDE DEF Q, R
    <3> QED BY <1>1, <2>1, <2>3, <3>2
  <2>5. N' = N /\ T' = T /\ U' = U /\ L' = L /\ P' = P BY <1>4, <2>1
  <2> HIDE DEF N, T, Q, R, U, L, P
  <2> QED BY <1>1, <2>4, <2>5
<1> QED BY <1>5, <1>6, <1>7 DEF WorkerThread

(* What every step does to that number. *)
RunComesToAnEnd ==
    [][\/ StepsLeft' < StepsLeft
       \/ phase = "returned"
       \/ \E w \in Workers : Polls(w) /\ StepsLeft' = StepsLeft]_vars

(* Every step before the return brings the call nearer to it, but for workers *)
(* that poll: `run_units` and its closures take at most eight steps for each  *)
(* unit and one more.                                                         *)
THEOREM SchedulerRunsInBoundedSteps ==
    Spec => /\ StepsLeft = 8 * Cardinality(Tasks) + 1
            /\ [](StepsLeft \in Nat)
            /\ RunComesToAnEnd
<1> DEFINE A == \/ StepsLeft' < StepsLeft
                \/ phase = "returned"
                \/ \E w \in Workers : Polls(w) /\ StepsLeft' = StepsLeft
<1>1. Init => StepsLeft = 8 * Cardinality(Tasks) + 1
  <2> SUFFICES ASSUME Init PROVE StepsLeft = 8 * Cardinality(Tasks) + 1
    OBVIOUS
  <2>1. /\ Unplaced = Tasks /\ Unsent = Tasks /\ toSubmit = {} /\ channel = <<>>
        /\ InState("queued") = {} /\ InState("running") = {} /\ CallerStepsLeft = 1
    BY DEF Init, PoolInit, Unplaced, Unsent, InState, CallerStepsLeft
  <2>2. Cardinality(Tasks) \in Nat BY TasksAssumption, FS_CardinalityType
  <2>3. Cardinality({}) = 0 BY FS_EmptySet
  <2>4. StepsLeft = 6 * Cardinality(Tasks) + 3 * 0 + 2 * 0 + 0
                      + 2 * Cardinality(Tasks) + 0 + 1
    BY <2>1, <2>3 DEF StepsLeft
  <2> QED BY <2>2, <2>4
<1>2. SchedulerInv /\ [Next]_vars => [A]_vars
  <2> SUFFICES ASSUME SchedulerInv, Next PROVE A \/ UNCHANGED vars
    OBVIOUS
  <2>1. CASE CallerStep BY <2>1, CallerStepCounts
  <2>2. CASE \E w \in Workers : WorkerThread(w)
    <3>1. PICK w \in Workers : WorkerThread(w) BY <2>2
    <3>2. CASE Polls(w)
      <4>1. UNCHANGED <<callVars, task>>
        BY <3>1, <3>2 DEF Polls, StealEmpty, CheckRunning, WorkerThread, PoolStep,
             SendResult, ClosureReturns, ClosurePanics, RunReturn, RunPanic
      <4>2. StepsLeft' = StepsLeft
        BY <4>1 DEF callVars, StepsLeft, Unplaced, Unsent, InState, CallerStepsLeft
      <4> QED BY <3>2, <4>2
    <3>3. CASE ~Polls(w) BY <3>1, <3>3, WorkerStepCounts
    <3> QED BY <3>2, <3>3
  <2>3. CASE DropScheduler \/ SchedulerGone
    BY <2>3 DEF DropScheduler, SchedulerGone
  <2> QED BY <2>1, <2>2, <2>3 DEF Next
<1>3. SchedulerInv => StepsLeft \in Nat BY CountsAreNat
<1> QED BY <1>1, <1>2, <1>3, SchedulerInvariant, PTL DEF Spec, RunComesToAnEnd
=============================================================================
