-------------------------- MODULE WorkStealingPool --------------------------
(***************************************************************************)
(* The thread pool of scheduler/work_stealing.rs.  One owner submits tasks *)
(* to a central FIFO `injector`; every worker thread runs `worker_loop`:   *)
(* steal a task and call it, and when the injector was empty look at the   *)
(* `running` flag and leave the loop if it is false.  The steal and the    *)
(* look at the flag are two steps, and so are here.                        *)
(*                                                                         *)
(* A task that panics is not caught by the loop: it takes its worker down. *)
(* `submit` takes &self and `shutdown` and `drop` take the pool            *)
(* exclusively, so the owner never submits while it is closing the pool.   *)
(*                                                                         *)
(* Steal::Retry only yields and retries: a stuttering step.  A stale load  *)
(* of `running`, which is Relaxed, is one made before the store: the owner *)
(* does nothing between the store and the joins that could tell.           *)
(***************************************************************************)
EXTENDS Naturals, Sequences, FiniteSets

CONSTANTS
    Workers,    \* the threads spawned by `new`
    Tasks,      \* the closures given to `submit`, each FnOnce
    MayPanic,   \* the tasks whose body may panic
    NoTask      \* the value of cur[w] when worker w runs no task

ASSUME WorkersAssumption == IsFiniteSet(Workers) /\ Workers # {}
ASSUME TasksAssumption   == IsFiniteSet(Tasks) /\ MayPanic \subseteq Tasks
ASSUME NoTaskAssumption  == NoTask \notin Tasks

VARIABLES
    injector,   \* the shared queue, oldest task first
    running,    \* the AtomicBool
    task,       \* what happened to each task so far
    wpc,        \* where each worker is in worker_loop
    cur,        \* the task each worker is running
    owner       \* the owner of the pool: using it, closing it, done with it

poolVars == <<injector, running, task, wpc, cur, owner>>

TaskState   == {"new", "queued", "running", "done", "panicked", "dropped"}
WorkerState == {"steal", "run", "check", "exited", "dead"}
OwnerState  == {"open", "joining", "shut", "dropping", "dropped"}

Finished   == {"done", "panicked"}
Terminated == {"exited", "dead"}

-----------------------------------------------------------------------------
(* `new`: an empty injector and every worker about to steal. *)
PoolInit ==
    /\ injector = <<>>
    /\ running = TRUE
    /\ task = [t \in Tasks |-> "new"]
    /\ wpc = [w \in Workers |-> "steal"]
    /\ cur = [w \in Workers |-> NoTask]
    /\ owner = "open"

(* `submit` by the owner of an open pool, or after `shutdown` returned: the *)
(* push does not look at `running`.                                         *)
Submit(t) ==
    /\ owner \in {"open", "shut"}
    /\ task[t] = "new"
    /\ injector' = Append(injector, t)
    /\ task' = [task EXCEPT ![t] = "queued"]
    /\ UNCHANGED <<running, wpc, cur, owner>>

-----------------------------------------------------------------------------
(* A steal that forgets to take the task out of the queue. *)
StealWithoutPop(w) ==
    /\ wpc[w] = "steal"
    /\ injector # <<>>
    /\ task' = [task EXCEPT ![Head(injector)] = "running"]
    /\ cur' = [cur EXCEPT ![w] = Head(injector)]
    /\ wpc' = [wpc EXCEPT ![w] = "run"]
    /\ UNCHANGED <<injector, running, owner>>

(* Steal::Success(task): the worker owns the oldest task and calls it. *)
StealSuccess(w) ==
    /\ wpc[w] = "steal"
    /\ injector # <<>>
    /\ injector' = Tail(injector)
    /\ task' = [task EXCEPT ![Head(injector)] = "running"]
    /\ cur' = [cur EXCEPT ![w] = Head(injector)]
    /\ wpc' = [wpc EXCEPT ![w] = "run"]
    /\ UNCHANGED <<running, owner>>

(* Steal::Empty: the answer the worker will act on in its next step. *)
StealEmpty(w) ==
    /\ wpc[w] = "steal"
    /\ injector = <<>>
    /\ wpc' = [wpc EXCEPT ![w] = "check"]
    /\ UNCHANGED <<injector, running, task, cur, owner>>

(* A loop that leaves as soon as it found the injector empty. *)
LeaveWhenEmpty(w) ==
    /\ wpc[w] = "check"
    /\ wpc' = [wpc EXCEPT ![w] = "exited"]
    /\ UNCHANGED <<injector, running, task, cur, owner>>

(* A loop that never looks at the flag. *)
NeverLeave(w) ==
    /\ wpc[w] = "check"
    /\ wpc' = [wpc EXCEPT ![w] = "steal"]
    /\ UNCHANGED <<injector, running, task, cur, owner>>

(* The load of `running` after an empty steal: break, or yield and go on. *)
CheckRunning(w) ==
    /\ wpc[w] = "check"
    /\ wpc' = [wpc EXCEPT ![w] = IF running THEN "steal" ELSE "exited"]
    /\ UNCHANGED <<injector, running, task, cur, owner>>

(* A loop that looks at the flag between two tasks too. *)
ReturnAndCheck(w) ==
    /\ wpc[w] = "run"
    /\ task' = [task EXCEPT ![cur[w]] = "done"]
    /\ cur' = [cur EXCEPT ![w] = NoTask]
    /\ wpc' = [wpc EXCEPT ![w] = "check"]
    /\ UNCHANGED <<injector, running, owner>>

(* The task returns; the worker goes back to the injector. *)
RunReturn(w) ==
    /\ wpc[w] = "run"
    /\ task' = [task EXCEPT ![cur[w]] = "done"]
    /\ cur' = [cur EXCEPT ![w] = NoTask]
    /\ wpc' = [wpc EXCEPT ![w] = "steal"]
    /\ UNCHANGED <<injector, running, owner>>

(* The task panics: it unwinds through worker_loop and ends the thread. *)
RunPanic(w) ==
    /\ wpc[w] = "run"
    /\ cur[w] \in MayPanic
    /\ task' = [task EXCEPT ![cur[w]] = "panicked"]
    /\ cur' = [cur EXCEPT ![w] = NoTask]
    /\ wpc' = [wpc EXCEPT ![w] = "dead"]
    /\ UNCHANGED <<injector, running, owner>>

WorkerStep(w) ==
    \/ StealSuccess(w)
    \/ StealEmpty(w)
    \/ CheckRunning(w)
    \/ RunReturn(w)
    \/ RunPanic(w)

-----------------------------------------------------------------------------
AllTerminated == \A w \in Workers : wpc[w] \in Terminated

(* A shutdown, and a drop, that join the workers without telling them. *)
ShutdownUnsignalled ==
    /\ owner = "open"
    /\ owner' = "joining"
    /\ UNCHANGED <<injector, running, task, wpc, cur>>

DropUnsignalled ==
    /\ owner \in {"open", "shut"}
    /\ owner' = "dropping"
    /\ UNCHANGED <<injector, running, task, wpc, cur>>

(* `shutdown` on an open pool: the store; it then joins every handle. *)
ShutdownSignal ==
    /\ owner = "open"
    /\ running' = FALSE
    /\ owner' = "joining"
    /\ UNCHANGED <<injector, task, wpc, cur>>

(* A shutdown that gives up on the handles instead of joining them. *)
ShutdownWithoutJoin ==
    /\ owner = "joining"
    /\ owner' = "shut"
    /\ UNCHANGED <<injector, running, task, wpc, cur>>

(* `shutdown` returns once all handles are joined; a join error (a worker *)
(* that panicked) is ignored.                                             *)
ShutdownJoined ==
    /\ owner = "joining"
    /\ AllTerminated
    /\ owner' = "shut"
    /\ UNCHANGED <<injector, running, task, wpc, cur>>

(* Drop for WorkStealingPool, on an open pool or after `shutdown`, whose   *)
(* handles are drained already: the same store and the same joins.         *)
DropSignal ==
    /\ owner \in {"open", "shut"}
    /\ running' = FALSE
    /\ owner' = "dropping"
    /\ UNCHANGED <<injector, task, wpc, cur>>

(* The last Arc of the injector goes with the pool, and with it every task *)
(* still queued, unrun.                                                    *)
DropJoined ==
    /\ owner = "dropping"
    /\ AllTerminated
    /\ owner' = "dropped"
    /\ injector' = <<>>
    /\ task' = [t \in Tasks |-> IF task[t] = "queued" THEN "dropped" ELSE task[t]]
    /\ UNCHANGED <<running, wpc, cur>>

OwnerClosing == ShutdownJoined \/ DropJoined

PoolTerminated == owner = "dropped" /\ UNCHANGED poolVars

PoolNext ==
    \/ \E t \in Tasks : Submit(t)
    \/ \E w \in Workers : WorkerStep(w)
    \/ ShutdownSignal
    \/ ShutdownJoined
    \/ DropSignal
    \/ DropJoined
    \/ PoolTerminated

(* The operating system runs every thread that can run, and a task body    *)
(* ends (it returns or panics).  Nothing obliges the owner to submit or to *)
(* close the pool, but once it joins it returns when the threads are gone. *)
PoolFairness ==
    /\ \A w \in Workers : WF_poolVars(WorkerStep(w))
    /\ WF_poolVars(OwnerClosing)

PoolSpec == PoolInit /\ [][PoolNext]_poolVars /\ PoolFairness

-----------------------------------------------------------------------------
(* The values the variables take; the flag is up only in an open pool, so  *)
(* that nobody joins workers that were not told to leave.                  *)
PoolTypeOK ==
    /\ injector \in Seq(Tasks)
    /\ running \in BOOLEAN
    /\ task \in [Tasks -> TaskState]
    /\ wpc \in [Workers -> WorkerState]
    /\ cur \in [Workers -> Tasks \union {NoTask}]
    /\ owner \in OwnerState
    /\ running <=> owner = "open"

(* Every queued task is in the injector once, and every running task is run *)
(* by exactly one worker: a FnOnce submitted once is called at most once,   *)
(* whoever steals it, and none is lost between the queue and a worker.      *)
TaskHeldOnce ==
    /\ \A i \in 1 .. Len(injector) : task[injector[i]] = "queued"
    /\ \A i, j \in 1 .. Len(injector) : injector[i] = injector[j] => i = j
    /\ \A t \in Tasks :
          task[t] = "queued" => \E i \in 1 .. Len(injector) : injector[i] = t
    /\ \A w \in Workers :
          IF wpc[w] = "run"
          THEN cur[w] \in Tasks /\ task[cur[w]] = "running"
          ELSE cur[w] = NoTask
    /\ \A v, w \in Workers : cur[v] = cur[w] /\ cur[v] # NoTask => v = w
    /\ \A t \in Tasks : task[t] = "running" => \E w \in Workers : cur[w] = t

(* No worker leaves its loop while the pool is open: the pool shrinks only *)
(* through panics, one worker for each panicked task.                      *)
OpenPoolKeepsWorkers ==
    /\ \A w \in Workers : wpc[w] = "exited" => ~running
    /\ running => Cardinality({w \in Workers : wpc[w] \in Terminated})
                  = Cardinality({t \in Tasks : task[t] = "panicked"})

(* When `shutdown` or `drop` has returned nothing is running any more, so   *)
(* what a task captured may be used again, and a task submitted late can    *)
(* never start: only the drop of the pool disposes of it.                   *)
JoinedPoolIsIdle ==
    /\ owner \in {"shut", "dropped"} => AllTerminated
    /\ owner \in {"shut", "dropped"} => \A t \in Tasks : task[t] # "running"
    /\ \A t \in Tasks : task[t] = "dropped" => owner = "dropped"

(* A task submitted to an open pool is run unless the owner closes the      *)
(* pool, as long as there are fewer panicking tasks than workers.           *)
OpenPoolDrains ==
    Cardinality(MayPanic) < Cardinality(Workers) =>
        \A t \in Tasks :
            task[t] = "queued" ~> task[t] \in Finished \/ owner # "open"

(* `shutdown` and `drop` return, however many workers panicked. *)
ClosingReturns ==
    /\ owner = "joining" ~> owner = "shut"
    /\ owner = "dropping" ~> owner = "dropped"

AwakeWorkers == {w \in Workers : wpc[w] \in {"steal", "run"}}
PanicsAhead  == {t \in MayPanic : task[t] \in {"queued", "running"}}

(* What `shutdown` does promise about "after the queue is drained": if, once *)
(* the flag is down, more workers are still to steal or to come back from a  *)
(* task than there are panics ahead, the queue is drained before it returns. *)
(* Only a worker that found the injector empty before may leave tasks there. *)
AwakeWorkerDrainsQueue ==
    (owner = "joining" /\ Cardinality(AwakeWorkers) > Cardinality(PanicsAhead))
        ~> (owner = "joining" /\ injector = <<>>)

(* The doc of `shutdown` (work_stealing.rs:87): "Signal workers to finish   *)
(* after the queue is drained and wait for them."  When it returns, the     *)
(* queue is empty.                                                          *)
ShutdownReturnsDrained ==
    [][owner = "joining" /\ owner' = "shut" => injector = <<>>]_poolVars
=============================================================================
