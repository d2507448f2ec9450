------------------------- MODULE WavefrontScheduler -------------------------
(***************************************************************************)
(* `WavefrontScheduler::run_units` of scheduler/wavefront.rs on top of the *)
(* pool: the calling thread submits one band of units, each as a closure   *)
(* that holds a clone of the band's channel sender, drops its own sender,  *)
(* and receives until the channel is disconnected, that is until the last  *)
(* closure of the band is gone.  Then it goes on with the next band.       *)
(*                                                                         *)
(* A task of the pool is the closure of a unit and has the unit's name.  A *)
(* band is taken as a set: KahnBands models how `bands` computes it, and   *)
(* shows that the next band is the Frontier defined here.                  *)
(***************************************************************************)
EXTENDS WorkStealingPool

CONSTANT DepGraphs    \* the dependency graphs run_units is called with

ASSUME DepGraphsAssumption == DepGraphs \subseteq [Tasks -> SUBSET Tasks]

VARIABLES
    deps,       \* CompilationUnit.dependencies, as sets
    phase,      \* where the caller is in run_units
    placed,     \* the units of the bands begun so far
    band,       \* the band being run
    toSubmit,   \* its units whose closure is still to be submitted
    channel,    \* the messages in the band's channel, oldest first
    sent,       \* the units whose closure has sent its result
    results     \* the units with an entry in the results map

callVars == <<deps, phase, placed, band, toSubmit, channel, sent, results>>
vars == <<poolVars, callVars>>

Phase == {"next", "submit", "recv", "returned"}

Init ==
    /\ PoolInit
    /\ deps \in DepGraphs
    /\ phase = "next"
    /\ placed = {}
    /\ band = {}
    /\ toSubmit = {}
    /\ channel = <<>>
    /\ sent = {}
    /\ results = {}

-----------------------------------------------------------------------------
(* A frontier that lets a unit join the band one of its dependencies is in. *)
EagerFrontier ==
    {u \in Tasks \ placed :
        \A d \in deps[u] : d \in placed \/ deps[d] \subseteq placed}

(* The units whose dependencies are all in earlier bands. *)
Frontier == {u \in Tasks \ placed : deps[u] \subseteq placed}

(* The top of the loop over the bands, with a new channel. *)
StartBand ==
    /\ phase = "next"
    /\ Frontier # {}
    /\ band' = Frontier
    /\ toSubmit' = Frontier
    /\ placed' = placed \union Frontier
    /\ channel' = <<>>
    /\ phase' = "submit"
    /\ UNCHANGED <<poolVars, deps, sent, results>>

(* The inner loop: one closure is built and submitted. *)
SubmitUnit(u) ==
    /\ phase = "submit"
    /\ u \in toSubmit
    /\ Submit(u)
    /\ toSubmit' = toSubmit \ {u}
    /\ UNCHANGED <<deps, phase, placed, band, channel, sent, results>>

(* drop(tx): from here on only the closures hold senders. *)
DropSender ==
    /\ phase = "submit"
    /\ toSubmit = {}
    /\ phase' = "recv"
    /\ UNCHANGED <<poolVars, deps, placed, band, toSubmit, channel, sent, results>>

(* A worker gets hold of a closure or goes round its loop. *)
PoolStep(w) ==
    /\ StealSuccess(w) \/ StealEmpty(w) \/ CheckRunning(w)
    /\ UNCHANGED callVars

(* The closure: work(&unit) has returned, its result is sent. *)
SendResult(w) ==
    /\ wpc[w] = "run"
    /\ cur[w] \notin sent
    /\ channel' = Append(channel, cur[w])
    /\ sent' = sent \union {cur[w]}
    /\ UNCHANGED <<poolVars, deps, phase, placed, band, toSubmit, results>>

(* A closure whose sender is dropped before the result is sent through it. *)
ReturnUnsent(w) ==
    /\ RunReturn(w)
    /\ UNCHANGED callVars

(* The closure returns and drops its sender. *)
ClosureReturns(w) ==
    /\ RunReturn(w)
    /\ cur[w] \in sent
    /\ UNCHANGED callVars

(* work(&unit) panics: nothing is sent, unwinding drops the sender. *)
ClosurePanics(w) ==
    /\ RunPanic(w)
    /\ cur[w] \notin sent
    /\ UNCHANGED callVars

(* A receive that takes a message and forgets to store it. *)
ReceiveAndForget ==
    /\ phase = "recv"
    /\ channel # <<>>
    /\ channel' = Tail(channel)
    /\ UNCHANGED <<poolVars, deps, phase, placed, band, toSubmit, sent, results>>

(* rx.recv() with a message in the channel. *)
Receive ==
    /\ phase = "recv"
    /\ channel # <<>>
    /\ results' = results \union {Head(channel)}
    /\ channel' = Tail(channel)
    /\ UNCHANGED <<poolVars, deps, phase, placed, band, toSubmit, sent>>

(* A caller that keeps its own sender: the channel is never disconnected. *)
SendersWithCaller == band

(* The units of the band whose closure, and sender, is still alive. *)
LiveSenders == {u \in band : task[u] \in {"queued", "running"}}

(* A caller that stops at the disconnect even with messages left to read. *)
StopAtDisconnect ==
    /\ phase = "recv"
    /\ LiveSenders = {}
    /\ phase' = "next"
    /\ UNCHANGED <<poolVars, deps, placed, band, toSubmit, channel, sent, results>>

(* rx.recv() fails: the channel is empty and has no sender any more. *)
BandDone ==
    /\ phase = "recv"
    /\ channel = <<>>
    /\ LiveSenders = {}
    /\ phase' = "next"
    /\ UNCHANGED <<poolVars, deps, placed, band, toSubmit, channel, sent, results>>

(* No band is left: the results are returned in the order of the units. *)
RunUnitsReturns ==
    /\ phase = "next"
    /\ Frontier = {}
    /\ phase' = "returned"
    /\ UNCHANGED <<poolVars, deps, placed, band, toSubmit, channel, sent, results>>

(* The scheduler is dropped after the call, and its pool with it. *)
DropScheduler ==
    /\ phase = "returned"
    /\ DropSignal \/ DropJoined
    /\ UNCHANGED callVars

SchedulerGone == phase = "returned" /\ owner = "dropped" /\ UNCHANGED vars

CallerStep ==
    \/ StartBand
    \/ \E u \in Tasks : SubmitUnit(u)
    \/ DropSender
    \/ Receive
    \/ BandDone
    \/ RunUnitsReturns

WorkerThread(w) ==
    PoolStep(w) \/ SendResult(w) \/ ClosureReturns(w) \/ ClosurePanics(w)

Next ==
    \/ CallerStep
    \/ \E w \in Workers : WorkerThread(w)
    \/ DropScheduler
    \/ SchedulerGone

(* The calling thread and the workers are scheduled, and the work ends. *)
Fairness ==
    /\ WF_vars(CallerStep)
    /\ \A w \in Workers : WF_vars(WorkerThread(w))

Spec == Init /\ [][Next]_vars /\ Fairness

-----------------------------------------------------------------------------
(* The values the variables take. *)
TypeOK ==
    /\ PoolTypeOK
    /\ deps \in DepGraphs
    /\ phase \in Phase
    /\ placed \subseteq Tasks
    /\ band \subseteq placed
    /\ toSubmit \subseteq band
    /\ channel \in Seq(Tasks)
    /\ sent \subseteq Tasks
    /\ results \subseteq Tasks

(* "Each band finishes before the next band starts, preserving dependency  *)
(* order" (wavefront.rs:4): once a unit of a band is handed to the pool,   *)
(* every unit of the earlier bands, its dependencies among them, has ended *)
(* on whatever thread it ran.                                              *)
BandBarrier ==
    \A u \in Tasks : task[u] # "new" =>
        /\ \A d \in deps[u] : task[d] \in Finished
        /\ u \in band => \A v \in placed \ band : task[v] \in Finished

(* A message in the channel is of the current band, unread and there once: *)
(* no result of an earlier band is taken for one of this band, and a       *)
(* result that was sent is in the channel or in the map, never lost.       *)
ChannelOfBand ==
    /\ \A i \in 1 .. Len(channel) : channel[i] \in (band \intersect sent) \ results
    /\ \A i, j \in 1 .. Len(channel) : channel[i] = channel[j] => i = j
    /\ \A u \in sent :
          u \in results \/ \E i \in 1 .. Len(channel) : channel[i] = u

(* What the caller gets: a result for each unit whose work returned and for *)
(* no other; a unit without one panicked, or was never placed because it    *)
(* waits for another unplaced unit (a dependency cycle).                    *)
ReturnAccountsForUnits ==
    phase = "returned" =>
        /\ results = {u \in Tasks : task[u] = "done"}
        /\ \A u \in placed : task[u] \in Finished
        /\ \A u \in Tasks \ placed :
              task[u] = "new" /\ \E d \in deps[u] : d \notin placed

(* run_units returns, whatever the graph, unless its pool has died under    *)
(* it: then every worker was lost to a panic and the call waits for ever    *)
(* for a closure that nobody will run.  A pool that dies with the last unit *)
(* of a run does no harm.                                                   *)
RunReturnsUnlessPoolDies ==
    \/ <>(phase = "returned")
    \/ <>[](/\ phase = "recv"
            /\ \A w \in Workers : wpc[w] = "dead"
            /\ \E u \in band : task[u] = "queued")

(* How an abstract run sees this state. *)
AbstractUnit ==
    [u \in Tasks |->
        CASE task[u] \in {"new", "queued"} -> "waiting"
          [] task[u] = "running"  -> "active"
          [] task[u] = "done"     -> "succeeded"
          [] OTHER                -> "panicked"]

AbstractAnswer ==
    IF phase = "returned"
    THEN [returned |-> TRUE, results |-> results]
    ELSE [returned |-> FALSE, results |-> {}]

Abstract == INSTANCE DependencyOrderedRun
    WITH Units <- Tasks, unit <- AbstractUnit, answer <- AbstractAnswer

(* Every step of the threads is a step of a run that only begins units      *)
(* whose dependencies have ended, runs each once, and returns exactly the   *)
(* results of those that did not panic, when nothing can be begun any more. *)
ImplementsOrderedRun == Abstract!ASpec
=============================================================================
