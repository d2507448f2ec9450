--------------------------- MODULE SignalSupervisor ---------------------------
(***************************************************************************)
(* `SignalSupervisor` of diagnostics/ffi_normalizer.rs.  Making one sets   *)
(* the handlers of the process signal by signal and remembers what they    *)
(* were; dropping it puts those back.  The stack that handlers run on is   *)
(* an attribute of the thread, its memory is the supervisor's.  A handler  *)
(* interrupts whatever its thread is doing, another handler included,      *)
(* unless that is one of the same signal.  The stored crash is behind a    *)
(* lock that last_crash and clear wait for and handlers do not.            *)
(***************************************************************************)
EXTENDS Integers, Sequences, FiniteSets

CONSTANTS
    Threads,
    SignalCount,    \* the signals are 1 .. SignalCount, in the order of install
    MaxMade,        \* bound: supervisors, numbered in the order they are made
    MaxRaised,      \* bound: signals sent in one run
    None

ASSUME CountAssumption == SignalCount \in Nat \ {0} /\ {MaxMade, MaxRaised} \subseteq Nat
ASSUME NoneAssumption == None \notin Threads \union Nat

Signals == 1 .. SignalCount
Supervisors == 1 .. MaxMade

VARIABLES
    action,     \* the disposition of each signal
    altStack,   \* [thread -> the supervisor whose memory its signal stack is]
    shouldExit, \* SHOULD_EXIT
    crash,      \* the content of CRASH
    holder,     \* who has its lock: a thread and the depth of its handlers
    oldActions, \* [supervisor -> the dispositions it found]
    stage,      \* [supervisor -> "unmade", "making", "live", "dropping", "gone"]
    maker,      \* [supervisor -> the thread that made it]
    abroad,     \* the supervisors dropped by another thread than that
    doing,      \* [thread -> what it does outside of handlers, and how far it is]
    handlers,   \* [thread -> its running handlers, the innermost last]
    raised,     \* the number of signals sent
    ended,      \* the process has exited
    orderly     \* supervisors were used one inside the other so far

worldVars == <<raised, ended, orderly>>
supervisorVars == <<action, altStack, shouldExit, oldActions, stage, maker, abroad>>
lockVars == <<crash, holder>>
vars == <<supervisorVars, lockVars, doing, handlers, worldVars>>

Idle == [op |-> "idle", of |-> None, at |-> 1]

Init ==
    /\ action = [sig \in Signals |-> "default"]
    /\ altStack = [t \in Threads |-> None]
    /\ shouldExit = TRUE
    /\ crash = None /\ holder = None
    /\ oldActions = [s \in Supervisors |-> <<>>]
    /\ stage = [s \in Supervisors |-> "unmade"]
    /\ maker = [s \in Supervisors |-> None]
    /\ abroad = {}
    /\ doing = [t \in Threads |-> Idle]
    /\ handlers = [t \in Threads |-> <<>>]
    /\ raised = 0 /\ ended = FALSE /\ orderly = TRUE

(* The thread runs its own code, no handler. *)
Runs(t, op) == ~ended /\ handlers[t] = <<>> /\ doing[t].op = op

Does(t, op, s) == doing' = [doing EXCEPT ![t] = [op |-> op, of |-> s, at |-> 1]]
GoesOn(t) == doing' = [doing EXCEPT ![t].at = @ + 1]

InUse == {s \in Supervisors : stage[s] \in {"making", "live", "dropping"}}

-----------------------------------------------------------------------------
(* new, with_exit: the flag, then the signal stack... *)
BeginMake(t, s, exitOnCrash) ==
    /\ Runs(t, "idle")
    /\ \A u \in Supervisors : stage[u] = "unmade" <=> u >= s
    /\ stage' = [stage EXCEPT ![s] = "making"]
    /\ maker' = [maker EXCEPT ![s] = t]
    /\ shouldExit' = exitOnCrash
    /\ altStack' = [altStack EXCEPT ![t] = s]
    /\ orderly' = (orderly /\ \A u \in InUse : stage[u] = "live")
    /\ Does(t, "make", s)
    /\ UNCHANGED <<action, oldActions, abroad, lockVars, handlers, raised, ended>>

(* ... and signal by signal the handler; sigaction takes all these signals. *)
InstallNext(t) ==
    /\ Runs(t, "make")
    /\ LET s == doing[t].of  sig == doing[t].at
       IN /\ oldActions' = [oldActions EXCEPT ![s] = Append(@, action[sig])]
          /\ action' = [action EXCEPT ![sig] = "crash_handler"]
    /\ IF doing[t].at < SignalCount THEN GoesOn(t) /\ UNCHANGED stage
       ELSE Does(t, "idle", None) /\ stage' = [stage EXCEPT ![doing[t].of] = "live"]
    /\ UNCHANGED <<altStack, shouldExit, maker, abroad, lockVars, handlers, worldVars>>

(* drop, on whatever thread: orderly if it is the supervisor made last. *)
BeginDrop(t, s) ==
    /\ Runs(t, "idle")
    /\ stage[s] = "live"
    /\ stage' = [stage EXCEPT ![s] = "dropping"]
    /\ abroad' = IF maker[s] = t THEN abroad ELSE abroad \union {s}
    /\ orderly' = (orderly /\ \A u \in InUse \ {s} :
                        stage[u] = "live" /\ u < s)
    /\ Does(t, "drop", s)
    /\ UNCHANGED <<action, altStack, shouldExit, oldActions, maker, lockVars, handlers,
                   raised, ended>>

(* A drop that takes the handlers out. *)
RestoreDefault(t) ==
    /\ Runs(t, "drop")
    /\ doing[t].at \in Signals
    /\ action' = [action EXCEPT ![doing[t].at] = "default"]
    /\ GoesOn(t)
    /\ UNCHANGED <<altStack, shouldExit, oldActions, stage, maker, abroad, lockVars,
                   handlers, worldVars>>

RestoreNext(t) ==
    /\ Runs(t, "drop")
    /\ doing[t].at \in Signals
    /\ action' = [action EXCEPT ![doing[t].at] = oldActions[doing[t].of][doing[t].at]]
    /\ GoesOn(t)
    /\ UNCHANGED <<altStack, shouldExit, oldActions, stage, maker, abroad, lockVars,
                   handlers, worldVars>>

(* A drop that leaves the signal stack of the thread as it is. *)
DroppedEnabled(t) ==
    /\ Runs(t, "drop")
    /\ doing[t].at \notin Signals
    /\ stage' = [stage EXCEPT ![doing[t].of] = "gone"]
    /\ Does(t, "idle", None)
    /\ oldActions' = [oldActions EXCEPT ![doing[t].of] = <<>>]
    /\ maker' = [maker EXCEPT ![doing[t].of] = None]
    /\ UNCHANGED <<action, altStack, shouldExit, abroad, lockVars, handlers, worldVars>>

(* The signal stack of this thread is disabled, the supervisor's is freed. *)
Dropped(t) ==
    /\ Runs(t, "drop")
    /\ doing[t].at \notin Signals
    /\ altStack' = [altStack EXCEPT ![t] = None]
    /\ stage' = [stage EXCEPT ![doing[t].of] = "gone"]
    /\ Does(t, "idle", None)
    /\ oldActions' = [oldActions EXCEPT ![doing[t].of] = <<>>]
    /\ maker' = [maker EXCEPT ![doing[t].of] = None]
    /\ UNCHANGED <<action, shouldExit, abroad, lockVars, handlers, worldVars>>

-----------------------------------------------------------------------------
(* last_crash and clear wait for the lock; they read or reset, and release. *)
TakeLock(t, op) ==
    /\ Runs(t, "idle")
    /\ holder = None
    /\ holder' = <<t, 0>>
    /\ Does(t, op, None)
    /\ UNCHANGED <<supervisorVars, crash, handlers, worldVars>>

EndAccess(t, op) ==
    /\ Runs(t, op)
    /\ holder = <<t, 0>>
    /\ holder' = None
    /\ crash' = IF op = "clear" THEN None ELSE crash
    /\ Does(t, "idle", None)
    /\ UNCHANGED <<supervisorVars, handlers, worldVars>>

-----------------------------------------------------------------------------
(* A signal reaches a thread: its handler runs on the thread's signal stack, *)
(* or, without one, where the thread is.  Signals at their default kill the  *)
(* process without any code of ours.                                         *)
Deliver(t, sig) ==
    /\ ~ended
    /\ raised < MaxRaised
    /\ \A i \in DOMAIN handlers[t] : handlers[t][i].signal # sig
    /\ raised' = raised + 1
    /\ action[sig] = "crash_handler"
    /\ handlers' = [handlers EXCEPT ![t] =
                      Append(@, [signal |-> sig, at |-> "store", stack |-> altStack[t]])]
    /\ UNCHANGED <<supervisorVars, lockVars, doing, ended, orderly>>

Depth(t) == Len(handlers[t])
Handles(t, at) == ~ended /\ Depth(t) > 0 /\ handlers[t][Depth(t)].at = at
HandlerGoes(t, at) == handlers' = [handlers EXCEPT ![t][Depth(t)].at = at]


(* crash_handler, of whose payload only the signal is kept: the crash is     *)
(* stored if the lock is free, and lost otherwise...                         *)
TryLockCrash(t) ==
    /\ Handles(t, "store")
    /\ IF holder = None THEN holder' = <<t, Depth(t)>> /\ HandlerGoes(t, "write")
       ELSE HandlerGoes(t, "leave") /\ UNCHANGED holder
    /\ UNCHANGED <<supervisorVars, crash, doing, worldVars>>

WriteCrash(t) ==
    /\ Handles(t, "write")
    /\ crash' = handlers[t][Depth(t)].signal
    /\ holder' = None
    /\ HandlerGoes(t, "leave")
    /\ UNCHANGED <<supervisorVars, doing, worldVars>>

(* ... and the flag decides whether the process ends here. *)
LeaveHandler(t) ==
    /\ Handles(t, "leave")
    /\ IF shouldExit THEN ended' = TRUE /\ UNCHANGED handlers
       ELSE /\ handlers' = [handlers EXCEPT ![t] = SubSeq(@, 1, Depth(t) - 1)]
            /\ UNCHANGED ended
    /\ UNCHANGED <<supervisorVars, lockVars, doing, raised, orderly>>

HandlerStep(t) == TryLockCrash(t) \/ WriteCrash(t) \/ LeaveHandler(t)

OwnStep(t) ==
    \/ InstallNext(t) \/ RestoreNext(t) \/ Dropped(t)
    \/ \E op \in {"last_crash", "clear"} : EndAccess(t, op)

Begins(t) ==
    \/ \E s \in Supervisors : BeginDrop(t, s)
    \/ \E s \in Supervisors, exitOnCrash \in BOOLEAN : BeginMake(t, s, exitOnCrash)
    \/ \E op \in {"last_crash", "clear"} : TakeLock(t, op)

Ended == ended /\ UNCHANGED vars

Next ==
    \/ \E t \in Threads :
          HandlerStep(t) \/ OwnStep(t) \/ Begins(t) \/ \E sig \in Signals : Deliver(t, sig)
    \/ Ended

(* Threads are scheduled; nothing makes them begin anything. *)
Fairness == \A t \in Threads : WF_vars(HandlerStep(t)) /\ WF_vars(OwnStep(t))

Spec == Init /\ [][Next]_vars /\ Fairness

-----------------------------------------------------------------------------
(* Supervisors that are used one inside the other, on whatever threads,     *)
(* leave the process as they found it: while one of them is alive all       *)
(* signals have the handler, and when the last is gone none has.  Made or   *)
(* dropped at the same time, or dropped in the order in which they were     *)
(* made, they can leave a handler behind, or take it from one that lives.   *)
HandlersRestored ==
    orderly /\ (\A s \in Supervisors : stage[s] \in {"unmade", "live", "gone"}) =>
        \A sig \in Signals :
            action[sig] = "crash_handler" <=> \E s \in Supervisors : stage[s] = "live"

(* Neither a thread nor a running handler is left with a signal stack whose *)
(* memory was freed, whatever the order in which supervisors are dropped,   *)
(* if each is dropped by the thread that made it; one that is dropped       *)
(* elsewhere leaves its maker with such a stack, or a handler running on it. *)
AltStackAlive ==
    \A s \in Supervisors :
        /\ stage[s] = "gone"
        /\ \E t \in Threads :
              altStack[t] = s \/ \E i \in DOMAIN handlers[t] : handlers[t][i].stack = s
        => s \in abroad

=============================================================================
