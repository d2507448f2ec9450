-------------------------- MODULE SelfHealingRouter --------------------------
(***************************************************************************)
(* `SelfHealingRouter::repair` of self_healing/router.rs on the overlay    *)
(* engine.  For one candidate patch after the other, up to max_retries, it *)
(* makes an environment over the host's workspace, writes the patch to     *)
(* upper_dir, validates merged_dir, and commits the first candidate that   *)
(* validates at an acceptable penalty; it tears down and purges the others.*)
(* Every call may fail, and the first failure ends the repair.             *)
(*                                                                         *)
(* The operations of the engine and the validation run on blocking threads *)
(* and are awaited.  A caller that drops the repair at an await (main.rs   *)
(* does, by a timeout) does not stop the thread.                           *)
(***************************************************************************)
EXTENDS CowOverlay, Sequences

CONSTANTS
    MaxRetries,     \* SelfHealingConfig.max_retries
    Threshold,      \* SelfHealingConfig.penalty_threshold
    Penalties,      \* the values compute_penalty may give
    CandidateLists, \* what the patch generator may return: <<path, content>>s
    Sources,        \* the files a validation depends on; builds write others
    GoodSources     \* the contents of Sources for which a build succeeds

ASSUME RetriesAssumption == MaxRetries \in Nat /\ Envs = 1 .. MaxRetries
ASSUME PenaltyAssumption == Threshold \in Nat /\ Penalties \subseteq Nat
ASSUME CandidatesAssumption == CandidateLists \subseteq Seq(Sources \X Contents)
ASSUME SourcesAssumption ==
    /\ Sources \subseteq Paths
    /\ GoodSources \subseteq [Sources -> Contents]
    /\ \A x \in BuildWrites : x[1] \notin Sources

VARIABLES
    pc,           \* where the repair is
    candidates,   \* the patches still to be tried and those tried
    attempt,      \* the number of the candidate, and of its environment
    reports,      \* the judgement of each attempt validated so far
    building,     \* the environments a validation is running in
    answer,       \* how repair returned
    before        \* the host's files when the repair was called

repairVars == <<candidates, attempt, reports, building, answer, before>>
vars == <<cowVars, pc, repairVars>>

NoReport == [success |-> FALSE, penalty |-> 0, done |-> FALSE]
Report == [success : BOOLEAN, penalty : Penalties, done : {TRUE}]

Answer == {"none", "healed", "no_candidates", "rejected", "error"}

Init ==
    /\ CowInit
    /\ before = lower
    /\ pc = "start"
    /\ candidates \in CandidateLists
    /\ attempt = 0
    /\ reports = [k \in Envs |-> NoReport]
    /\ building = {}
    /\ answer = "none"

Goes(where) == pc' = where /\ UNCHANGED answer
Returns(what) == pc' = "returned" /\ answer' = what

(* `?` on the answer of a call: on with the repair, or out of it. *)
OnOk(e, where) == IF result'[e] = "ok" THEN Goes(where) ELSE Returns("error")

Tries == IF Len(candidates) < MaxRetries THEN Len(candidates) ELSE MaxRetries

Patch == candidates[attempt]

Sub(f) == [p \in Sources |-> f[p]]

-----------------------------------------------------------------------------
(* Nothing to try: no candidate, or take(0). *)
Begin ==
    /\ pc = "start"
    /\ IF Tries = 0
       THEN Returns("no_candidates") /\ UNCHANGED attempt
       ELSE Goes("make") /\ attempt' = 1
    /\ UNCHANGED <<cowVars, candidates, reports, building, before>>

(* make_env: its directories are its own, and new. *)
MakeEnv ==
    /\ pc = "make"
    /\ Goes("initialize") \/ Returns("error")
    /\ UNCHANGED <<cowVars, candidates, attempt, reports, building, before>>

CallInitialize ==
    /\ pc = "initialize"
    /\ Initialize(attempt)
    /\ OnOk(attempt, "mount")
    /\ UNCHANGED <<candidates, attempt, reports, building, before>>

CallMount ==
    /\ pc = "mount"
    /\ StartMount(attempt)
    /\ Goes("mounting")
    /\ UNCHANGED <<candidates, attempt, reports, building, before>>

(* An awaited operation has ended. *)
Returned(where, next) ==
    /\ pc = where
    /\ op[attempt] = "idle"
    /\ UNCHANGED <<cowVars, candidates, attempt, reports, building, before>>
    /\ OnOk(attempt, next)

MountReturned == Returned("mounting", "patch")

(* apply_patch: fs::write to upper_dir may leave nothing or a torn file. *)
ApplyPatch ==
    /\ pc = "patch"
    /\ \/ upper' = [upper EXCEPT ![attempt][Patch[1]] = Patch[2]] /\ Goes("sync")
       \/ /\ \E f \in {Absent, Torn} : upper' = [upper EXCEPT ![attempt][Patch[1]] = f]
          /\ Returns("error")
    /\ UNCHANGED <<lower, merged, op, todo, at, result, candidates, attempt,
                   reports, building, before>>

(* A repair that validates what it mounted, without the patch in it. *)
SkipSync ==
    /\ pc = "sync"
    /\ Goes("validate")
    /\ UNCHANGED <<cowVars, candidates, attempt, reports, building, before>>

CallSync ==
    /\ pc = "sync"
    /\ StartSync(attempt)
    /\ Goes("syncing")
    /\ UNCHANGED <<candidates, attempt, reports, building, before>>

SyncReturned == Returned("syncing", "validate")

(* The validator begins on a blocking thread, in merged_dir. *)
CallValidate ==
    /\ pc = "validate"
    /\ building' = building \union {attempt}
    /\ Goes("validating")
    /\ UNCHANGED <<cowVars, candidates, attempt, reports, before>>

(* While it runs its build writes there. *)
ValidatorBuilds(e) ==
    /\ e \in building
    /\ BuildWrite(e)
    /\ UNCHANGED <<pc, repairVars>>

(* Only the validation decides. *)
AcceptAnyPenalty(r) == r.success

Acceptable(r) == r.success /\ r.penalty <= Threshold

(* Its result is judged.  It succeeds only on sources that build; a panic in *)
(* it is a JoinError and ends the repair.                                    *)
ValidateReturned ==
    /\ pc = "validating"
    /\ attempt \in building
    /\ building' = building \ {attempt}
    /\ \/ /\ \E r \in Report :
                /\ r.success => [p \in Sources |-> Seen(attempt, p)] \in GoodSources
                /\ reports' = [reports EXCEPT ![attempt] = r]
                /\ IF Acceptable(r) THEN Goes("commit") ELSE Goes("teardown")
       \/ Returns("error") /\ UNCHANGED reports
    /\ UNCHANGED <<cowVars, candidates, attempt, before>>

CallCommit ==
    /\ pc = "commit"
    /\ StartCommit(attempt)
    /\ Goes("committing")
    /\ UNCHANGED <<candidates, attempt, reports, building, before>>

(* A repair that takes every commit for a success. *)
CommitAnswerIgnored ==
    /\ pc = "committing"
    /\ op[attempt] = "idle"
    /\ Returns("healed")
    /\ UNCHANGED <<cowVars, candidates, attempt, reports, building, before>>

(* The patch is committed, the repair is done; the environment stays. *)
CommitReturned ==
    /\ pc = "committing"
    /\ op[attempt] = "idle"
    /\ Returns(IF result[attempt] = "ok" THEN "healed" ELSE "error")
    /\ UNCHANGED <<cowVars, candidates, attempt, reports, building, before>>

CallTeardown ==
    /\ pc = "teardown"
    /\ StartTeardown(attempt)
    /\ Goes("unmounting")
    /\ UNCHANGED <<candidates, attempt, reports, building, before>>

TeardownReturned == Returned("unmounting", "purge")

(* A loop that never gives a refused candidate up. *)
PurgeAndRetry ==
    /\ pc = "purge"
    /\ Goes("make")
    /\ UNCHANGED <<cowVars, candidates, attempt, reports, building, before>>

(* A loop that gives up one candidate early. *)
PurgeAndStopEarly ==
    /\ pc = "purge"
    /\ IF attempt + 1 < Tries
       THEN Goes("make") /\ attempt' = attempt + 1
       ELSE Returns("rejected") /\ UNCHANGED attempt
    /\ UNCHANGED <<cowVars, candidates, reports, building, before>>

(* purge_overlay removes what it can of upper_dir within its budget; then    *)
(* the next candidate is tried, or the last failure is returned.             *)
Purge ==
    /\ pc = "purge"
    /\ \E d \in PartlyRemoved(upper[attempt]) : upper' = [upper EXCEPT ![attempt] = d]
    /\ IF attempt < Tries
       THEN Goes("make") /\ attempt' = attempt + 1
       ELSE Returns("rejected") /\ UNCHANGED attempt
    /\ UNCHANGED <<lower, merged, op, todo, at, result, candidates, reports,
                   building, before>>

Engine(e) == EngineStep(e) /\ UNCHANGED <<pc, repairVars>>

(* The caller drops the repair while it awaits. *)
Abandon ==
    /\ pc \in {"mounting", "syncing", "validating", "committing", "unmounting", "purge"}
    /\ pc' = "abandoned"
    /\ UNCHANGED <<cowVars, repairVars>>

(* A validation nobody waits for comes to its end. *)
OrphanBuildEnds ==
    /\ pc = "abandoned"
    /\ building # {}
    /\ building' = {}
    /\ UNCHANGED <<cowVars, pc, candidates, attempt, reports, answer, before>>

Over == pc \in {"returned", "abandoned"} /\ UNCHANGED vars

RepairStep ==
    \/ Begin \/ MakeEnv
    \/ CallInitialize
    \/ CallMount \/ MountReturned
    \/ ApplyPatch
    \/ CallSync \/ SyncReturned
    \/ CallValidate \/ ValidateReturned
    \/ CallCommit \/ CommitReturned
    \/ CallTeardown \/ TeardownReturned
    \/ Purge

Next ==
    \/ RepairStep
    \/ \E e \in Envs : Engine(e) \/ ValidatorBuilds(e)
    \/ Abandon
    \/ OrphanBuildEnds
    \/ Over

(* The task is polled when what it awaits is ready, the blocking threads run *)
(* and a validation ends (BuildValidator bounds it by a timeout).            *)
Fairness == WF_vars(RepairStep) /\ \A e \in Envs : WF_vars(Engine(e))

Spec == Init /\ [][Next]_vars /\ Fairness

-----------------------------------------------------------------------------
(* The values the variables take. *)
TypeOK ==
    /\ CowTypeOK
    /\ candidates \in CandidateLists
    /\ attempt \in 0 .. Tries
    /\ reports \in [Envs -> Report \union {NoReport}]
    /\ building \subseteq Envs
    /\ answer \in Answer
    /\ answer # "none" <=> pc = "returned"

(* A repair reports success only on a host that builds: the sources that     *)
(* were validated in the sandbox are those the host has after the commit,    *)
(* which are its own with the accepted patch written over one of them.       *)
HealedHostBuilds ==
    answer = "healed" =>
        /\ Sub(lower) \in GoodSources
        /\ Sub(lower) = [Sub(before) EXCEPT ![Patch[1]] = Patch[2]]

(* The host's sources differ from what they were only in the file of the one *)
(* candidate that was validated and accepted; the candidates rejected before *)
(* it, their builds and the failures on the way have left no trace.          *)
OnlyAcceptedPatchReachesHost ==
    \A p \in Sources :
        lower[p] # before[p] =>
            /\ attempt > 0
            /\ p = Patch[1]
            /\ lower[p] \in {Patch[2], Torn}
            /\ reports[attempt].success
            /\ reports[attempt].penalty <= Threshold

(* "rejected" is the answer only after every candidate allowed by           *)
(* max_retries was validated and refused and its sandbox is gone; "healed"  *)
(* only with the first acceptable candidate.                                *)
AnswerAccountsForCandidates ==
    /\ answer = "rejected" =>
          \A k \in 1 .. Tries :
             /\ reports[k].done
             /\ ~(reports[k].success /\ reports[k].penalty <= Threshold)
             /\ merged[k] = Emptied
    /\ answer = "healed" =>
          \A k \in 1 .. attempt :
             /\ reports[k].done
             /\ reports[k].success /\ reports[k].penalty <= Threshold <=> k = attempt

(* A repair that is not dropped returns. *)
RepairReturns == <>(pc \in {"returned", "abandoned"})

(* How a caller who knows only the contract of a repair sees this state. *)
Offer == [u \in {1} |-> IF pc = "start" THEN <<>> ELSE candidates]

AcceptedCandidate ==
    [u \in {1} |-> IF attempt > 0 /\ reports[attempt].done /\ Acceptable(reports[attempt])
                   THEN attempt ELSE 0]

Verdict ==
    [u \in {1} |->
        CASE pc = "start"     -> "idle"
          [] pc = "returned"  -> answer
          [] pc = "abandoned" -> IF \A e \in Envs : op[e] \in {"new", "idle"}
                                 THEN "ended" ELSE "abandoned"
          [] OTHER            -> "open"]

Contract == INSTANCE RepairContract
    WITH Units <- {1}, Dir <- [u \in {1} |-> Sources],
         Hosts <- {Sub(l) : l \in InitialLower},
         GoodSources <- [u \in {1} |-> GoodSources],
         Offers <- [u \in {1} |-> CandidateLists], host <- Sub(lower), offer <- Offer,
         accepted <- AcceptedCandidate, verdict <- Verdict

(* Every step of the repair, of the engine, of a build and of a caller that *)
(* gives up is a step of the contract: whatever fails, the sources of the   *)
(* host change only by the writes of the one accepted candidate.            *)
ImplementsContract == Contract!ContractSpec

(* "... penalty-index gating, and atomic commit back to the host workspace" *)
(* (tests/end_to_end.rs:4-5), and "your original source remains untouched"  *)
(* (README.md:171), of which this asks a part: a repair that returns an     *)
(* error has committed nothing.                                             *)
FailedRepairLeavesHost ==
    answer \in {"rejected", "no_candidates", "error"} => Sub(lower) = Sub(before)
=============================================================================
