--------------------------- MODULE RepairContract ---------------------------
(***************************************************************************)
(* What `SelfHealingRouter::repair` promises its caller, without           *)
(* environments and engine, for each of the units it is called for: only   *)
(* one file of the unit's directory may change, that of a candidate which  *)
(* was accepted because the directory builds with it; while it is written  *)
(* the file is torn, and it stays so if the repair fails then.  A caller   *)
(* that gives up leaves a thread behind that may still write.              *)
(*                                                                         *)
(* The directory of a unit is that of its manifest.  Directories of units  *)
(* may lie in one another, or be the same.                                 *)
(***************************************************************************)
EXTENDS Naturals, Sequences

CONSTANTS
    Units,          \* the units a repair may be called for
    Sources,        \* the files of the host that builds depend on
    Dir,            \* those in the directory of each unit, and below it
    Contents,       \* what they may hold
    Absent, Torn,   \* no file, and a file that was cut short
    Hosts,          \* what they may hold at first
    GoodSources,    \* what a unit's directory must hold for its build to succeed
    Offers,         \* the lists of candidates, <<file, content>>, made for a unit
    MaxRetries      \* SelfHealingConfig.max_retries

ASSUME DirAssumption == Dir \in [Units -> SUBSET Sources]
ASSUME HostsAssumption == Hosts \subseteq [Sources -> Contents \union {Absent}]
ASSUME GoodAssumption ==
    /\ \A u \in Units : GoodSources[u] \subseteq [Dir[u] -> Contents \union {Absent}]
    /\ Torn \notin Contents \union {Absent}
ASSUME OffersAssumption ==
    (\A u \in Units : Offers[u] \subseteq Seq(Dir[u] \X Contents)) /\ MaxRetries \in Nat

VARIABLES
    host,       \* the sources, one file for all the units whose directory has it
    offer,      \* the candidates of each unit's repair
    accepted,   \* the number of the one that was accepted, or 0
    verdict     \* whether its repair is called, going on, or how it ended

contractVars == <<host, offer, accepted, verdict>>

Refusals == {"rejected", "no_candidates", "error"}
Verdict == {"idle", "open", "healed", "abandoned", "ended"} \union Refusals

ContractInit ==
    /\ host \in Hosts
    /\ offer = [u \in Units |-> <<>>]
    /\ accepted = [u \in Units |-> 0]
    /\ verdict = [u \in Units |-> "idle"]

Tried(list) == IF Len(list) < MaxRetries THEN Len(list) ELSE MaxRetries

With(sources, patch) == [sources EXCEPT ![patch[1]] = patch[2]]

(* Whether the directory of a unit would build if the host were so. *)
BuildsOn(sources, u) == [f \in Dir[u] |-> sources[f]] \in GoodSources[u]

Accepted(u) == offer[u][accepted[u]]

Answers(u, how) ==
    verdict' = [verdict EXCEPT ![u] = how] /\ UNCHANGED <<host, offer, accepted>>

(* The repair is called and the generator asked for candidates. *)
Call(u) ==
    /\ verdict[u] = "idle"
    /\ \E list \in Offers[u] :
          /\ offer' = [offer EXCEPT ![u] = list]
          /\ verdict' = [verdict EXCEPT
                ![u] = IF Tried(list) = 0 THEN "no_candidates" ELSE "open"]
    /\ UNCHANGED <<host, accepted>>

(* A candidate that makes the directory build is accepted. *)
Accept(u) ==
    /\ verdict[u] = "open"
    /\ accepted[u] = 0
    /\ \E k \in 1 .. Tried(offer[u]) :
          /\ BuildsOn(With(host, offer[u][k]), u)
          /\ accepted' = [accepted EXCEPT ![u] = k]
    /\ UNCHANGED <<host, offer, verdict>>

Writing(u) == verdict[u] \in {"open", "abandoned"} /\ accepted[u] # 0

(* Its file is opened for writing... *)
Tear(u) ==
    /\ Writing(u)
    /\ host' = With(host, <<Accepted(u)[1], Torn>>)
    /\ UNCHANGED <<offer, accepted, verdict>>

(* ... and written. *)
Apply(u) ==
    /\ Writing(u)
    /\ host[Accepted(u)[1]] = Torn
    /\ host' = With(host, Accepted(u))
    /\ UNCHANGED <<offer, accepted, verdict>>

(* Success is answered with the candidate written... *)
Heal(u) ==
    /\ verdict[u] = "open"
    /\ accepted[u] # 0
    /\ host[Accepted(u)[1]] = Accepted(u)[2]
    /\ Answers(u, "healed")

(* ... a refusal when none was accepted, an error at any time. *)
Refuse(u) == verdict[u] = "open" /\ accepted[u] = 0 /\ Answers(u, "rejected")

Fail(u) == verdict[u] = "open" /\ Answers(u, "error")

(* The caller gives up; a thread may still be at work... *)
Abandon(u) ==
    /\ verdict[u] = "open"
    /\ Answers(u, "abandoned") \/ Answers(u, "ended")

(* ... until it, too, has ended. *)
Settle(u) == verdict[u] = "abandoned" /\ Answers(u, "ended")

Proceed(u) == Accept(u) \/ Tear(u) \/ Apply(u) \/ Heal(u) \/ Refuse(u) \/ Fail(u)

ContractNext ==
    \E u \in Units : Call(u) \/ Proceed(u) \/ Abandon(u) \/ Settle(u)

ContractSpec == ContractInit /\ [][ContractNext]_contractVars
=============================================================================
