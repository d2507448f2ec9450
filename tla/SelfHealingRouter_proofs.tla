---------------------- MODULE SelfHealingRouter_proofs ----------------------
(* Proofs about a repair, for any candidates, builds, failures and moments  *)
(* at which the caller gives up.  The environments behind the current one   *)
(* are torn down, those before it new; what the current one shows and what  *)
(* the host holds depends on how far the repair is.                         *)
EXTENDS SelfHealingRouter, CowOverlay_proofs

Working == {"make", "initialize", "mount", "mounting", "patch", "sync", "syncing",
            "validate", "validating", "commit", "committing", "teardown", "unmounting",
            "purge"}

Committing == {"commit", "writing", "copyback", "wipe"}

Types2 ==
    /\ TypeOK
    /\ pc \in Working \union {"start", "returned", "abandoned"}
    /\ pc = "start" => attempt = 0
    /\ pc \in Working \union {"abandoned"} => attempt \in Envs
    /\ before \in [Paths -> Contents \union {Absent}]

(* The candidate of this attempt was validated and accepted. *)
Chosen == attempt \in Envs /\ reports[attempt].done /\ Acceptable(reports[attempt])

Refused(e) == reports[e].done /\ ~Acceptable(reports[e])

Fresh(e) == op[e] = "new" /\ upper[e] = Emptied /\ merged[e] = Emptied

Others ==
    \A e \in Envs :
        /\ e > attempt => Fresh(e) /\ reports[e] = NoReport
        /\ e < attempt => op[e] = "idle" /\ merged[e] = Emptied /\ Refused(e)

(* The operation of the current environment, as the repair waits for it. *)
CurrentOp ==
    LET o == op[attempt]
    IN attempt \in Envs =>
        /\ pc \in {"make", "initialize"} => Fresh(attempt)
        /\ pc \in {"mount", "patch", "sync", "validate", "validating", "commit", "teardown",
                   "purge"} => o = "idle"
        /\ pc = "mounting" => o \in {"clear", "mirror", "overlay", "idle"}
        /\ pc = "syncing" => o \in {"sync", "idle"}
        /\ pc = "committing" => o \in Committing \union {"idle"}
        /\ pc = "unmounting" => o \in {"unmount", "idle"}
        /\ pc = "returned" => o \in {"new", "idle"}
        /\ pc = "abandoned" => o # "new"
        /\ o \in Committing => pc \in {"committing", "abandoned"}

CurrentReport ==
    attempt \in Envs =>
        /\ pc \in {"make", "initialize", "mount", "mounting", "patch", "sync", "syncing",
                   "validate", "validating"} => reports[attempt] = NoReport
        /\ pc \in {"commit", "committing"} => Chosen
        /\ op[attempt] \in Committing => Chosen
        /\ pc \in {"teardown", "unmounting", "purge"} => Refused(attempt)

(* The patch of this attempt and nothing else is in upper_dir. *)
OnlyPatch == \A p \in Paths : upper[attempt][p] = IF p = Patch[1] THEN Patch[2] ELSE Absent

(* Sources that the patch does not touch are seen as the host has them. *)
OthersSeen == \A p \in Sources : upper[attempt][p] = Absent => Seen(attempt, p) = lower[p]

PatchSeen == Seen(attempt, Patch[1]) = Patch[2]

CurrentFiles ==
    LET done == op[attempt] = "idle" /\ result[attempt] = "ok"
    IN attempt \in Envs =>
        /\ pc \in {"mount", "mounting", "patch"} => upper[attempt] = Emptied
        /\ (pc = "mounting" /\ done) \/ pc = "patch" => OthersSeen
        /\ pc \in {"sync", "syncing", "validate", "validating", "commit"} => OnlyPatch
        /\ pc \in {"sync", "syncing", "validate", "validating"} => OthersSeen
        /\ (pc = "syncing" /\ done) \/ pc \in {"validate", "validating"} => PatchSeen
        /\ op[attempt] \in Committing => OnlyPatch
        /\ pc = "committing" /\ done => lower[Patch[1]] = Patch[2]
        /\ (pc = "unmounting" /\ done) \/ pc = "purge" => merged[attempt] = Emptied

(* The host as it was, with the file of the accepted candidate. *)
Repaired == [p \in Sources |-> IF p = Patch[1] THEN Patch[2] ELSE before[p]]

HostInv ==
    /\ \A p \in Sources : lower[p] # before[p] =>
          Chosen /\ p = Patch[1] /\ lower[p] \in {Patch[2], Torn}
    /\ Chosen => Repaired \in GoodSources

BuildingInv ==
    building # {} => /\ building = {attempt} /\ attempt \in Envs
                     /\ pc \in {"validating", "abandoned"} /\ op[attempt] = "idle"

AnswerInv ==
    /\ answer = "healed" => Chosen /\ lower[Patch[1]] = Patch[2]
    /\ answer = "rejected" => attempt = Tries /\ Refused(attempt) /\ merged[attempt] = Emptied

AllProgress == \A e \in Envs : Progress(e)

Inv ==
    /\ Types2 /\ Others /\ CurrentOp /\ CurrentReport /\ CurrentFiles
    /\ HostInv /\ BuildingInv /\ AnswerInv /\ AllProgress

-----------------------------------------------------------------------------
(* The candidates that are tried, and their environments. *)
LEMMA CandidateFacts ==
    ASSUME candidates \in CandidateLists
    PROVE  /\ Tries \in Nat /\ Tries <= MaxRetries /\ Tries <= Len(candidates)
           /\ Len(candidates) \in Nat
           /\ \A k \in 1 .. Tries : k \in Envs /\ candidates[k] \in Sources \X Contents
           /\ \A k \in 1 .. Tries : candidates[k][1] \in Paths /\ candidates[k][1] \in Sources
                                    /\ candidates[k][2] \in Contents
<1>1. candidates \in Seq(Sources \X Contents) BY CandidatesAssumption
<1>2. Len(candidates) \in Nat /\ \A k \in 1 .. Len(candidates) : candidates[k] \in Sources \X Contents
  BY <1>1
<1>3. Tries \in Nat /\ Tries <= MaxRetries /\ Tries <= Len(candidates)
  BY <1>2, RetriesAssumption DEF Tries
<1>4. \A k \in 1 .. Tries : k \in Envs /\ candidates[k] \in Sources \X Contents
  BY <1>2, <1>3, RetriesAssumption
<1> QED BY <1>2, <1>3, <1>4, SourcesAssumption

(* What most steps need of the invariant. *)
LEMMA InvFacts ==
    ASSUME Inv
    PROVE  /\ CowTypeOK /\ candidates \in CandidateLists
           /\ attempt \in 0 .. Tries /\ Tries \in Nat
           /\ Envs \subseteq Nat
           /\ attempt # 0 <=> attempt \in Envs
           /\ attempt \in Envs => /\ Patch[1] \in Sources /\ Patch[1] \in Paths
                                  /\ Patch[2] \in Contents
           /\ reports \in [Envs -> Report \union {NoReport}]
           /\ answer # "none" <=> pc = "returned"
           /\ pc \in Working \union {"abandoned"} => attempt \in Envs
<1>1. /\ CowTypeOK /\ candidates \in CandidateLists /\ attempt \in 0 .. Tries
      /\ reports \in [Envs -> Report \union {NoReport}]
      /\ answer # "none" <=> pc = "returned"
      /\ pc \in Working \union {"abandoned"} => attempt \in Envs
  BY DEF Inv, Types2, TypeOK
<1>2. Envs = 1 .. MaxRetries /\ MaxRetries \in Nat BY RetriesAssumption
<1>3. attempt # 0 <=> attempt \in Envs BY <1>1, <1>2, CandidateFacts
<1>4. attempt \in Envs => Patch[1] \in Sources /\ Patch[1] \in Paths /\ Patch[2] \in Contents
  BY <1>1, <1>2, CandidateFacts DEF Patch
<1> QED BY <1>1, <1>2, <1>3, <1>4, CandidateFacts

(* The invariant holds before the call. *)
LEMMA InitInv == Init => Inv
<1> SUFFICES ASSUME Init PROVE Inv OBVIOUS
<1> USE DEF Init
<1>1. CowTypeOK /\ \A e \in Envs : Progress(e) BY CowInitFacts
<1>2. candidates \in CandidateLists /\ attempt = 0 /\ pc = "start" /\ answer = "none"
      /\ building = {} /\ reports = [k \in Envs |-> NoReport] /\ before = lower
  OBVIOUS
<1>3. 0 \notin Envs /\ Envs \subseteq Nat /\ 0 \in 0 .. Tries
  BY <1>2, CandidateFacts, RetriesAssumption
<1>4. TypeOK BY <1>1, <1>2, <1>3 DEF TypeOK, Answer
<1>5. before \in [Paths -> Contents \union {Absent}]
  BY <1>2, LowerAssumption DEF CowInit
<1>6. Types2 BY <1>2, <1>4, <1>5 DEF Types2, Working
<1>7. Others BY <1>2, <1>3 DEF Others, Fresh, CowInit, Emptied
<1>8. CurrentOp /\ CurrentReport /\ CurrentFiles
  BY <1>2, <1>3 DEF CurrentOp, CurrentReport, CurrentFiles
<1>9. HostInv BY <1>2, <1>3 DEF HostInv, Chosen
<1>10. BuildingInv /\ AnswerInv BY <1>2 DEF BuildingInv, AnswerInv
<1> QED BY <1>1, <1>6, <1>7, <1>8, <1>9, <1>10 DEF Inv, AllProgress

-----------------------------------------------------------------------------
(* Steps that only move the repair on. *)
LEMMA Kept ==
    ASSUME Inv, UNCHANGED <<cowVars, candidates, attempt, reports, before>>
    PROVE  /\ Others' /\ HostInv' /\ AllProgress' /\ CowTypeOK'
           /\ Patch' = Patch /\ Tries' = Tries
           /\ Chosen' <=> Chosen
           /\ OnlyPatch' <=> OnlyPatch
           /\ OthersSeen' <=> OthersSeen
           /\ PatchSeen' <=> PatchSeen
           /\ \A e \in Envs : (Fresh(e)' <=> Fresh(e)) /\ (Refused(e)' <=> Refused(e))
           /\ op' = op /\ result' = result /\ lower' = lower /\ upper' = upper
           /\ merged' = merged
<1> USE DEF cowVars, files
<1>1. AllProgress' /\ CowTypeOK'
  BY DEF Inv, Types2, TypeOK, AllProgress, Progress, Seen, CowTypeOK
<1>2. Patch' = Patch /\ Tries' = Tries /\ (Chosen' <=> Chosen)
  BY DEF Patch, Tries, Chosen, Acceptable
<1>3. \A e \in Envs : (Fresh(e)' <=> Fresh(e)) /\ (Refused(e)' <=> Refused(e))
  BY DEF Fresh, Refused, Acceptable
<1>4. /\ OnlyPatch' <=> OnlyPatch
      /\ OthersSeen' <=> OthersSeen
      /\ PatchSeen' <=> PatchSeen
  BY <1>2 DEF OnlyPatch, OthersSeen, PatchSeen, Seen
<1>5. Others' BY <1>3 DEF Inv, Others
<1>6. HostInv' BY <1>2 DEF Inv, HostInv, Repaired
<1> QED BY <1>1, <1>2, <1>3, <1>4, <1>5, <1>6

(* When the types are kept. *)
LEMMA TypesKept ==
    ASSUME Inv, CowTypeOK', UNCHANGED <<candidates, before>>, attempt' \in 0 .. Tries,
           reports' \in [Envs -> Report \union {NoReport}], building' \subseteq Envs,
           answer' \in Answer, answer' # "none" <=> pc' = "returned",
           pc' \in Working \union {"returned", "abandoned"},
           pc' \in Working \union {"abandoned"} => attempt' \in Envs
    PROVE  Types2'
<1>1. Tries' = Tries BY DEF Tries
<1> QED BY <1>1 DEF Inv, Types2, TypeOK, Working

(* Steps that only go from one call to the next. *)
LEMMA MovesKeep ==
    ASSUME Inv, MakeEnv \/ MountReturned \/ SyncReturned \/ CallValidate \/ CommitReturned
                  \/ TeardownReturned \/ Abandon \/ OrphanBuildEnds
    PROVE  Inv'
<1>1. UNCHANGED <<cowVars, candidates, attempt, reports, before>>
  BY DEF MakeEnv, MountReturned, SyncReturned, CallValidate, CommitReturned, TeardownReturned,
         Abandon, OrphanBuildEnds, Returned, repairVars
<1>2. /\ Types2 /\ CurrentOp /\ CurrentReport /\ CurrentFiles /\ BuildingInv /\ AnswerInv
      /\ attempt \in Envs /\ attempt' = attempt /\ attempt' \in 0 .. Tries
      /\ reports' \in [Envs -> Report \union {NoReport}]
  BY <1>1, InvFacts DEF Inv, MakeEnv, MountReturned, SyncReturned, CallValidate,
     CommitReturned, TeardownReturned, Abandon, OrphanBuildEnds, Returned, Working
<1>3. SUFFICES /\ building' \subseteq Envs /\ answer' \in Answer
               /\ answer' # "none" <=> pc' = "returned"
               /\ pc' \in Working \union {"returned", "abandoned"}
               /\ CurrentOp' /\ CurrentReport' /\ CurrentFiles' /\ BuildingInv' /\ AnswerInv'
  BY <1>1, <1>2, Kept, TypesKept DEF Inv
<1> USE <1>1, <1>2, Kept
    DEF Goes, Returns, OnOk, Types2, TypeOK, CurrentOp, CurrentReport, CurrentFiles, BuildingInv,
        AnswerInv, Working, Answer, Committing
<1>4. CASE MakeEnv BY <1>4 DEF MakeEnv, Fresh
<1>5. CASE MountReturned BY <1>5 DEF MountReturned, Returned
<1>6. CASE SyncReturned BY <1>6 DEF SyncReturned, Returned
<1>7. CASE CallValidate BY <1>7 DEF CallValidate
<1>8. CASE CommitReturned BY <1>8 DEF CommitReturned
<1>9. CASE TeardownReturned BY <1>9 DEF TeardownReturned, Returned
<1>10. CASE Abandon BY <1>10 DEF Abandon, repairVars
<1>11. CASE OrphanBuildEnds BY <1>11 DEF OrphanBuildEnds
<1> QED BY <1>4, <1>5, <1>6, <1>7, <1>8, <1>9, <1>10, <1>11

(* The repair begins with the first candidate, or ends without any. *)
LEMMA BeginKeeps == ASSUME Inv, Begin PROVE Inv'
<1>1. /\ pc = "start" /\ UNCHANGED <<cowVars, candidates, reports, building, before>>
      /\ answer = "none" /\ attempt = 0 /\ attempt \notin Envs /\ Tries \in Nat
      /\ building = {} /\ CowTypeOK /\ ~Chosen /\ Envs \subseteq Nat
  BY InvFacts, RetriesAssumption DEF Begin, Inv, Types2, BuildingInv, Chosen, Working
<1>2. CASE Tries = 0
  <2>1. pc' = "returned" /\ answer' = "no_candidates" /\ UNCHANGED attempt
    BY <1>2 DEF Begin, Returns
  <2>2. Types2' BY <1>1, <2>1, Kept, TypesKept, InvFacts DEF Answer, Working
  <2>3. CurrentOp' /\ CurrentReport' /\ CurrentFiles'
    BY <1>1, <2>1 DEF CurrentOp, CurrentReport, CurrentFiles
  <2>4. BuildingInv' /\ AnswerInv' BY <1>1, <2>1 DEF BuildingInv, AnswerInv
  <2> QED BY <1>1, <2>1, <2>2, <2>3, <2>4, Kept DEF Inv
<1>3. CASE Tries # 0
  <2>1. pc' = "make" /\ attempt' = 1 /\ UNCHANGED answer BY <1>3 DEF Begin, Goes
  <2>2. 1 \in Envs /\ 1 \in 0 .. Tries /\ 0 \notin Envs
    BY <1>1, <1>3, CandidateFacts, InvFacts, RetriesAssumption
  <2>3. Fresh(1) /\ reports[1] = NoReport /\ \A e \in Envs : Fresh(e) /\ reports[e] = NoReport
    BY <1>1, <2>2, RetriesAssumption DEF Inv, Others
  <2>4. CowTypeOK' /\ AllProgress'
    BY <1>1 DEF Inv, AllProgress, Progress, Seen, CowTypeOK, cowVars, files
  <2>5. Types2' BY <1>1, <2>1, <2>2, <2>4, TypesKept, InvFacts DEF Inv, Types2, TypeOK, Working
  <2>6. \A e \in Envs : Fresh(e)' BY <1>1, <2>3 DEF Fresh, cowVars, files
  <2>7. Others' BY <1>1, <2>1, <2>3, <2>6, RetriesAssumption DEF Others
  <2>8. ~Chosen' BY <1>1, <2>1, <2>3 DEF Chosen, NoReport
  <2>9. HostInv' BY <1>1, <2>8 DEF Inv, HostInv, cowVars, files
  <2>10. CurrentOp' BY <2>1, <2>6, <2>2, <1>1 DEF CurrentOp, Fresh, Committing
  <2>11. CurrentReport'
    BY <1>1, <2>1, <2>2, <2>3, <2>6 DEF CurrentReport, Fresh, Committing
  <2>12. CurrentFiles' BY <2>1, <2>2, <2>6 DEF CurrentFiles, Fresh, Committing
  <2>13. BuildingInv' /\ AnswerInv' BY <1>1, <2>1 DEF BuildingInv, AnswerInv
  <2> QED BY <2>4, <2>5, <2>7, <2>9, <2>10, <2>11, <2>12, <2>13 DEF Inv
<1> QED BY <1>2, <1>3

(* What a validation that succeeded has seen is the host with the patch. *)
LEMMA SeenIsRepaired ==
    ASSUME Inv, pc = "validating"
    PROVE  [p \in Sources |-> Seen(attempt, p)] = Repaired
<1>1. attempt \in Envs /\ Patch[1] \in Paths /\ Patch[2] \in Contents
  BY InvFacts DEF Working
<1>2. OnlyPatch /\ OthersSeen /\ PatchSeen /\ reports[attempt] = NoReport
  BY <1>1 DEF Inv, CurrentFiles, CurrentReport
<1>3. ~Chosen BY <1>2 DEF Chosen, NoReport
<1>4. \A p \in Sources : lower[p] = before[p] BY <1>3 DEF Inv, HostInv
<1>5. \A p \in Sources : p # Patch[1] => Seen(attempt, p) = before[p]
  BY <1>2, <1>4, SourcesAssumption DEF OnlyPatch, OthersSeen
<1> QED BY <1>2, <1>5 DEF Repaired, PatchSeen

(* The answer of the validation, with its report. *)
LEMMA ValidateKeeps == ASSUME Inv, ValidateReturned PROVE Inv'
<1>1. /\ pc = "validating" /\ UNCHANGED <<cowVars, candidates, attempt, before>>
      /\ attempt \in Envs /\ attempt \in building /\ building' = building \ {attempt}
      /\ building' = {} /\ op[attempt] = "idle" /\ OnlyPatch /\ answer = "none"
      /\ reports[attempt] = NoReport /\ attempt \in 0 .. Tries /\ CowTypeOK
  BY InvFacts DEF ValidateReturned, Working, Inv, BuildingInv, CurrentFiles, CurrentReport
<1>2. CASE UNCHANGED reports /\ pc' = "returned" /\ answer' = "error"
  <2>1. Types2' BY <1>1, <1>2, Kept, TypesKept, InvFacts DEF Answer, Working
  <2>2. CurrentOp' /\ CurrentReport' /\ CurrentFiles'
    BY <1>1, <1>2, Kept DEF CurrentOp, CurrentReport, CurrentFiles, Committing
  <2>3. BuildingInv' /\ AnswerInv' BY <1>1, <1>2 DEF BuildingInv, AnswerInv
  <2> QED BY <1>1, <1>2, <2>1, <2>2, <2>3, Kept DEF Inv
<1>3. ASSUME NEW r \in Report,
             r.success => [p \in Sources |-> Seen(attempt, p)] \in GoodSources,
             reports' = [reports EXCEPT ![attempt] = r],
             IF Acceptable(r) THEN Goes("commit") ELSE Goes("teardown")
      PROVE  Inv'
  <2>1. /\ reports' \in [Envs -> Report \union {NoReport}]
        /\ reports'[attempt] = r /\ \A e \in Envs \ {attempt} : reports'[e] = reports[e]
        /\ r.done
    BY <1>1, <1>3, InvFacts DEF Report
  <2>2. answer' = "none" /\ pc' = IF Acceptable(r) THEN "commit" ELSE "teardown"
    BY <1>1, <1>3 DEF Goes
  <2>3. CowTypeOK' /\ AllProgress' /\ op' = op /\ lower' = lower /\ upper' = upper
        /\ merged' = merged
    BY <1>1 DEF Inv, AllProgress, Progress, Seen, CowTypeOK, cowVars, files
  <2>4. Types2'
    BY <1>1, <2>1, <2>2, <2>3, TypesKept DEF Working, Answer
  <2>5. Others'
    BY <1>1, <2>1, <2>3, RetriesAssumption, InvFacts DEF Inv, Others, Fresh, Refused, Acceptable
  <2>6. Chosen' <=> Acceptable(r) BY <1>1, <2>1 DEF Chosen, Acceptable
  <2>7. Refused(attempt)' <=> ~Acceptable(r) BY <1>1, <2>1 DEF Refused, Acceptable
  <2>8. ~Chosen BY <1>1 DEF Chosen, NoReport
  <2>9. Patch' = Patch /\ Repaired' = Repaired BY <1>1 DEF Patch, Repaired
  <2>10. HostInv'
    BY <1>3, <2>3, <2>6, <2>8, <2>9, <1>1, SeenIsRepaired DEF Inv, HostInv, Acceptable
  <2>11. OnlyPatch' BY <1>1, <2>3, <2>9 DEF OnlyPatch
  <2>12. CurrentOp' BY <1>1, <2>2, <2>3 DEF CurrentOp, Committing
  <2>13. CurrentReport' BY <1>1, <2>2, <2>3, <2>6, <2>7 DEF CurrentReport, Committing
  <2>14. CurrentFiles' BY <1>1, <2>2, <2>3, <2>11 DEF CurrentFiles, Committing
  <2>15. BuildingInv' /\ AnswerInv' BY <1>1, <2>2 DEF BuildingInv, AnswerInv
  <2> QED BY <2>3, <2>4, <2>5, <2>10, <2>12, <2>13, <2>14, <2>15 DEF Inv
<1> QED BY <1>2, <1>3 DEF ValidateReturned, Returns

-----------------------------------------------------------------------------
(* The predicates that hold for every step on the current environment. *)
LEMMA OthersKept ==
    ASSUME Inv, attempt \in Envs, UNCHANGED <<attempt, reports, before, candidates>>,
           \A f \in Envs \ {attempt} : Still(f)
    PROVE  /\ Others'
           /\ Patch' = Patch /\ Tries' = Tries /\ Repaired' = Repaired
           /\ Chosen' <=> Chosen
           /\ \A e \in Envs : Refused(e)' <=> Refused(e)
           /\ \A e \in Envs \ {attempt} : ~Busy(e) /\ Progress(e)'
<1>1. Envs \subseteq Nat BY RetriesAssumption
<1>2. \A e \in Envs \ {attempt} : e < attempt \/ e > attempt
  BY <1>1
<1>3. \A e \in Envs \ {attempt} : op[e] \in {"new", "idle"}
  BY <1>2 DEF Inv, Others, Fresh
<1>4. \A e \in Envs \ {attempt} : Progress(e)' BY <1>3 DEF Still, Progress
<1>5. Patch' = Patch /\ Repaired' = Repaired /\ Tries' = Tries BY DEF Patch, Repaired, Tries
<1>6. (Chosen' <=> Chosen) /\ \A e \in Envs : Refused(e)' <=> Refused(e)
  BY DEF Chosen, Refused, Acceptable
<1>7. Others'
  <2> SUFFICES ASSUME NEW e \in Envs
               PROVE  /\ e > attempt' => Fresh(e)' /\ reports'[e] = NoReport
                      /\ e < attempt' => op'[e] = "idle" /\ merged'[e] = Emptied /\ Refused(e)'
    BY DEF Others, Emptied
  <2>1. e = attempt => ~(e > attempt) /\ ~(e < attempt) BY <1>1
  <2>2. e # attempt => Still(e) OBVIOUS
  <2> QED BY <2>1, <2>2, <1>6 DEF Inv, Others, Still, Fresh, Emptied
<1> QED BY <1>3, <1>4, <1>5, <1>6, <1>7 DEF Busy

(* Calls of the engine. *)
LEMMA CallsKeep ==
    ASSUME Inv, CallMount \/ CallSync \/ CallCommit \/ CallTeardown PROVE Inv'
<1>1. PICK s \in {"clear", "sync", "commit", "unmount"} :
        /\ Starts(attempt, s)
        /\ \/ s = "clear" /\ pc = "mount" /\ pc' = "mounting"
           \/ s = "sync" /\ pc = "sync" /\ pc' = "syncing"
           \/ s = "commit" /\ pc = "commit" /\ pc' = "committing"
           \/ s = "unmount" /\ pc = "teardown" /\ pc' = "unmounting"
  BY DEF CallMount, CallSync, CallCommit, CallTeardown, StartMount, StartSync, StartCommit,
         StartTeardown, Goes
<1>2. /\ UNCHANGED <<candidates, attempt, reports, building, before, answer>>
      /\ attempt \in Envs /\ CowTypeOK /\ attempt \in 0 .. Tries /\ building = {}
      /\ answer = "none"
  BY <1>1, InvFacts DEF CallMount, CallSync, CallCommit, CallTeardown, Goes, Working, Inv,
                        BuildingInv
<1>3. /\ CowTypeOK' /\ Progress(attempt)' /\ op'[attempt] = s /\ UNCHANGED files
  BY <1>1, <1>2, StartFacts
<1>4. \A f \in Envs \ {attempt} : Still(f) BY <1>1, <1>2, Frames
<1>5. /\ Others' /\ Patch' = Patch /\ Repaired' = Repaired /\ (Chosen' <=> Chosen)
      /\ \A e \in Envs : Refused(e)' <=> Refused(e)
      /\ \A e \in Envs \ {attempt} : Progress(e)'
  BY <1>2, <1>4, OthersKept
<1>6. Types2' BY <1>1, <1>2, <1>3, TypesKept, InvFacts DEF Working, Answer
<1>7. /\ OnlyPatch' <=> OnlyPatch
      /\ OthersSeen' <=> OthersSeen
  BY <1>2, <1>3, <1>5 DEF OnlyPatch, OthersSeen, Seen, files
<1>8. HostInv' BY <1>2, <1>3, <1>5 DEF Inv, HostInv, files
<1>9. CurrentOp' BY <1>1, <1>2, <1>3 DEF CurrentOp, Committing
<1>10. CurrentReport' BY <1>1, <1>2, <1>3, <1>5 DEF Inv, CurrentReport, Committing
<1>11. CurrentFiles' BY <1>1, <1>2, <1>3, <1>7 DEF Inv, CurrentFiles, Committing, files
<1>12. BuildingInv' /\ AnswerInv' BY <1>2 DEF BuildingInv, AnswerInv
<1>13. AllProgress' BY <1>2, <1>3, <1>5 DEF AllProgress
<1> QED BY <1>5, <1>6, <1>8, <1>9, <1>10, <1>11, <1>12, <1>13 DEF Inv

(* The first call on the environment of an attempt. *)
LEMMA CallInitializeKeeps == ASSUME Inv, CallInitialize PROVE Inv'
<1>1. /\ pc = "initialize" /\ Initialize(attempt) /\ attempt \in Envs /\ CowTypeOK
      /\ UNCHANGED <<candidates, attempt, reports, building, before>>
      /\ attempt \in 0 .. Tries /\ building = {} /\ answer = "none"
      /\ reports[attempt] = NoReport /\ Fresh(attempt)
  BY InvFacts DEF CallInitialize, Working, Inv, BuildingInv, CurrentReport, CurrentOp
<1>2. /\ CowTypeOK' /\ Progress(attempt)' /\ op'[attempt] \in {"new", "idle"} /\ UNCHANGED files
      /\ result'[attempt] = "ok" => op'[attempt] = "idle"
  BY <1>1, InitializeFacts
<1>3. \A f \in Envs \ {attempt} : Still(f) BY <1>1, Frames
<1>4. /\ Others' /\ Patch' = Patch /\ Repaired' = Repaired /\ (Chosen' <=> Chosen)
      /\ \A e \in Envs \ {attempt} : Progress(e)'
  BY <1>1, <1>3, OthersKept
<1>5. \/ pc' = "mount" /\ answer' = "none" /\ op'[attempt] = "idle"
      \/ pc' = "returned" /\ answer' = "error"
  BY <1>1, <1>2 DEF CallInitialize, OnOk, Goes, Returns
<1>6. Types2' BY <1>1, <1>2, <1>5, TypesKept, InvFacts DEF Working, Answer
<1>7. HostInv' BY <1>1, <1>2, <1>4 DEF Inv, HostInv, files
<1>8. CurrentOp' BY <1>1, <1>2, <1>5 DEF CurrentOp, Committing
<1>9. CurrentReport' BY <1>1, <1>2, <1>5 DEF CurrentReport, Committing
<1>10. CurrentFiles' BY <1>1, <1>2, <1>5 DEF CurrentFiles, Committing, Fresh, files
<1>11. BuildingInv' /\ AnswerInv' BY <1>1, <1>5 DEF BuildingInv, AnswerInv
<1>12. AllProgress' BY <1>1, <1>2, <1>4 DEF AllProgress
<1> QED BY <1>4, <1>6, <1>7, <1>8, <1>9, <1>10, <1>11, <1>12 DEF Inv

-----------------------------------------------------------------------------
(* Steps that write to upper_dir of an environment at rest. *)
LEMMA UpperWrite ==
    ASSUME Inv, attempt \in Envs, NEW d \in [Paths -> File],
           upper' = [upper EXCEPT ![attempt] = d], op[attempt] = "idle",
           UNCHANGED <<lower, merged, op, todo, at, result>>
    PROVE  /\ CowTypeOK' /\ AllProgress'
           /\ upper'[attempt] = d
           /\ \A f \in Envs \ {attempt} : Still(f)
<1>1. CowTypeOK BY InvFacts
<1>2. upper'[attempt] = d /\ \A f \in Envs \ {attempt} : upper'[f] = upper[f]
  BY <1>1 DEF CowTypeOK
<1>3. CowTypeOK' BY <1>1 DEF CowTypeOK
<1>4. ASSUME NEW f \in Envs \ {attempt} PROVE Progress(f)'
  <2>1. Progress(f) BY DEF Inv, AllProgress
  <2>2. upper'[f] = upper[f] BY <1>2
  <2>3. op' = op /\ todo' = todo /\ at' = at /\ lower' = lower /\ merged' = merged OBVIOUS
  <2> QED BY <2>1, <2>2, <2>3 DEF Progress, Seen
<1>5. ASSUME NEW f \in Envs, f = attempt PROVE Progress(f)'
  <2>1. op'[f] = "idle" BY <1>5
  <2> QED BY <2>1 DEF Progress
<1>6. \A f \in Envs : Progress(f)' BY <1>4, <1>5
<1> QED BY <1>2, <1>3, <1>6 DEF AllProgress, Still

(* The write of the patch in upper_dir. *)
LEMMA ApplyPatchKeeps == ASSUME Inv, ApplyPatch PROVE Inv'
<1>1. /\ pc = "patch" /\ attempt \in Envs /\ CowTypeOK /\ attempt \in 0 .. Tries
      /\ UNCHANGED <<lower, merged, op, todo, at, result, candidates, attempt, reports,
                     building, before>>
      /\ op[attempt] = "idle" /\ upper[attempt] = Emptied /\ OthersSeen /\ building = {}
      /\ reports[attempt] = NoReport /\ answer = "none"
      /\ Patch[1] \in Sources /\ Patch[1] \in Paths /\ Patch[2] \in Contents
  BY InvFacts DEF ApplyPatch, Working, Inv, CurrentOp, CurrentFiles, CurrentReport, BuildingInv
<1>2. PICK f \in {Patch[2], Absent, Torn} :
        /\ upper' = [upper EXCEPT ![attempt][Patch[1]] = f]
        /\ \/ f = Patch[2] /\ pc' = "sync" /\ answer' = "none"
           \/ pc' = "returned" /\ answer' = "error"
  BY <1>1 DEF ApplyPatch, Goes, Returns
<1> DEFINE d == [Emptied EXCEPT ![Patch[1]] = f]
<1>3. upper' = [upper EXCEPT ![attempt] = d] BY <1>1, <1>2 DEF CowTypeOK
<1>4. d \in [Paths -> File] BY <1>1, <1>2 DEF Emptied, File
<1>5. /\ CowTypeOK' /\ AllProgress' /\ upper'[attempt] = d
      /\ \A g \in Envs \ {attempt} : Still(g)
  BY <1>1, <1>3, <1>4, UpperWrite
<1>6. /\ Others' /\ Patch' = Patch /\ Repaired' = Repaired /\ (Chosen' <=> Chosen)
  BY <1>1, <1>5, OthersKept
<1>7. Types2' BY <1>1, <1>2, <1>5, TypesKept, InvFacts DEF Working, Answer
<1>8. HostInv' BY <1>1, <1>6 DEF Inv, HostInv
<1>9. CurrentOp' BY <1>1, <1>2 DEF CurrentOp, Committing
<1>10. CurrentReport' BY <1>1, <1>2 DEF CurrentReport, Committing
<1>11. f = Patch[2] => OnlyPatch' BY <1>1, <1>5, <1>6 DEF OnlyPatch, Emptied
<1>12. OthersSeen'
  BY <1>1, SourcesAssumption DEF OthersSeen, Seen, Emptied
<1>13. CurrentFiles' BY <1>1, <1>2, <1>11, <1>12 DEF CurrentFiles, Committing
<1>14. BuildingInv' /\ AnswerInv' BY <1>1, <1>2 DEF BuildingInv, AnswerInv
<1> QED BY <1>5, <1>6, <1>7, <1>8, <1>9, <1>10, <1>13, <1>14 DEF Inv

(* The removal of a rejected environment, and the next attempt or answer. *)
LEMMA PurgeKeeps == ASSUME Inv, Purge PROVE Inv'
<1>1. /\ pc = "purge" /\ attempt \in Envs /\ CowTypeOK /\ attempt \in 0 .. Tries
      /\ UNCHANGED <<lower, merged, op, todo, at, result, candidates, reports, building, before>>
      /\ op[attempt] = "idle" /\ merged[attempt] = Emptied /\ building = {}
      /\ Refused(attempt) /\ answer = "none" /\ Tries \in Nat /\ ~Chosen
  BY InvFacts DEF Purge, Working, Inv, CurrentOp, CurrentFiles, CurrentReport, BuildingInv,
                  Chosen, Refused
<1>2. PICK d \in PartlyRemoved(upper[attempt]) : upper' = [upper EXCEPT ![attempt] = d]
  BY DEF Purge
<1>3. d \in [Paths -> File] BY <1>1, <1>2 DEF PartlyRemoved, CowTypeOK, File
<1>4. /\ CowTypeOK' /\ AllProgress' /\ \A f \in Envs \ {attempt} : Still(f)
  BY <1>1, <1>2, <1>3, UpperWrite
<1>5. Tries' = Tries /\ \A e \in Envs : Refused(e)' <=> Refused(e)
  BY <1>1 DEF Tries, Refused, Acceptable
<1>6. CASE attempt < Tries
  <2>1. pc' = "make" /\ answer' = "none" /\ attempt' = attempt + 1
    BY <1>1, <1>6 DEF Purge, Goes
  <2>2. attempt' \in 0 .. Tries /\ attempt' \in Envs /\ attempt' > attempt /\ Envs \subseteq Nat
    BY <1>1, <1>6, <2>1, CandidateFacts, InvFacts, RetriesAssumption
  <2>3. /\ \A e \in Envs : e > attempt => Fresh(e)' /\ reports'[e] = NoReport
        /\ \A e \in Envs : e < attempt => op'[e] = "idle" /\ merged'[e] = Emptied /\ Refused(e)'
    <3>1. \A e \in Envs : e > attempt \/ e < attempt => e # attempt BY <2>2
    <3> QED BY <1>1, <1>4, <1>5, <3>1 DEF Inv, Others, Fresh, Still, Emptied
  <2>4. \A e \in Envs : e = attempt => op'[e] = "idle" /\ merged'[e] = Emptied /\ Refused(e)'
    <3>1. op' = op /\ merged' = merged BY <1>1
    <3> QED BY <1>1, <1>5, <3>1
  <2>5. \A e \in Envs : /\ e > attempt' => e > attempt
                        /\ e < attempt' => e = attempt \/ e < attempt
    BY <1>1, <2>1, <2>2
  <2>6. Others'
    <3> SUFFICES ASSUME NEW e \in Envs
                 PROVE  /\ e > attempt' => Fresh(e)' /\ reports'[e] = NoReport
                        /\ e < attempt' =>
                              op'[e] = "idle" /\ merged'[e] = Emptied /\ Refused(e)'
      BY DEF Others, Emptied
    <3>1. e > attempt' => Fresh(e)' /\ reports'[e] = NoReport BY <2>3, <2>5
    <3>2. e < attempt' => op'[e] = "idle" /\ merged'[e] = Emptied /\ Refused(e)'
      BY <2>3, <2>4, <2>5
    <3> QED BY <3>1, <3>2
  <2>7. Fresh(attempt') /\ reports[attempt'] = NoReport
    BY <2>2 DEF Inv, Others
  <2>8. op'[attempt'] = "new" /\ upper'[attempt'] = Emptied /\ merged'[attempt'] = Emptied
    BY <2>2, <2>3 DEF Fresh, Emptied
  <2>9. Types2'
    BY <1>1, <1>4, <2>1, <2>2, TypesKept, InvFacts DEF Working, Answer
  <2>10. ~Chosen' BY <1>1, <2>7 DEF Chosen, NoReport
  <2>11. HostInv' BY <1>1, <2>10 DEF Inv, HostInv
  <2>12. CurrentOp' BY <2>1, <2>8 DEF CurrentOp, Fresh, Committing, Emptied
  <2>13. CurrentReport' BY <1>1, <2>1, <2>7, <2>8 DEF CurrentReport, Committing
  <2>14. CurrentFiles' BY <2>1, <2>8 DEF CurrentFiles, Committing
  <2>15. BuildingInv' /\ AnswerInv' BY <1>1, <2>1 DEF BuildingInv, AnswerInv
  <2> QED BY <1>4, <2>6, <2>9, <2>11, <2>12, <2>13, <2>14, <2>15 DEF Inv
<1>7. CASE ~(attempt < Tries)
  <2>1. pc' = "returned" /\ answer' = "rejected" /\ attempt' = attempt /\ attempt = Tries
    BY <1>1, <1>7 DEF Purge, Returns
  <2>2. Others' /\ (Chosen' <=> Chosen) BY <1>1, <1>4, <2>1, OthersKept
  <2>3. Types2' BY <1>1, <1>4, <2>1, TypesKept, InvFacts DEF Working, Answer
  <2>4. HostInv' BY <1>1, <2>2 DEF Inv, HostInv
  <2>5. CurrentOp' BY <1>1, <2>1 DEF CurrentOp, Committing
  <2>6. CurrentReport' BY <1>1, <2>1 DEF CurrentReport, Committing
  <2>7. CurrentFiles' BY <1>1, <2>1 DEF CurrentFiles, Committing
  <2>8. BuildingInv' BY <1>1 DEF BuildingInv
  <2>9. AnswerInv' BY <1>1, <1>5, <2>1 DEF AnswerInv, Emptied
  <2> QED BY <1>4, <2>2, <2>3, <2>4, <2>5, <2>6, <2>7, <2>8, <2>9 DEF Inv
<1> QED BY <1>6, <1>7

-----------------------------------------------------------------------------
(* A build changes neither the sources nor what is seen of them. *)
LEMMA BuildsKeep == ASSUME Inv, NEW e \in Envs, ValidatorBuilds(e) PROVE Inv'
<1>1. /\ e = attempt /\ attempt \in Envs /\ building = {attempt} /\ CowTypeOK
      /\ pc \in {"validating", "abandoned"} /\ op[attempt] = "idle"
      /\ BuildWrite(attempt) /\ UNCHANGED <<pc, repairVars>>
  BY InvFacts DEF ValidatorBuilds, Inv, BuildingInv
<1>2. /\ CowTypeOK' /\ UNCHANGED <<upper, op, todo, at, result>>
      /\ \E x \in BuildWrites : \A p \in Paths \ {x[1]} :
            lower'[p] = lower[p] /\ merged'[attempt][p] = merged[attempt][p]
  BY <1>1, BuildFacts
<1>3. \A p \in Sources : lower'[p] = lower[p] /\ Seen(attempt, p)' = Seen(attempt, p)
  <2>1. \A p \in Sources : lower'[p] = lower[p] /\ merged'[attempt][p] = merged[attempt][p]
    BY <1>2, SourcesAssumption
  <2> QED BY <1>1, <2>1 DEF Seen, repairVars
<1>4. \A f \in Envs \ {attempt} : Still(f) BY <1>1, Frames
<1>5. UNCHANGED <<candidates, attempt, reports, building, before, answer>>
  BY <1>1 DEF repairVars
<1>6. /\ Others' /\ Patch' = Patch /\ Repaired' = Repaired /\ (Chosen' <=> Chosen)
      /\ \A f \in Envs \ {attempt} : Progress(f)'
  BY <1>1, <1>4, <1>5, OthersKept
<1>7. Patch[1] \in Sources BY <1>1, InvFacts
<1>8. Types2' BY <1>1, <1>2, <1>5, TypesKept, InvFacts DEF Inv, Types2, TypeOK, Working
<1>9. HostInv' BY <1>3, <1>5, <1>6 DEF Inv, HostInv
<1>10. /\ OnlyPatch' <=> OnlyPatch
       /\ OthersSeen' <=> OthersSeen
       /\ PatchSeen' <=> PatchSeen
  BY <1>2, <1>3, <1>5, <1>6, <1>7 DEF OnlyPatch, OthersSeen, PatchSeen
<1>11. CurrentOp' BY <1>1, <1>2, <1>5 DEF Inv, CurrentOp, Committing
<1>12. CurrentReport' BY <1>1, <1>2, <1>5 DEF Inv, CurrentReport, Committing
<1>13. CurrentFiles' BY <1>1, <1>2, <1>5, <1>10 DEF Inv, CurrentFiles, Committing
<1>14. BuildingInv' BY <1>1, <1>2, <1>5 DEF Inv, BuildingInv
<1>15. AnswerInv' BY <1>1, <1>5, InvFacts DEF AnswerInv
<1>16. AllProgress' BY <1>1, <1>2, <1>6 DEF AllProgress, Progress
<1> QED BY <1>6, <1>8, <1>9, <1>11, <1>12, <1>13, <1>14, <1>15, <1>16 DEF Inv

(* The operation of the current environment is the only one in progress. *)
LEMMA EngineIsCurrent ==
    ASSUME Inv, NEW e \in Envs, EngineStep(e)
    PROVE  /\ e = attempt /\ attempt \in Envs /\ Busy(attempt) /\ Progress(attempt)
           /\ building = {} /\ result[attempt] = "none"
           /\ pc \in {"mounting", "syncing", "committing", "unmounting", "abandoned"}
<1>1. CowTypeOK /\ Progress(e) BY InvFacts DEF Inv, AllProgress
<1>2. Busy(e) BY <1>1, EngineStepFacts
<1>3. ~(e < attempt) /\ ~(e > attempt) BY <1>2 DEF Inv, Others, Fresh, Busy
<1>4. e = attempt BY <1>3, InvFacts
<1>5. result[attempt] = "none" BY <1>1, <1>2, <1>4 DEF Busy, CowTypeOK
<1>6. pc \in {"mounting", "syncing", "committing", "unmounting", "abandoned"}
  <2>1. pc # "start" BY <1>4, InvFacts, RetriesAssumption DEF Inv, Types2
  <2> QED BY <1>2, <1>4, <2>1 DEF Inv, Types2, CurrentOp, Busy, Working, Fresh
<1> QED BY <1>1, <1>2, <1>4, <1>5, <1>6 DEF Inv, BuildingInv, Busy

(* The steps of the engine, under way for the current attempt. *)
LEMMA EngineKeeps == ASSUME Inv, NEW e \in Envs, Engine(e) PROVE Inv'
<1>1. /\ e = attempt /\ attempt \in Envs /\ EngineStep(attempt) /\ CowTypeOK
      /\ Progress(attempt) /\ Busy(attempt) /\ building = {} /\ result[attempt] = "none"
      /\ UNCHANGED <<pc, candidates, attempt, reports, building, before, answer>>
      /\ pc \in {"mounting", "syncing", "committing", "unmounting", "abandoned"}
      /\ answer = "none"
      /\ Patch[1] \in Sources /\ Patch[1] \in Paths /\ Patch[2] \in Contents
  BY EngineIsCurrent, InvFacts DEF Engine, repairVars
<1> DEFINE o == op[attempt]
           done == op'[attempt] = "idle" /\ result'[attempt] = "ok"
<1>2. /\ CowTypeOK' /\ Progress(attempt)'
      /\ \A p \in Paths : lower'[p] # lower[p] =>
            /\ o \in {"commit", "writing"} /\ upper[attempt][p] # Absent
            /\ lower'[p] \in {Torn, upper[attempt][p]}
      /\ \A p \in Paths : upper'[attempt][p] # upper[attempt][p] =>
            upper'[attempt][p] = Absent /\ lower[p] = upper[attempt][p] /\ UNCHANGED lower
  BY <1>1, EngineStepFacts
<1>3. \A f \in Envs \ {attempt} : Still(f) BY <1>1, Frames
<1>4. /\ Others' /\ Patch' = Patch /\ Repaired' = Repaired /\ (Chosen' <=> Chosen)
      /\ \A f \in Envs : Refused(f)' <=> Refused(f)
      /\ \A f \in Envs \ {attempt} : Progress(f)'
  BY <1>1, <1>3, OthersKept
<1>5. Types2' BY <1>1, <1>2, TypesKept, InvFacts DEF Working, Answer
<1>6. /\ \/ op'[attempt] = "idle" /\ result'[attempt] \in {"ok", "err"}
         \/ op'[attempt] = o /\ result'[attempt] = "none"
         \/ <<o, op'[attempt]>> \in {<<"clear", "mirror">>, <<"mirror", "overlay">>,
               <<"commit", "writing">>, <<"writing", "copyback">>,
               <<"copyback", "commit">>, <<"commit", "wipe">>} /\ result'[attempt] = "none"
      /\ result'[attempt] = "ok" => o \in {"overlay", "sync", "wipe", "unmount"}
  BY <1>1, StageOrder
<1>7. CurrentOp' BY <1>1, <1>6 DEF Inv, CurrentOp, Committing, Busy
<1>8. op'[attempt] \in Committing => o \in Committing BY <1>1, <1>6 DEF Committing, Busy
<1>9. CurrentReport' BY <1>1, <1>4, <1>8 DEF Inv, CurrentReport, Committing
<1>10. o \in Committing => OnlyPatch /\ Chosen BY <1>1 DEF Inv, CurrentFiles, CurrentReport
<1>11. HostInv'
  <2>1. ASSUME NEW p \in Sources, lower'[p] # before[p]
        PROVE Chosen /\ p = Patch[1] /\ lower'[p] \in {Patch[2], Torn}
    <3>1. CASE lower'[p] = lower[p] BY <2>1, <3>1 DEF Inv, HostInv
    <3>2. CASE lower'[p] # lower[p]
      <4>1. o \in {"commit", "writing"} /\ upper[attempt][p] # Absent
            /\ lower'[p] \in {Torn, upper[attempt][p]}
        BY <1>2, <3>2, SourcesAssumption
      <4> QED BY <1>10, <4>1, SourcesAssumption DEF Committing, OnlyPatch
    <3> QED BY <3>1, <3>2
  <2> QED BY <1>1, <1>4, <2>1 DEF Inv, HostInv
<1>12. op'[attempt] \in Committing => upper'[attempt] = upper[attempt]
  <2>1. WipeUpper(attempt) => op'[attempt] = "idle" BY <1>1, WipeFacts
  <2>2. ~WipeUpper(attempt) => UNCHANGED upper
    BY <1>1, ClearFacts, MirrorFacts, OverlayFacts, CommitFacts, CopyBackFacts DEF EngineStep
  <2> QED BY <2>1, <2>2 DEF Committing
<1>13. CurrentFiles'
  <2>1. op'[attempt] \in Committing => OnlyPatch'
    BY <1>1, <1>4, <1>8, <1>10, <1>12 DEF OnlyPatch
  <2>2. CASE pc = "mounting"
    <3>1. upper[attempt] = Emptied /\ o \in {"clear", "mirror", "overlay"}
      BY <1>1, <2>2 DEF Inv, CurrentFiles, CurrentOp, Busy
    <3>2. UNCHANGED <<lower, upper>>
      <4>1. ~WipeUpper(attempt) /\ ~CommitWrite(attempt) /\ ~CommitDone(attempt)
            /\ ~CopyBack(attempt) /\ ~(\E p \in Paths : CommitOpen(attempt, p))
        BY <3>1 DEF WipeUpper, CommitWrite, CommitDone, CopyBack, CommitOpen
      <4> QED BY <1>1, <4>1, ClearFacts, MirrorFacts, OverlayFacts DEF EngineStep
    <3>3. done => o = "overlay" BY <1>6, <3>1
    <3>4. done => \A p \in Paths : Seen(attempt, p)' = lower[p]
      BY <1>1, <3>1, <3>3, OkMeans DEF Emptied
    <3>5. done => OthersSeen' BY <1>1, <3>2, <3>4, SourcesAssumption DEF OthersSeen
    <3>6. op'[attempt] \notin Committing BY <1>8, <3>1 DEF Committing
    <3> QED BY <1>1, <2>2, <3>1, <3>2, <3>5, <3>6 DEF CurrentFiles, Emptied
  <2>3. CASE pc = "syncing"
    <3>1. o = "sync" /\ OnlyPatch /\ OthersSeen
      BY <1>1, <2>3 DEF Inv, CurrentFiles, CurrentOp, Busy
    <3>2. UNCHANGED <<lower, upper>>
      <4>1. ~WipeUpper(attempt) /\ ~CommitWrite(attempt) /\ ~CommitDone(attempt)
            /\ ~CopyBack(attempt) /\ ~(\E p \in Paths : CommitOpen(attempt, p))
        BY <3>1 DEF WipeUpper, CommitWrite, CommitDone, CopyBack, CommitOpen
      <4> QED BY <1>1, <4>1, ClearFacts, MirrorFacts, OverlayFacts DEF EngineStep
    <3>3. OnlyPatch' BY <1>1, <1>4, <3>1, <3>2 DEF OnlyPatch
    <3>4. OthersSeen'
      BY <1>1, <3>1, <3>2, SyncLeavesOthers, SourcesAssumption DEF OthersSeen
    <3>5. upper[attempt][Patch[1]] = Patch[2] /\ upper[attempt][Patch[1]] # Absent
      BY <1>1, <3>1, ContentsAssumption DEF OnlyPatch
    <3>6. done => Seen(attempt, Patch[1])' = Patch[2]
      <4> HAVE done
      <4>1. PICK q \in Paths : q = Patch[1] BY <1>1
      <4>2. PICK f \in Envs : f = attempt BY <1>1
      <4>3. op[f] = "sync" /\ upper[f][q] # Absent /\ result'[f] = "ok" /\ EngineStep(f)
            /\ Progress(f)
        BY <1>1, <3>1, <3>5, <4>1, <4>2
      <4>4. Seen(f, q)' = upper[f][q] BY <1>1, <4>3, OkMeans
      <4> QED BY <1>1, <3>5, <4>1, <4>2, <4>4, <1>4 DEF Seen
    <3>7. done => PatchSeen' BY <1>1, <1>4, <3>6 DEF PatchSeen, Seen
    <3>8. op'[attempt] \notin Committing BY <1>8, <3>1 DEF Committing
    <3> QED BY <1>1, <2>3, <3>3, <3>4, <3>7, <3>8 DEF CurrentFiles
  <2>4. CASE pc = "committing"
    <3>1. o \in Committing /\ OnlyPatch
      BY <1>1, <1>10, <2>4 DEF Inv, CurrentOp, Busy
    <3>2. upper[attempt][Patch[1]] = Patch[2] /\ Patch[2] # Absent
      BY <1>1, <3>1, ContentsAssumption DEF OnlyPatch
    <3>3. done => o = "wipe" BY <1>6, <3>1 DEF Committing
    <3>4. done => lower'[Patch[1]] = Patch[2] BY <1>1, <3>2, <3>3, OkMeans
    <3> QED BY <1>1, <1>4, <2>1, <2>4, <3>4 DEF CurrentFiles
  <2>5. CASE pc = "unmounting"
    <3>1. o = "unmount" BY <1>1, <2>5 DEF Inv, CurrentOp, Busy
    <3>2. done => merged'[attempt] = Emptied
      BY <1>1, <1>2, <3>1, OkMeans
    <3> QED BY <1>1, <2>1, <2>5, <3>2 DEF CurrentFiles, Emptied
  <2>6. CASE pc = "abandoned" BY <1>1, <2>1, <2>6 DEF CurrentFiles
  <2> QED BY <1>1, <2>2, <2>3, <2>4, <2>5, <2>6
<1>14. BuildingInv' /\ AnswerInv' BY <1>1 DEF BuildingInv, AnswerInv
<1>15. AllProgress' BY <1>1, <1>2, <1>4 DEF AllProgress
<1> QED BY <1>4, <1>5, <1>7, <1>9, <1>11, <1>13, <1>14, <1>15 DEF Inv

(* Every step keeps the invariant. *)
LEMMA NextInv == Inv /\ [Next]_vars => Inv'
<1> SUFFICES ASSUME Inv, [Next]_vars PROVE Inv' OBVIOUS
<1>1. CASE UNCHANGED vars
  <2>1. /\ UNCHANGED <<cowVars, candidates, attempt, reports, before>>
        /\ UNCHANGED <<pc, building, answer>>
    BY <1>1 DEF vars, repairVars
  <2>2. Types2' BY <2>1, Kept, TypesKept, InvFacts DEF Inv, Types2, TypeOK, Tries
  <2>3. CurrentOp' /\ CurrentReport' BY <2>1, Kept DEF Inv, CurrentOp, CurrentReport
  <2>4. CurrentFiles'
    <3>1. CurrentFiles BY DEF Inv
    <3> QED BY <2>1, <3>1, Kept DEF CurrentFiles, Committing
  <2>5. BuildingInv' BY <2>1, Kept DEF Inv, BuildingInv
  <2>6. AnswerInv'
    <3>1. Refused(attempt)' <=> Refused(attempt) BY <2>1 DEF Refused, Acceptable
    <3>2. Emptied' = Emptied BY DEF Emptied
    <3> QED BY <2>1, <3>1, <3>2, Kept DEF Inv, AnswerInv
  <2>7. Others' /\ HostInv' /\ AllProgress' BY <2>1, Kept
  <2> QED BY <2>2, <2>3, <2>4, <2>5, <2>6, <2>7 DEF Inv
<1>2. CASE RepairStep
  BY <1>2, BeginKeeps, MovesKeep, CallInitializeKeeps, CallsKeep, ApplyPatchKeeps, ValidateKeeps,
     PurgeKeeps DEF RepairStep
<1>3. CASE Abandon \/ OrphanBuildEnds BY <1>3, MovesKeep
<1>4. CASE \E e \in Envs : Engine(e) \/ ValidatorBuilds(e)
  BY <1>4, EngineKeeps, BuildsKeep
<1> QED BY <1>1, <1>2, <1>3, <1>4 DEF Next, Over

(* The inductive invariant holds in every reachable state. *)
THEOREM InvHolds == Spec => []Inv
  BY InitInv, NextInv, PTL DEF Spec

-----------------------------------------------------------------------------
(* The variables keep their types, and an answer is there exactly when the *)
(* repair has returned.                                                    *)
THEOREM RouterTypeCorrect == Spec => []TypeOK
  BY InvHolds, PTL DEF Inv, Types2

(* A repair reports success only on a host that builds, and that the     *)
(* accepted candidate has made of the one the repair was called on.       *)
THEOREM HealedBuilds == Spec => []HealedHostBuilds
<1>1. Inv => HealedHostBuilds
  <2> SUFFICES ASSUME Inv, answer = "healed"
        PROVE /\ Sub(lower) \in GoodSources
              /\ Sub(lower) = [Sub(before) EXCEPT ![Patch[1]] = Patch[2]]
    BY DEF HealedHostBuilds
  <2>1. Chosen /\ lower[Patch[1]] = Patch[2] BY DEF Inv, AnswerInv
  <2>2. \A p \in Sources : p # Patch[1] => lower[p] = before[p] BY DEF Inv, HostInv
  <2>3. Sub(lower) = Repaired BY <2>1, <2>2 DEF Sub, Repaired
  <2>4. Repaired = [Sub(before) EXCEPT ![Patch[1]] = Patch[2]] BY DEF Sub, Repaired
  <2> QED BY <2>1, <2>3, <2>4 DEF Inv, HostInv
<1> QED BY <1>1, InvHolds, PTL

(* Nothing but the accepted candidate reaches the host's sources. *)
THEOREM OnlyAcceptedReaches == Spec => []OnlyAcceptedPatchReachesHost
<1>1. Inv => OnlyAcceptedPatchReachesHost
  BY InvFacts DEF Inv, HostInv, Chosen, Acceptable, OnlyAcceptedPatchReachesHost
<1> QED BY <1>1, InvHolds, PTL

(* The answer accounts for every candidate that was to be tried. *)
THEOREM AnswerAccounts == Spec => []AnswerAccountsForCandidates
<1>1. Inv => AnswerAccountsForCandidates
  <2> SUFFICES ASSUME Inv PROVE AnswerAccountsForCandidates OBVIOUS
  <2>1. \A k \in 1 .. attempt : k \in Envs /\ (k # attempt => k < attempt) /\ k \in Nat
    BY InvFacts, CandidateFacts
  <2>2. \A k \in 1 .. attempt : k # attempt => Refused(k) /\ merged[k] = Emptied
    BY <2>1 DEF Inv, Others
  <2>3. answer = "rejected" => attempt = Tries /\ Refused(attempt) /\ merged[attempt] = Emptied
    BY DEF Inv, AnswerInv
  <2>4. answer = "healed" => Chosen BY DEF Inv, AnswerInv
  <2> QED BY <2>2, <2>3, <2>4 DEF AnswerAccountsForCandidates, Refused, Chosen, Acceptable
<1> QED BY <1>1, InvHolds, PTL

-----------------------------------------------------------------------------
(* The rest shows that the repair on the engine implements the contract     *)
(* that the command counts on.                                              *)

(* The host and the one unit as a caller sees them. *)
HostNow == Sub(lower)

OfferNow == IF pc = "start" THEN <<>> ELSE candidates

AcceptedNow == IF attempt > 0 /\ reports[attempt].done /\ Acceptable(reports[attempt])
               THEN attempt ELSE 0

VerdictNow ==
    CASE pc = "start"     -> "idle"
      [] pc = "returned"  -> answer
      [] pc = "abandoned" -> IF \A e \in Envs : op[e] \in {"new", "idle"}
                             THEN "ended" ELSE "abandoned"
      [] OTHER            -> "open"

(* The mapping, for the one unit of a repair. *)
LEMMA OneUnit ==
    /\ Offer = [u \in {1} |-> OfferNow]
    /\ AcceptedCandidate = [u \in {1} |-> AcceptedNow] /\ Verdict = [u \in {1} |-> VerdictNow]
  BY DEF Offer, AcceptedCandidate, Verdict, OfferNow, AcceptedNow, VerdictNow

(* The same in the next state. *)
LEMMA OneUnitNext ==
    /\ Offer' = [u \in {1} |-> OfferNow']
    /\ AcceptedCandidate' = [u \in {1} |-> AcceptedNow']
    /\ Verdict' = [u \in {1} |-> VerdictNow']
  BY DEF Offer, AcceptedCandidate, Verdict, OfferNow, AcceptedNow, VerdictNow

-----------------------------------------------------------------------------
(* The steps of the contract in terms of the one unit. *)
LEMMA Stutters ==
    ASSUME UNCHANGED <<HostNow, OfferNow, AcceptedNow, VerdictNow>>
    PROVE  UNCHANGED Contract!contractVars
  BY OneUnit, OneUnitNext DEF Contract!contractVars, HostNow

(* A step that only gives an answer, or ends an abandoned thread. *)
LEMMA Answered ==
    ASSUME UNCHANGED <<HostNow, OfferNow, AcceptedNow>>,
           \/ /\ VerdictNow = "open"
              /\ \/ VerdictNow' \in {"error", "abandoned", "ended"}
                 \/ VerdictNow' = "rejected" /\ AcceptedNow = 0
                 \/ /\ VerdictNow' = "healed" /\ AcceptedNow # 0
                    /\ HostNow[OfferNow[AcceptedNow][1]] = OfferNow[AcceptedNow][2]
           \/ VerdictNow = "abandoned" /\ VerdictNow' = "ended"
    PROVE  Contract!ContractNext
<1> DEFINE how == VerdictNow'
<1>1. Sub(lower)' = Sub(lower) /\ Offer' = Offer /\ AcceptedCandidate' = AcceptedCandidate
  BY OneUnit, OneUnitNext DEF HostNow
<1>2. Verdict' = [Verdict EXCEPT ![1] = how] BY OneUnit, OneUnitNext
<1>3. /\ Verdict[1] = VerdictNow /\ AcceptedCandidate[1] = AcceptedNow /\ Sub(lower) = HostNow
      /\ Offer[1] = OfferNow
  BY OneUnit DEF HostNow
<1>4. CASE VerdictNow = "open" /\ how = "error"
  BY <1>1, <1>2, <1>3, <1>4 DEF Contract!ContractNext, Contract!Proceed, Contract!Fail, Contract!Answers
<1>5. CASE VerdictNow = "open" /\ how \in {"abandoned", "ended"}
  BY <1>1, <1>2, <1>3, <1>5 DEF Contract!ContractNext, Contract!Abandon, Contract!Answers
<1>6. CASE VerdictNow = "open" /\ how = "rejected" /\ AcceptedNow = 0
  BY <1>1, <1>2, <1>3, <1>6 DEF Contract!ContractNext, Contract!Proceed, Contract!Refuse, Contract!Answers
<1>7. CASE /\ VerdictNow = "open" /\ how = "healed" /\ AcceptedNow # 0
           /\ HostNow[OfferNow[AcceptedNow][1]] = OfferNow[AcceptedNow][2]
  BY <1>1, <1>2, <1>3, <1>7 DEF Contract!ContractNext, Contract!Proceed, Contract!Heal, Contract!Answers,
     Contract!Accepted
<1>8. CASE VerdictNow = "abandoned" /\ how = "ended"
  BY <1>1, <1>2, <1>3, <1>8 DEF Contract!ContractNext, Contract!Settle, Contract!Answers
<1> QED BY <1>4, <1>5, <1>6, <1>7, <1>8

(* A step that begins a repair. *)
LEMMA Called ==
    ASSUME VerdictNow = "idle", UNCHANGED <<HostNow, AcceptedNow>>,
           OfferNow' \in CandidateLists,
           VerdictNow' = IF Contract!Tried(OfferNow') = 0 THEN "no_candidates" ELSE "open"
    PROVE  Contract!ContractNext
<1>1. Sub(lower)' = Sub(lower) /\ AcceptedCandidate' = AcceptedCandidate /\ Verdict[1] = VerdictNow
  BY OneUnit, OneUnitNext DEF HostNow
<1>2. PICK list \in CandidateLists : list = OfferNow' OBVIOUS
<1>3. Offer' = [Offer EXCEPT ![1] = list] BY <1>2, OneUnit, OneUnitNext
<1>4. Verdict' = [Verdict EXCEPT ![1] = IF Contract!Tried(list) = 0 THEN "no_candidates" ELSE "open"]
  BY <1>2, OneUnit, OneUnitNext
<1>5. Contract!Call(1) BY <1>1, <1>3, <1>4 DEF Contract!Call
<1> QED BY <1>5 DEF Contract!ContractNext

(* A step that accepts a candidate. *)
LEMMA WasAccepted ==
    ASSUME VerdictNow = "open", AcceptedNow = 0, UNCHANGED <<HostNow, OfferNow, VerdictNow>>,
           AcceptedNow' \in 1 .. Contract!Tried(OfferNow),
           Contract!BuildsOn(Contract!With(HostNow, OfferNow[AcceptedNow']), 1)
    PROVE  Contract!ContractNext
<1>1. Sub(lower)' = Sub(lower) /\ Offer' = Offer /\ Verdict' = Verdict
  BY OneUnit, OneUnitNext DEF HostNow
<1>2. Verdict[1] = "open" /\ AcceptedCandidate[1] = 0 /\ Sub(lower) = HostNow /\ Offer[1] = OfferNow
  BY OneUnit DEF HostNow
<1>3. AcceptedCandidate' = [AcceptedCandidate EXCEPT ![1] = AcceptedNow'] BY OneUnit, OneUnitNext
<1>4. Contract!Accept(1) BY <1>1, <1>2, <1>3 DEF Contract!Accept
<1> QED BY <1>4 DEF Contract!ContractNext, Contract!Proceed

(* A step that tears or writes the file of the accepted candidate. *)
LEMMA Wrote ==
    ASSUME VerdictNow \in {"open", "abandoned"}, AcceptedNow # 0,
           UNCHANGED <<OfferNow, AcceptedNow, VerdictNow>>,
           NEW file, file = OfferNow[AcceptedNow][1],
           NEW content, HostNow' = [HostNow EXCEPT ![file] = content],
           \/ content = Torn
           \/ content = OfferNow[AcceptedNow][2] /\ HostNow[file] = Torn
    PROVE  Contract!ContractNext
<1>1. Offer' = Offer /\ AcceptedCandidate' = AcceptedCandidate /\ Verdict' = Verdict
  BY OneUnit, OneUnitNext
<1>2. /\ Verdict[1] = VerdictNow /\ AcceptedCandidate[1] = AcceptedNow /\ Sub(lower) = HostNow
      /\ Offer[1] = OfferNow
  BY OneUnit DEF HostNow
<1>3. Sub(lower)' = [HostNow EXCEPT ![file] = content] BY DEF HostNow
<1>4. Contract!Writing(1) BY <1>2 DEF Contract!Writing
<1>5. Contract!Accepted(1) = OfferNow[AcceptedNow] BY <1>2 DEF Contract!Accepted
<1>6. CASE content = Torn
  <2>1. Contract!Tear(1)
    BY <1>1, <1>2, <1>3, <1>4, <1>5, <1>6 DEF Contract!Tear, Contract!With
  <2> QED BY <2>1 DEF Contract!ContractNext, Contract!Proceed
<1>7. CASE content = OfferNow[AcceptedNow][2] /\ HostNow[file] = Torn
  <2>1. Contract!Apply(1)
    BY <1>1, <1>2, <1>3, <1>4, <1>5, <1>7 DEF Contract!Apply, Contract!With
  <2> QED BY <2>1 DEF Contract!ContractNext, Contract!Proceed
<1> QED BY <1>6, <1>7

-----------------------------------------------------------------------------
(* How the state of the repair is seen. *)
LEMMA SeenAccepted ==
    ASSUME Inv
    PROVE  /\ AcceptedNow = IF Chosen THEN attempt ELSE 0
           /\ Chosen => AcceptedNow # 0
           /\ attempt \in Nat
<1>1. attempt # 0 <=> attempt \in Envs BY InvFacts
<1>2. attempt \in Nat BY InvFacts
<1> QED BY <1>1, <1>2 DEF AcceptedNow, Chosen

(* The verdict that is seen at each place of repair. *)
LEMMA SeenVerdict ==
    ASSUME Inv
    PROVE  /\ pc \in Working => VerdictNow = "open"
           /\ pc = "returned" => VerdictNow = answer
           /\ pc # "start" => OfferNow = candidates
           /\ pc = "abandoned" /\ Busy(attempt) => VerdictNow = "abandoned"
<1>1. pc = "abandoned" => attempt \in Envs BY InvFacts
<1> QED BY <1>1 DEF VerdictNow, OfferNow, Working, Busy

(* The call of repair. *)
LEMMA BeginsRefine == ASSUME Inv, Inv', Begin PROVE Contract!ContractNext
<1>1. /\ pc = "start" /\ UNCHANGED <<lower, candidates, reports>>
      /\ answer = "none" /\ attempt = 0 /\ candidates \in CandidateLists
  BY InvFacts DEF Begin, Inv, Types2, cowVars, files
<1>2. HostNow' = HostNow /\ VerdictNow = "idle" /\ AcceptedNow = 0
  BY <1>1 DEF HostNow, Sub, VerdictNow, AcceptedNow
<1>3. OfferNow' = candidates BY <1>1 DEF OfferNow, Begin, Goes, Returns
<1>4. Contract!Tried(candidates) = Tries BY DEF Contract!Tried, Tries
<1>5. AcceptedNow' = 0
  <2>1. CASE Tries = 0 BY <1>1, <2>1 DEF Begin, AcceptedNow
  <2>2. CASE Tries # 0
    <3>1. attempt' = 1 /\ pc' = "make" BY <2>2 DEF Begin, Goes
    <3>2. 1 \in Envs BY <1>1, <2>2, CandidateFacts
    <3>3. reports'[1] = NoReport BY <3>1, <3>2 DEF Inv, CurrentReport
    <3> QED BY <3>1, <3>3 DEF AcceptedNow, NoReport
  <2> QED BY <2>1, <2>2
<1>6. VerdictNow' = IF Tries = 0 THEN "no_candidates" ELSE "open"
  BY DEF Begin, Goes, Returns, VerdictNow
<1>7. OfferNow' \in CandidateLists BY <1>1, <1>3
<1> QED BY <1>2, <1>3, <1>4, <1>5, <1>6, <1>7, Called

(* Steps that change neither the host nor who is accepted. *)
LEMMA MovesRefine ==
    ASSUME Inv, Inv', pc \in Working, UNCHANGED <<lower, candidates, attempt, reports>>,
           \/ pc' \in Working
           \/ pc' = "returned" /\ answer' = "error"
           \/ pc' = "abandoned"
           \/ pc' = "returned" /\ answer' = "rejected" /\ ~Chosen
           \/ pc' = "returned" /\ answer' = "healed" /\ Chosen /\ lower[Patch[1]] = Patch[2]
    PROVE  [Contract!ContractNext]_(Contract!contractVars)
<1>1. HostNow' = HostNow /\ AcceptedNow' = AcceptedNow
  BY DEF HostNow, Sub, AcceptedNow, Acceptable
<1>2. OfferNow = candidates /\ OfferNow' = candidates BY DEF OfferNow, Working
<1>3. VerdictNow = "open" BY SeenVerdict
<1>4. CASE pc' \in Working
  <2>1. VerdictNow' = "open" BY <1>4 DEF VerdictNow, Working
  <2> QED BY <1>1, <1>2, <1>3, <2>1, Stutters
<1>5. CASE pc' = "returned"
  <2>1. VerdictNow' = answer' BY <1>5 DEF VerdictNow
  <2>2. ~Chosen => AcceptedNow = 0 BY SeenAccepted
  <2>3. Chosen => AcceptedNow # 0 /\ HostNow[OfferNow[AcceptedNow][1]] = lower[Patch[1]]
                  /\ OfferNow[AcceptedNow] = Patch
    BY <1>2, SeenAccepted, InvFacts DEF Chosen, HostNow, Sub, Patch
  <2> QED BY <1>1, <1>2, <1>3, <1>5, <2>1, <2>2, <2>3, Answered DEF Working
<1>6. CASE pc' = "abandoned"
  <2>1. VerdictNow' \in {"abandoned", "ended"} BY <1>6 DEF VerdictNow
  <2> QED BY <1>1, <1>2, <1>3, <2>1, Answered
<1> QED BY <1>4, <1>5, <1>6

(* The steps of repair, and the caller that gives up. *)
LEMMA RepairStepsRefine ==
    ASSUME Inv, Inv', RepairStep \/ Abandon
    PROVE  [Contract!ContractNext]_(Contract!contractVars)
<1> USE DEF cowVars, files, Working
<1>1. CASE Begin BY <1>1, BeginsRefine
<1>2. CASE MakeEnv BY <1>2, MovesRefine DEF MakeEnv, Goes, Returns
<1>3. CASE CallInitialize
  BY <1>3, MovesRefine DEF CallInitialize, Initialize, OnOk, Goes, Returns
<1>4. CASE CallMount \/ CallSync \/ CallCommit \/ CallTeardown
  BY <1>4, MovesRefine DEF CallMount, CallSync, CallCommit, CallTeardown, StartMount, StartSync,
     StartCommit, StartTeardown, Starts, Goes
<1>5. CASE MountReturned \/ SyncReturned \/ TeardownReturned
  BY <1>5, MovesRefine DEF MountReturned, SyncReturned, TeardownReturned, Returned, OnOk, Goes, Returns
<1>6. CASE ApplyPatch BY <1>6, MovesRefine DEF ApplyPatch, Goes, Returns
<1>7. CASE CallValidate BY <1>7, MovesRefine DEF CallValidate, Goes
<1>8. CASE CommitReturned
  <2>1. pc = "committing" /\ op[attempt] = "idle" /\ UNCHANGED <<lower, candidates, attempt, reports>>
    BY <1>8 DEF CommitReturned
  <2>2. attempt \in Envs BY <2>1, InvFacts
  <2>3. Chosen /\ (result[attempt] = "ok" => lower[Patch[1]] = Patch[2])
    BY <2>1, <2>2 DEF Inv, CurrentReport, CurrentFiles
  <2> QED BY <1>8, <2>1, <2>3, MovesRefine DEF CommitReturned, Returns
<1>9. CASE ValidateReturned
  <2>1. /\ pc = "validating" /\ UNCHANGED <<lower, candidates, attempt>>
        /\ attempt \in Envs /\ reports[attempt] = NoReport /\ ~Chosen /\ Tries \in Nat
        /\ attempt \in 0 .. Tries /\ attempt # 0
    BY <1>9, InvFacts DEF ValidateReturned, Inv, CurrentReport, Chosen, NoReport
  <2>2. CASE UNCHANGED reports /\ Returns("error")
    BY <2>1, <2>2, MovesRefine DEF Returns
  <2>3. ASSUME NEW r \in Report,
               r.success => [p \in Sources |-> Seen(attempt, p)] \in GoodSources,
               reports' = [reports EXCEPT ![attempt] = r],
               IF Acceptable(r) THEN Goes("commit") ELSE Goes("teardown")
        PROVE  [Contract!ContractNext]_(Contract!contractVars)
    <3>1. reports'[attempt] = r /\ r.done BY <2>1, <2>3, InvFacts DEF Report
    <3>2. AcceptedNow' = IF Acceptable(r) THEN attempt ELSE 0
      BY <2>1, <3>1, SeenAccepted DEF AcceptedNow, Acceptable
    <3>3. AcceptedNow = 0 BY <2>1, SeenAccepted
    <3>4. VerdictNow = "open" /\ VerdictNow' = "open" BY <2>1, <2>3 DEF VerdictNow, Goes
    <3>5. OfferNow = candidates /\ OfferNow' = candidates BY <2>1, <2>3 DEF OfferNow, Goes
    <3>6. HostNow' = HostNow BY <2>1 DEF HostNow, Sub
    <3>7. CASE ~Acceptable(r) BY <3>2, <3>3, <3>4, <3>5, <3>6, <3>7, Stutters
    <3>8. CASE Acceptable(r)
      <4>1. Repaired \in GoodSources BY <2>1, <2>3, <3>8, SeenIsRepaired DEF Acceptable
      <4>2. \A p \in Sources : lower[p] = before[p] BY <2>1 DEF Inv, HostInv
      <4>3. Contract!With(HostNow, Patch) = Repaired
        BY <4>2 DEF Contract!With, HostNow, Sub, Repaired
      <4>5. Contract!BuildsOn(Repaired, 1) BY <4>1 DEF Contract!BuildsOn, Repaired
      <4>4. attempt \in 1 .. Contract!Tried(candidates)
        BY <2>1, InvFacts DEF Contract!Tried, Tries
      <4> QED BY <3>2, <3>3, <3>4, <3>5, <3>6, <3>8, <4>3, <4>4, <4>5, WasAccepted DEF Patch
    <3> QED BY <3>7, <3>8
  <2> QED BY <1>9, <2>2, <2>3 DEF ValidateReturned
<1>10. CASE Purge
  <2>1. /\ pc = "purge" /\ UNCHANGED <<lower, candidates, reports>> /\ attempt \in Envs
        /\ ~Chosen /\ answer = "none" /\ attempt \in Nat
    BY <1>10, InvFacts DEF Purge, Inv, CurrentReport, Refused, Chosen
  <2>2. CASE attempt < Tries
    <3>1. pc' = "make" /\ attempt' = attempt + 1 BY <1>10, <2>2 DEF Purge, Goes
    <3>2. AcceptedNow = 0 BY <2>1, SeenAccepted
    <3>3. AcceptedNow' = 0
      <4>1. attempt' \in Envs
        BY <2>1, <2>2, <3>1, InvFacts, CandidateFacts, RetriesAssumption
      <4>2. reports'[attempt'] = NoReport BY <3>1, <4>1 DEF Inv, CurrentReport
      <4> QED BY <4>2 DEF AcceptedNow, NoReport
    <3>4. VerdictNow = "open" /\ VerdictNow' = "open" BY <2>1, <3>1 DEF VerdictNow
    <3>5. OfferNow' = OfferNow BY <2>1, <3>1 DEF OfferNow
    <3>6. HostNow' = HostNow BY <2>1 DEF HostNow, Sub
    <3> QED BY <3>2, <3>3, <3>4, <3>5, <3>6, Stutters
  <2>3. CASE ~(attempt < Tries)
    BY <1>10, <2>1, <2>3, MovesRefine DEF Purge, Returns
  <2> QED BY <2>2, <2>3
<1>11. CASE Abandon BY <1>11, MovesRefine DEF Abandon, repairVars
<1> QED BY <1>1, <1>2, <1>3, <1>4, <1>5, <1>6, <1>7, <1>8, <1>9, <1>10, <1>11 DEF RepairStep

(* A step of an operation writes the file of a patch in two parts, and the *)
(* step that ends it writes nothing.                                       *)
LEMMA WritesInTwo ==
    ASSUME CowTypeOK, NEW e \in Envs, Progress(e), EngineStep(e), NEW p \in Paths,
           lower'[p] # lower[p]
    PROVE  /\ lower'[p] = Torn \/ lower[p] = Torn
           /\ op'[e] \notin {"new", "idle"}
<1>1. op[e] \in {"commit", "writing"} BY EngineStepFacts
<1>2. ASSUME NEW q \in Paths, CommitOpen(e, q)
      PROVE  lower'[p] = Torn /\ op'[e] = "writing"
  <2>1. lower' = [lower EXCEPT ![q] = Torn] /\ op' = [op EXCEPT ![e] = "writing"]
    BY <1>2 DEF CommitOpen
  <2> QED BY <2>1 DEF CowTypeOK
<1>3. ASSUME CommitWrite(e) PROVE lower[p] = Torn /\ op'[e] = "copyback"
  <2>1. /\ lower' = [lower EXCEPT ![at[e]] = upper[e][at[e]]]
        /\ op' = [op EXCEPT ![e] = "copyback"] /\ op[e] = "writing"
    BY <1>3 DEF CommitWrite
  <2> QED BY <2>1 DEF CowTypeOK, Progress
<1>4. CommitWrite(e) \/ \E q \in Paths : CommitOpen(e, q)
  <2>1. ~CommitDone(e) BY DEF CommitDone, files
  <2> QED BY <1>1, <2>1 DEF EngineStep, ClearMerged, MirrorFile, OverlayFile, MirrorDone, OverlayDone,
                            CopyBack, WipeUpper, Unmount
<1> QED BY <1>2, <1>3, <1>4

(* A step of the engine writes the host only while it commits. *)
LEMMA EngineRefines ==
    ASSUME Inv, Inv', NEW e \in Envs, Engine(e)
    PROVE  [Contract!ContractNext]_(Contract!contractVars)
<1>1. /\ e = attempt /\ EngineStep(e) /\ CowTypeOK /\ Progress(e) /\ Busy(e)
      /\ UNCHANGED <<pc, candidates, attempt, reports, answer>>
      /\ pc \in {"mounting", "syncing", "committing", "unmounting", "abandoned"}
      /\ Patch[1] \in Sources /\ Patch[1] \in Paths
  BY EngineIsCurrent, InvFacts DEF Engine, repairVars
<1>2. AcceptedNow' = AcceptedNow BY <1>1 DEF AcceptedNow, Acceptable
<1>3. OfferNow = candidates /\ OfferNow' = candidates BY <1>1 DEF OfferNow
<1>4. VerdictNow \in {"open", "abandoned"} /\ (VerdictNow = "open" => VerdictNow' = "open")
      /\ (VerdictNow = "abandoned" => pc = "abandoned")
  BY <1>1, SeenVerdict DEF VerdictNow, Working
<1>5. VerdictNow = "abandoned" => VerdictNow' \in {"abandoned", "ended"}
  BY <1>1, <1>4 DEF VerdictNow
<1>6. CASE \A p \in Sources : lower'[p] = lower[p]
  <2>1. HostNow' = HostNow BY <1>6 DEF HostNow, Sub
  <2>2. CASE VerdictNow' = VerdictNow BY <1>2, <1>3, <2>1, <2>2, Stutters
  <2>3. CASE VerdictNow' # VerdictNow BY <1>2, <1>3, <1>4, <1>5, <2>1, <2>3, Answered
  <2> QED BY <2>2, <2>3
<1>7. CASE \E p \in Sources : lower'[p] # lower[p]
  <2>1. PICK p \in Sources : lower'[p] # lower[p] BY <1>7
  <2>2. p \in Paths BY SourcesAssumption
  <2>3. /\ op[e] \in {"commit", "writing"} /\ upper[e][p] # Absent
        /\ lower'[p] \in {Torn, upper[e][p]}
        /\ lower'[p] = Torn \/ lower[p] = Torn
        /\ op'[e] \notin {"new", "idle"}
    BY <1>1, <2>1, <2>2, EngineStepFacts, WritesInTwo
  <2>4. OnlyPatch /\ Chosen
    BY <1>1, <2>3 DEF Inv, CurrentFiles, CurrentReport, Committing
  <2>5. p = Patch[1] /\ upper[e][p] = Patch[2] BY <1>1, <2>2, <2>3, <2>4 DEF OnlyPatch
  <2>6. \A q \in Sources \ {p} : lower'[q] = lower[q]
    <3> SUFFICES ASSUME NEW q \in Sources \ {p}, lower'[q] # lower[q] PROVE FALSE OBVIOUS
    <3>1. q \in Paths BY SourcesAssumption
    <3>2. upper[e][q] # Absent BY <1>1, <3>1, EngineStepFacts
    <3> QED BY <1>1, <2>4, <2>5, <3>1, <3>2 DEF OnlyPatch
  <2>7. HostNow' = [HostNow EXCEPT ![p] = lower'[p]] BY <2>6 DEF HostNow, Sub
  <2>8. AcceptedNow # 0 /\ AcceptedNow = attempt /\ OfferNow[AcceptedNow] = Patch
    BY <1>3, <2>4, SeenAccepted DEF Patch
  <2>9. VerdictNow' = VerdictNow
    BY <1>1, <1>4, <2>3 DEF VerdictNow
  <2>10. HostNow[p] = lower[p] BY DEF HostNow, Sub
  <2>11. PICK content : content = lower'[p] OBVIOUS
  <2>12. \/ content = Torn
         \/ content = OfferNow[AcceptedNow][2] /\ HostNow[p] = Torn
    BY <2>3, <2>5, <2>8, <2>10, <2>11
  <2>13. p = OfferNow[AcceptedNow][1] BY <2>5, <2>8
  <2>14. HostNow' = [HostNow EXCEPT ![p] = content] BY <2>7, <2>11
  <2>15. OfferNow' = OfferNow BY <1>3
  <2> QED BY <1>2, <1>4, <2>8, <2>9, <2>12, <2>13, <2>14, <2>15, Wrote
<1> QED BY <1>6, <1>7

(* Builds leave the source files alone. *)
LEMMA BuildsRefine ==
    ASSUME Inv, NEW e \in Envs, ValidatorBuilds(e)
    PROVE  UNCHANGED Contract!contractVars
<1>1. /\ UNCHANGED <<pc, candidates, attempt, reports, answer, op>> /\ CowTypeOK
      /\ \E x \in BuildWrites : \A p \in Paths \ {x[1]} : lower'[p] = lower[p]
  BY BuildFacts, InvFacts DEF ValidatorBuilds, repairVars
<1>2. \A p \in Sources : lower'[p] = lower[p] BY <1>1, SourcesAssumption
<1>3. HostNow' = HostNow BY <1>2 DEF HostNow, Sub
<1>4. UNCHANGED <<OfferNow, AcceptedNow, VerdictNow>>
  BY <1>1 DEF OfferNow, AcceptedNow, VerdictNow, Acceptable
<1> QED BY <1>3, <1>4, Stutters

(* A build nobody waits for, and stuttering. *)
LEMMA RestRefines ==
    ASSUME Inv, OrphanBuildEnds \/ UNCHANGED vars
    PROVE  UNCHANGED Contract!contractVars
<1>1. UNCHANGED <<lower, op, pc, candidates, attempt, reports, answer>>
  BY DEF OrphanBuildEnds, vars, repairVars, cowVars, files
<1>2. UNCHANGED <<HostNow, OfferNow, AcceptedNow, VerdictNow>>
  BY <1>1 DEF HostNow, Sub, OfferNow, AcceptedNow, VerdictNow, Acceptable
<1> QED BY <1>2, Stutters

(* The initial states are those of the contract. *)
LEMMA InitRefines == Init => Contract!ContractInit
<1> SUFFICES ASSUME Init PROVE Contract!ContractInit OBVIOUS
<1>1. lower \in InitialLower /\ pc = "start" /\ attempt = 0 BY DEF Init, CowInit
<1>2. HostNow \in {Sub(l) : l \in InitialLower} BY <1>1 DEF HostNow
<1>3. OfferNow = <<>> /\ AcceptedNow = 0 /\ VerdictNow = "idle"
  BY <1>1 DEF OfferNow, AcceptedNow, VerdictNow
<1> QED BY <1>2, <1>3, OneUnit DEF Contract!ContractInit, HostNow

(* Every step is a step of the contract or leaves it alone. *)
LEMMA NextRefines ==
    Inv /\ Inv' /\ [Next]_vars => [Contract!ContractNext]_(Contract!contractVars)
<1> SUFFICES ASSUME Inv, Inv', [Next]_vars
             PROVE  [Contract!ContractNext]_(Contract!contractVars)
  OBVIOUS
<1>1. CASE RepairStep \/ Abandon BY <1>1, RepairStepsRefine
<1>2. CASE \E e \in Envs : Engine(e) \/ ValidatorBuilds(e)
  BY <1>2, EngineRefines, BuildsRefine
<1>3. CASE OrphanBuildEnds \/ UNCHANGED vars BY <1>3, RestRefines
<1> QED BY <1>1, <1>2, <1>3 DEF Next, Over

(* A repair implements its contract. *)
THEOREM RepairKeepsContract == Spec => ImplementsContract
<1>1. Init => Contract!ContractInit BY InitRefines
<1>2. Inv /\ Inv' /\ [Next]_vars => [Contract!ContractNext]_(Contract!contractVars)
  BY NextRefines
<1> QED BY <1>1, <1>2, InvHolds, PTL DEF Spec, ImplementsContract, Contract!ContractSpec

-----------------------------------------------------------------------------
(* How many steps a repair can take, those of the operations it starts       *)
(* included: at each place, what is left of the attempt after the operation  *)
(* in progress...                                                            *)
PlaceStepsLeft ==
    [start |-> 1, make |-> 6 * FileCount + 18, initialize |-> 6 * FileCount + 17,
     mount |-> 6 * FileCount + 16, mounting |-> 4 * FileCount + 12,
     patch |-> 4 * FileCount + 11, sync |-> 4 * FileCount + 10,
     syncing |-> 3 * FileCount + 8, validate |-> 3 * FileCount + 7,
     validating |-> 3 * FileCount + 5, commit |-> 3 * FileCount + 4, committing |-> 1,
     teardown |-> 4, unmounting |-> 2, purge |-> 1, returned |-> 0, abandoned |-> 0][pc]

OpInProgress == IF attempt = 0 THEN 0 ELSE OpStepsLeft(attempt)

ValidationLeft == IF building = {} THEN 0 ELSE 1

AttemptStepsLeft == PlaceStepsLeft + OpInProgress + ValidationLeft

(* ... and the attempts to come. *)
StepsPerAttempt == 6 * FileCount + 19

RepairStepsLeft == (Tries - attempt) * StepsPerAttempt + AttemptStepsLeft

(* It is a number. *)
LEMMA RepairStepsNat ==
    ASSUME Inv
    PROVE  /\ RepairStepsLeft \in Nat /\ FileCount \in Nat /\ Tries - attempt \in Nat
           /\ PlaceStepsLeft \in Nat /\ OpInProgress \in Nat /\ ValidationLeft \in {0, 1}
<1>1. FileCount \in Nat BY PathsAssumption, FS_CardinalityType DEF FileCount
<1>2. Tries - attempt \in Nat /\ CowTypeOK /\ (attempt = 0 \/ attempt \in Envs) BY InvFacts
<1>3. pc \in Working \union {"start", "returned", "abandoned"} BY DEF Inv, Types2
<1> HIDE DEF FileCount
<1>4. PlaceStepsLeft \in Nat BY <1>1, <1>3 DEF PlaceStepsLeft, Working
<1>5. OpInProgress \in Nat BY <1>2, OpStepsNat DEF OpInProgress
<1>6. ValidationLeft \in {0, 1} BY DEF ValidationLeft
<1>7. StepsPerAttempt \in Nat BY <1>1 DEF StepsPerAttempt
<1>8. (Tries - attempt) * StepsPerAttempt \in Nat BY <1>2, <1>7
<1> QED BY <1>1, <1>2, <1>4, <1>5, <1>6, <1>8 DEF RepairStepsLeft, AttemptStepsLeft

(* Within an attempt it is enough to look at the attempt. *)
LEMMA SameAttempt ==
    ASSUME Inv, UNCHANGED <<candidates, attempt>>,
           AttemptStepsLeft' \in Nat, AttemptStepsLeft' < AttemptStepsLeft
    PROVE  RepairStepsLeft' < RepairStepsLeft
<1>1. Tries' = Tries BY DEF Tries
<1>2. StepsPerAttempt' = StepsPerAttempt BY DEF StepsPerAttempt, FileCount
<1>3. (Tries - attempt) * StepsPerAttempt \in Nat
  <2>1. FileCount \in Nat /\ Tries - attempt \in Nat BY RepairStepsNat
  <2>2. StepsPerAttempt \in Nat BY <2>1 DEF StepsPerAttempt
  <2> QED BY <2>1, <2>2
<1>4. AttemptStepsLeft \in Nat BY RepairStepsNat DEF AttemptStepsLeft
<1> QED BY <1>1, <1>2, <1>3, <1>4 DEF RepairStepsLeft

(* A step that starts no operation is one of those left at its place, or the *)
(* end of a validation.                                                      *)
LEMMA MovesShrink ==
    ASSUME Inv, MakeEnv \/ MountReturned \/ ApplyPatch \/ SyncReturned \/ CallValidate
                  \/ ValidateReturned \/ CommitReturned \/ TeardownReturned \/ Abandon
                  \/ OrphanBuildEnds
    PROVE  RepairStepsLeft' < RepairStepsLeft
<1>1. UNCHANGED <<op, todo, candidates, attempt>>
  BY DEF MakeEnv, MountReturned, ApplyPatch, SyncReturned, CallValidate, ValidateReturned,
         CommitReturned, TeardownReturned, Abandon, OrphanBuildEnds, Returned, cowVars, repairVars
<1>2. OpInProgress' = OpInProgress /\ FileCount' = FileCount
  BY <1>1 DEF OpInProgress, OpStepsLeft, FilesLeft, FileCount
<1>3. /\ FileCount \in Nat /\ OpInProgress \in Nat /\ ValidationLeft \in {0, 1}
      /\ ValidationLeft' \in {0, 1}
      /\ building' = building => ValidationLeft' = ValidationLeft
  BY RepairStepsNat DEF ValidationLeft
<1> HIDE DEF FileCount, OpInProgress
<1>4. AttemptStepsLeft' \in Nat /\ AttemptStepsLeft' < AttemptStepsLeft
  <2> USE <1>2, <1>3 DEF AttemptStepsLeft, PlaceStepsLeft, Goes, Returns, OnOk
  <2>1. CASE MakeEnv BY <2>1 DEF MakeEnv
  <2>2. CASE MountReturned BY <2>2 DEF MountReturned, Returned
  <2>3. CASE ApplyPatch BY <2>3 DEF ApplyPatch
  <2>4. CASE SyncReturned BY <2>4 DEF SyncReturned, Returned
  <2>5. CASE CallValidate
    <3>1. BuildingInv /\ pc = "validate" BY <2>5 DEF CallValidate, Inv
    <3>2. ValidationLeft = 0 BY <3>1 DEF BuildingInv, ValidationLeft
    <3>3. pc = "validate" /\ pc' = "validating" BY <2>5 DEF CallValidate
    <3>4. AttemptStepsLeft = 3 * FileCount + 7 + OpInProgress BY <3>2, <3>3
    <3>5. AttemptStepsLeft' = 3 * FileCount + 5 + OpInProgress + ValidationLeft' BY <3>3
    <3> QED BY <3>4, <3>5
  <2>6. CASE ValidateReturned
    <3>1. ValidationLeft' = 0 BY <2>6 DEF ValidateReturned, Inv, BuildingInv, ValidationLeft
    <3>2. pc = "validating" /\ pc' \in {"commit", "teardown", "returned"}
      BY <2>6 DEF ValidateReturned
    <3> QED BY <3>1, <3>2
  <2>7. CASE CommitReturned BY <2>7 DEF CommitReturned
  <2>8. CASE TeardownReturned BY <2>8 DEF TeardownReturned, Returned
  <2>9. CASE Abandon BY <2>9 DEF Abandon, repairVars
  <2>10. CASE OrphanBuildEnds
    <3>1. ValidationLeft = 1 /\ ValidationLeft' = 0
      BY <2>10 DEF OrphanBuildEnds, ValidationLeft
    <3>2. pc = "abandoned" /\ pc' = pc BY <2>10 DEF OrphanBuildEnds
    <3> QED BY <3>1, <3>2
  <2> QED BY <2>1, <2>2, <2>3, <2>4, <2>5, <2>6, <2>7, <2>8, <2>9, <2>10
<1> QED BY <1>1, <1>4, SameAttempt

(* A step that starts an operation is made up for by the place it goes to. *)
LEMMA CallsShrink ==
    ASSUME Inv, CallInitialize \/ CallMount \/ CallSync \/ CallCommit \/ CallTeardown
    PROVE  RepairStepsLeft' < RepairStepsLeft
<1>1. /\ UNCHANGED <<candidates, attempt>> /\ ValidationLeft' = ValidationLeft
      /\ attempt \in Envs /\ attempt # 0 /\ CowTypeOK /\ FileCount' = FileCount
  BY InvFacts DEF CallInitialize, CallMount, CallSync, CallCommit, CallTeardown, Working,
                  ValidationLeft, FileCount
<1>2. FileCount \in Nat /\ OpInProgress \in Nat /\ ValidationLeft \in {0, 1}
  BY RepairStepsNat
<1>3. OpInProgress = OpStepsLeft(attempt) /\ OpInProgress' = OpStepsLeft(attempt)'
  BY <1>1 DEF OpInProgress
<1>4. \A s \in {"clear", "sync", "commit", "unmount"} : Starts(attempt, s) =>
          /\ OpStepsLeft(attempt)' = [clear |-> 2 * FileCount + 3, sync |-> FileCount + 1,
                                      commit |-> 3 * FileCount + 2, unmount |-> 1][s]
          /\ OpStepsLeft(attempt) = 0
  BY <1>1, StartSteps
<1>5. CallInitialize => OpStepsLeft(attempt)' = 0
  BY <1>1 DEF CallInitialize, Initialize, Ends, SetOp, CowTypeOK, OpStepsLeft
<1> HIDE DEF FileCount, OpInProgress
<1>6. AttemptStepsLeft' \in Nat /\ AttemptStepsLeft' < AttemptStepsLeft
  <2> USE <1>1, <1>2, <1>3 DEF AttemptStepsLeft, PlaceStepsLeft, Goes, Returns, OnOk
  <2>1. CASE CallInitialize BY <1>5, <2>1 DEF CallInitialize
  <2>2. CASE CallMount BY <1>4, <2>2 DEF CallMount, StartMount
  <2>3. CASE CallSync BY <1>4, <2>3 DEF CallSync, StartSync
  <2>4. CASE CallCommit BY <1>4, <2>4 DEF CallCommit, StartCommit
  <2>5. CASE CallTeardown BY <1>4, <2>5 DEF CallTeardown, StartTeardown
  <2> QED BY <2>1, <2>2, <2>3, <2>4, <2>5
<1> QED BY <1>1, <1>6, SameAttempt

(* The steps of an operation are those it was started with. *)
LEMMA EngineShrinks ==
    ASSUME Inv, Inv', NEW e \in Envs, Engine(e)
    PROVE  RepairStepsLeft' < RepairStepsLeft
<1>1. /\ e = attempt /\ attempt \in Envs /\ attempt # 0 /\ EngineStep(attempt)
      /\ CowTypeOK /\ CowTypeOK'
      /\ UNCHANGED <<pc, candidates, attempt, building>>
  BY EngineIsCurrent, InvFacts DEF Engine, repairVars, Inv, Types2, TypeOK
<1>2. OpInProgress' \in Nat /\ OpInProgress' < OpInProgress
  BY <1>1, OpStepsShrink DEF OpInProgress
<1>3. PlaceStepsLeft' = PlaceStepsLeft /\ ValidationLeft' = ValidationLeft
  BY <1>1 DEF PlaceStepsLeft, ValidationLeft, FileCount
<1>4. AttemptStepsLeft' \in Nat /\ AttemptStepsLeft' < AttemptStepsLeft
  BY <1>2, <1>3, RepairStepsNat DEF AttemptStepsLeft
<1> QED BY <1>1, <1>4, SameAttempt

(* The first attempt, and the next one after a purge, take theirs from the *)
(* attempts to come.                                                       *)
LEMMA AttemptsShrink ==
    ASSUME Inv, Begin \/ Purge PROVE RepairStepsLeft' < RepairStepsLeft
<1>1. /\ UNCHANGED <<op, todo, candidates, building>> /\ Tries' = Tries
      /\ FileCount' = FileCount /\ ValidationLeft' = ValidationLeft
  BY DEF Begin, Purge, cowVars, Tries, FileCount, ValidationLeft
<1>2. /\ FileCount \in Nat /\ OpInProgress \in Nat /\ ValidationLeft \in {0, 1}
      /\ attempt \in 0 .. Tries /\ Tries \in Nat /\ (attempt = 0 \/ attempt \in Envs)
  BY RepairStepsNat, InvFacts
<1>3. CASE attempt' = attempt
  <2>1. OpInProgress' = OpInProgress
    BY <1>1, <1>3 DEF OpInProgress, OpStepsLeft, FilesLeft, FileCount
  <2>2. pc \in {"start", "purge"} /\ pc' = "returned"
    <3>1. pc = "start" => attempt = 0 BY DEF Inv, Types2
    <3> QED BY <1>2, <1>3, <3>1 DEF Begin, Purge, Goes, Returns
  <2> HIDE DEF FileCount, OpInProgress
  <2>3. AttemptStepsLeft' \in Nat /\ AttemptStepsLeft' < AttemptStepsLeft
    BY <1>1, <1>2, <2>1, <2>2 DEF AttemptStepsLeft, PlaceStepsLeft
  <2> QED BY <1>1, <1>3, <2>3, SameAttempt
<1>4. CASE attempt' # attempt
  <2>1. attempt' = attempt + 1 /\ attempt < Tries /\ pc' = "make"
    BY <1>2, <1>4 DEF Begin, Purge, Goes, Returns, Inv, Types2
  <2>2. attempt + 1 \in Envs
    <3>1. Tries <= MaxRetries /\ MaxRetries \in Nat
      BY InvFacts, CandidateFacts, RetriesAssumption
    <3> QED BY <1>2, <2>1, <3>1, RetriesAssumption
  <2>3. op[attempt + 1] = "new"
    <3>1. attempt + 1 > attempt BY <1>2
    <3> QED BY <2>2, <3>1 DEF Inv, Others, Fresh
  <2>4. OpInProgress' = 0
    <3>1. op'[attempt'] = "new" BY <1>1, <2>1, <2>3
    <3> QED BY <3>1 DEF OpInProgress, OpStepsLeft
  <2> HIDE DEF FileCount, OpInProgress
  <2>5. AttemptStepsLeft' = 6 * FileCount + 18 + ValidationLeft
    BY <1>1, <1>2, <2>1, <2>4 DEF AttemptStepsLeft, PlaceStepsLeft
  <2>6. AttemptStepsLeft \in Nat /\ AttemptStepsLeft >= 1 + ValidationLeft
    <3>1. pc \in {"start", "purge"} BY DEF Begin, Purge
    <3> QED BY <1>2, <3>1 DEF AttemptStepsLeft, PlaceStepsLeft
  <2>7. StepsPerAttempt = 6 * FileCount + 19 /\ StepsPerAttempt' = StepsPerAttempt
    BY <1>1 DEF StepsPerAttempt
  <2>8. /\ (Tries' - attempt') * StepsPerAttempt'
           = (Tries - attempt) * StepsPerAttempt - StepsPerAttempt
        /\ (Tries - attempt) * StepsPerAttempt \in Int
    <3>1. StepsPerAttempt \in Nat BY <1>2, <2>7
    <3> HIDE DEF StepsPerAttempt
    <3>2. (Tries - (attempt + 1)) * StepsPerAttempt
             = (Tries - attempt) * StepsPerAttempt - StepsPerAttempt
      BY <1>2, <3>1
    <3>3. (Tries - attempt) * StepsPerAttempt \in Int BY <1>2, <3>1
    <3> QED BY <1>1, <2>1, <2>7, <3>2, <3>3
  <2> HIDE DEF StepsPerAttempt, AttemptStepsLeft
  <2> QED BY <1>2, <2>5, <2>6, <2>7, <2>8 DEF RepairStepsLeft
<1> QED BY <1>3, <1>4

(* What every step does to that number. *)
RepairComesToAnEnd ==
    [][\/ RepairStepsLeft' < RepairStepsLeft
       \/ (\E e \in Envs : ValidatorBuilds(e)) /\ RepairStepsLeft' = RepairStepsLeft]_vars

(* Every step of a repair, its operations and whoever gave it up brings it   *)
(* nearer to its end, but for the writes of a build while it runs: with each *)
(* candidate tried, a number of steps linear in the files.                   *)
THEOREM RepairRunsInBoundedSteps ==
    Spec => /\ RepairStepsLeft = Tries * (6 * Cardinality(Paths) + 19) + 1
            /\ [](RepairStepsLeft \in Nat)
            /\ RepairComesToAnEnd
<1> DEFINE A == \/ RepairStepsLeft' < RepairStepsLeft
                \/ (\E e \in Envs : ValidatorBuilds(e)) /\ RepairStepsLeft' = RepairStepsLeft
<1>1. Init => RepairStepsLeft = Tries * (6 * Cardinality(Paths) + 19) + 1
  <2> SUFFICES ASSUME Init
               PROVE  RepairStepsLeft = Tries * (6 * Cardinality(Paths) + 19) + 1
    OBVIOUS
  <2>1. PlaceStepsLeft = 1 BY DEF Init, PlaceStepsLeft
  <2>2. OpInProgress = 0 /\ ValidationLeft = 0 /\ attempt = 0
    BY DEF Init, OpInProgress, ValidationLeft
  <2>3. Tries \in Nat BY InitInv, InvFacts
  <2>4. Tries - attempt = Tries BY <2>2, <2>3
  <2>5. StepsPerAttempt = 6 * Cardinality(Paths) + 19 BY DEF StepsPerAttempt, FileCount
  <2>6. RepairStepsLeft = Tries * StepsPerAttempt + (1 + 0 + 0)
    BY <2>1, <2>2, <2>4 DEF RepairStepsLeft, AttemptStepsLeft
  <2> QED BY <2>5, <2>6
<1>2. Inv => RepairStepsLeft \in Nat BY RepairStepsNat
<1>3. Inv /\ Inv' /\ [Next]_vars => [A]_vars
  <2> SUFFICES ASSUME Inv, Inv', Next PROVE A \/ UNCHANGED vars
    OBVIOUS
  <2>1. CASE RepairStep
    BY <2>1, MovesShrink, CallsShrink, AttemptsShrink DEF RepairStep
  <2>2. CASE \E e \in Envs : Engine(e)
    BY <2>2, EngineShrinks
  <2>3. ASSUME NEW e \in Envs, ValidatorBuilds(e) PROVE A
    <3>1. UNCHANGED <<op, todo, pc, candidates, attempt, building>>
      BY <2>3 DEF ValidatorBuilds, BuildWrite, repairVars
    <3>2. RepairStepsLeft' = RepairStepsLeft
      BY <3>1 DEF RepairStepsLeft, AttemptStepsLeft, Tries, PlaceStepsLeft, OpInProgress,
                  ValidationLeft, StepsPerAttempt, OpStepsLeft, FilesLeft, FileCount
    <3> QED BY <2>3, <3>2
  <2>4. CASE Abandon \/ OrphanBuildEnds BY <2>4, MovesShrink
  <2> QED BY <2>1, <2>2, <2>3, <2>4 DEF Next, Over
<1> QED BY <1>1, <1>2, <1>3, InvHolds, PTL DEF Spec, RepairComesToAnEnd
============================================================================
