------------------------------ MODULE MCRouter ------------------------------
(* SelfHealingRouter with up to three candidates and two retries over a     *)
(* workspace of two sources, of which one is broken or both are sound (the  *)
(* failure was transient), and a build product that may be there already.   *)
EXTENDS SelfHealingRouter
CONSTANTS src, lib, out, bad, fixed, worse, built, absent, torn, linked, nopath
MCPaths == {src, lib, out}
MCSources == {src, lib}
MCContents == {bad, fixed, worse, built}
MCLower == {[p \in MCPaths |-> IF p = src THEN s ELSE IF p = lib THEN fixed ELSE o] :
               s \in {bad, fixed}, o \in {absent, built}}
MCBuild == {<<out, built>>, <<out, worse>>}
MCEnvs == 1 .. 2
MCPenalties == 0 .. 1
MCPatch == {<<src, fixed>>, <<src, worse>>, <<lib, worse>>}
MCCandidates == UNION {[1 .. n -> MCPatch] : n \in 0 .. 2}
                  \union {<<p, q, <<src, fixed>>>> : p, q \in MCPatch}
MCGood == {[p \in MCSources |-> fixed]}
=============================================================================
