----------------------------- MODULE MCOverlay -----------------------------
(* OverlayClient on two environments over a workspace of two files, one of *)
(* which may be missing; every file-system call may fail.                  *)
EXTENDS OverlayClient, TLC
CONSTANTS e1, e2, src, out, old, fixed, built, absent, torn, linked, nopath
MCEnvs == {e1, e2}
Symmetry == Permutations(MCEnvs)
MCOneEnv == {e1}
MCPaths == {src, out}
MCContents == {old, fixed, built}
MCLower == {[p \in MCPaths |-> old], [p \in MCPaths |-> IF p = src THEN old ELSE absent]}
MCPatches == {<<src, fixed>>, <<out, fixed>>}
MCBuild == {<<out, built>>}
=============================================================================
