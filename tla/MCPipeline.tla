----------------------------- MODULE MCPipeline -----------------------------
(* BuildPipeline on a repository with a package at the top, two below it,    *)
(* and a second manifest beside that of one of them, any of them buildable,  *)
(* in graphs without edges, chains, forks, joins, cycles and self-loops.     *)
(* The inner package wants its file fixed; the outer one takes it fixed or   *)
(* as the other, so that its repair may undo the inner one's.                *)
EXTENDS BuildPipeline
CONSTANTS top, inner, beside, other, x, y, bad, fixed, older, absent, torn, none
MCUnits == {top, inner, beside, other}
MCSources == {x, y}
Each(t, i, b, o) ==
    [u \in MCUnits |-> IF u = top THEN t ELSE IF u = inner THEN i ELSE IF u = beside THEN b ELSE o]
MCDir == Each({x, y}, {x}, {x}, {y})
MCContents == {bad, fixed, older}
MCHosts == [MCSources -> MCContents]
MCGood == Each([{x, y} -> {fixed, older}], [{x} -> {fixed}], [{x} -> {fixed, older}], [{y} -> {fixed}])
MCOffers == Each({<<>>, <<<<x, older>>>>, <<<<y, fixed>>>>}, {<<>>, <<<<x, fixed>>>>},
                 {<<<<x, older>>>>}, {<<<<y, bad>>>>, <<<<y, fixed>>>>})
MCGraphs == {Each({}, {}, {}, {}), Each({inner, other}, {}, {}, {}), Each({}, {top}, {inner}, {}),
             Each({}, {top}, {}, {inner, top}), Each({inner}, {top}, {}, {}), Each({}, {}, {beside}, {})}
=============================================================================
