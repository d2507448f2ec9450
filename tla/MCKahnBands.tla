---------------------------- MODULE MCKahnBands ----------------------------
(* KahnBands on every multigraph of up to three units and four dependency *)
(* entries, cycles, repeated and dangling dependencies included.          *)
EXTENDS KahnBands
CONSTANTS u1, u2, u3, x, e1, e2, e3, e4
MCUnits == {u1, u2, u3}
MCOutside == {x}
MCEdges == {e1, e2, e3, e4}
=============================================================================
