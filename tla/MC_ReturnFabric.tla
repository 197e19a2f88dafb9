-------------------------- MODULE MC_ReturnFabric --------------------------
(***************************************************************************)
(* Two layers of 2 x 2 nodes.  Four nodes echo: three of one board         *)
(* (contention at a "y", the "x" and an "up" merge), one of them twice,    *)
(* and one node of the layer below twice (board against spine).            *)
(***************************************************************************)
EXTENDS ReturnFabric

MCEchoes == [n \in Node |->
    CASE n \in {<<1, 0, 0>>, <<2, 1, 0>>} -> 2
      [] n \in {<<1, 0, 1>>, <<1, 1, 0>>} -> 1
      [] OTHER -> 0]
=============================================================================
