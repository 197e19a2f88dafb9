--------------------------- MODULE MC_FlitFabric ---------------------------
(***************************************************************************)
(* A chassis slice of two layers of 2 x 2 nodes.  The packets cover: two   *)
(* for one node behind the X-lane (order), one for column 0 of the other   *)
(* layer (spine), one for a row the board does not have and one for a      *)
(* layer the chassis does not have.                                        *)
(***************************************************************************)
EXTENDS FlitFabric

Pkt(i, l, x, y, v, n) == [id |-> i, layer |-> l, x |-> x, y |-> y, vc |-> v, len |-> n]

MCPackets == { Pkt(1, 1, 1, 0, 2, 4), Pkt(2, 1, 1, 0, 2, 3),
               Pkt(3, 2, 0, 1, 2, 3), Pkt(4, 1, 1, 2, 2, 3),
               Pkt(5, 3, 0, 0, 2, 3) }
=============================================================================
