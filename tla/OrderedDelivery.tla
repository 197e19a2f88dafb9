-------------------------- MODULE OrderedDelivery --------------------------
(***************************************************************************)
(* What the request fabric promises its users, with no wires, gates or     *)
(* registers in it: one lossless FIFO of bytes from the chassis root to    *)
(* every node.  Launching a packet appends all the bytes its node will     *)
(* see, in order; a delivery removes the oldest byte of one node's FIFO.   *)
(* Nothing is lost, duplicated, reordered or handed to another node.       *)
(***************************************************************************)
EXTENDS Sequences

CONSTANTS Node,     \* the nodes a packet can be addressed to
          Launch    \* the <<node, bytes>> pairs a packet can put in flight

VARIABLES chan,     \* chan[n]: bytes launched towards n and not yet delivered
          got       \* got[n]:  bytes n has received, oldest first

vars == <<chan, got>>

Init == /\ chan = [n \in Node |-> <<>>]
        /\ got  = [n \in Node |-> <<>>]

Send(n, bytes) == /\ chan' = [chan EXCEPT ![n] = @ \o bytes]
                  /\ UNCHANGED got

Deliver(n) == /\ chan[n] # <<>>
              /\ got'  = [got EXCEPT ![n] = Append(@, Head(chan[n]))]
              /\ chan' = [chan EXCEPT ![n] = Tail(@)]

Next == \/ \E l \in Launch : Send(l[1], l[2])
        \/ \E n \in Node : Deliver(n)

Spec == Init /\ [][Next]_vars
============================================================================
