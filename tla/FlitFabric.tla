----------------------------- MODULE FlitFabric -----------------------------
(***************************************************************************)
(* The request fabric wired by sim/internal/pnm/gen_topology.go from       *)
(* lxy_repeater, xy_turn, node_eject (all flit_gate demultiplexers) and    *)
(* hfr (one-byte elastic registers):                                       *)
(*                                                                         *)
(*  inject -> rpt 1 -> spine 1 -> rpt 2 -> spine 2 -> ... -> tail          *)
(*              |NoB                                                       *)
(*            turn 0 -> lane 0 -> turn 1 -> ... -> X residual              *)
(*              |Y                                                         *)
(*            eject 0, eject 1, ...  -> Y residual                         *)
(*              |                                                          *)
(*            node port (the first stage of pe_tile_stub's pipe)           *)
(*                                                                         *)
(* Gates are combinational and keep only the decision taken at a packet's  *)
(* head; registers hold at most one byte.  A byte moves when its whole     *)
(* combinational path is ready, so one action is one accepted byte and a   *)
(* clock edge is a sequence of such actions, downstream first.             *)
(***************************************************************************)
EXTENDS Naturals, Sequences, FiniteSets, SequencesExt, FiniteSetsExt

CONSTANTS NL,       \* repeaters on the spine (wire layers 1..NL)
          Bx, By,   \* columns and rows of every board
          Packet    \* packets the host may inject: records
                    \*   [id, layer, x, y, vc, len]

ASSUME FabricAssumption ==
    /\ NL \in 1..15 /\ Bx \in 1..16 /\ By \in 1..16
    /\ \A p \in Packet : /\ p.layer \in 0..255 /\ p.vc \in 0..3
                         /\ p.x \in 0..15 /\ p.y \in 0..15
                         /\ p.len \in Nat /\ p.len >= 3

VARIABLES todo,       \* packets the host has not started
          src,        \* bytes of the current packet not yet injected
          spine,      \* spine[l]: hfr below repeater l
          lane,       \* lane[l][x]: hfr between columns x and x+1 of board l
          port,       \* port[n]: byte handed to node n's DMA pipe
          rptHold,    \* rptHold[l]: route_match_q of repeater l
          rptStrip,   \* rptStrip[l]: strip_next_q of repeater l
          turnHold,   \* turnHold[l][x]: route_match_q of column x's turn gate
          ejectHold,  \* ejectHold[l][x][y]: route_match_q of the eject gate
          got,        \* history: bytes each node has consumed
          residual    \* history: packets that left by a residual lane or tail

vars == <<todo, src, spine, lane, port, rptHold, rptStrip, turnHold,
          ejectHold, got, residual>>

board == <<lane, port, turnHold, ejectHold, residual>>

Layer == 1..NL
Col   == 0..(Bx - 1)
Row   == 0..(By - 1)
Node  == Layer \X Col \X Row

VcSpineDescent  == 2
VcOnboard       == 3

(* A byte on a wire: which packet, which position in it, the sop/eop       *)
(* strobes and the 2-bit class sideband.                                   *)
Byte == [pkt : Packet, pos : Nat, sop : BOOLEAN, eop : BOOLEAN, vc : 0..3]

(* The value in_data carries: LAYER_ID, MODULE_ID, then payload bytes no   *)
(* gate may look at (0xFF, which would match nothing on these boards).     *)
Data(b) == CASE b.pos = 1 -> b.pkt.layer
             [] b.pos = 2 -> 16 * b.pkt.x + b.pkt.y
             [] OTHER     -> 255

Bytes(p) == [i \in 1..p.len |->
               [pkt |-> p, pos |-> i, sop |-> i = 1, eop |-> i = p.len,
                vc |-> p.vc]]

-----------------------------------------------------------------------------
(* flit_gate: the comparison is made on the head byte and held to the next *)
(* head.                                                                   *)
RepeaterMatch(l, b) ==
    IF b.sop THEN Data(b) % 16 = l /\ b.vc = VcSpineDescent ELSE rptHold[l]

TurnMatch(l, x, b) ==
    IF b.sop THEN Data(b) \div 16 = x /\ b.vc = VcOnboard ELSE turnHold[l][x]

(* Mutant: the comparator is evaluated on every byte, not only the head.   *)
EjectMatchUnheld(l, x, y, b) == Data(b) = 16 * x + y /\ b.vc = VcOnboard

EjectMatch(l, x, y, b) ==
    IF b.sop THEN Data(b) = 16 * x + y /\ b.vc = VcOnboard
             ELSE ejectHold[l][x][y]

(* The row the Y-lane hands b to: its first matching eject gate, or By     *)
(* when the byte falls off the end of the column.                          *)
EjectRow(l, x, b) ==
    Min({y \in Row : EjectMatch(l, x, y, b)} \cup {By})

(* Can node port n take a byte?  Mutant: the gate ignores match_ready.     *)
PortReadyAlways(n) == TRUE
PortReady(n) == port[n] = <<>>

(* The Y-lane: every gate up to the one that takes the byte sees it.       *)
ColumnAccept(l, x, b) ==
    LET y == EjectRow(l, x, b) IN
    /\ IF y < By
       THEN /\ PortReady(<<l, x, y>>)
            /\ port' = [port EXCEPT ![<<l, x, y>>] = <<b>>]
            /\ UNCHANGED residual
       ELSE /\ residual' = residual \cup {b.pkt}
            /\ UNCHANGED port
    /\ ejectHold' = IF b.sop
                    THEN [ejectHold EXCEPT ![l][x] =
                            [r \in Row |-> IF r > y THEN @[r] ELSE r = y]]
                    ELSE ejectHold

(* A byte presented to column x of board l turns into the Y-lane or goes   *)
(* on along the X-lane; past the last column the X residual is a sink.     *)
(* ln is the lane once the register the byte came from has let go of it.   *)
BoardAccept(l, x, b, ln) ==
    /\ \/ /\ TurnMatch(l, x, b)
          /\ ColumnAccept(l, x, b)
          /\ lane' = ln
       \/ /\ ~TurnMatch(l, x, b)
          /\ x < Bx - 1
          /\ lane[l][x] = <<>>
          /\ lane' = [ln EXCEPT ![l][x] = <<b>>]
          /\ UNCHANGED <<port, ejectHold, residual>>
       \/ /\ ~TurnMatch(l, x, b)
          /\ x = Bx - 1
          /\ residual' = residual \cup {b.pkt}
          /\ lane' = ln
          /\ UNCHANGED <<port, ejectHold>>
    /\ turnHold' = IF b.sop
                   THEN [turnHold EXCEPT ![l][x] = TurnMatch(l, x, b)]
                   ELSE turnHold

(* What the repeater presents to the board: the byte after a stripped      *)
(* head becomes the head, and the class changes 2 -> 3.                    *)
(* Mutant: match_sop follows in_sop, as in a gate that does not strip.     *)
BoardByteHeadless(l, b) == [b EXCEPT !.vc = VcOnboard]
BoardByte(l, b) == [b EXCEPT !.sop = rptStrip[l], !.vc = VcOnboard]

(* lxy_repeater's downward gate (STRIP_ON_MATCH): a matching head byte is  *)
(* swallowed and the next byte becomes the board's head, in class 3; a     *)
(* packet for another layer goes to the spine register below.  sp is the   *)
(* spine once the register above has let go of the byte.                   *)
RepeaterAccept(l, b, sp) ==
    \/ /\ RepeaterMatch(l, b) /\ b.sop
       /\ rptHold'  = [rptHold  EXCEPT ![l] = TRUE]
       /\ rptStrip' = [rptStrip EXCEPT ![l] = TRUE]
       /\ spine' = sp
       /\ UNCHANGED board
    \/ /\ RepeaterMatch(l, b) /\ ~b.sop
       /\ BoardAccept(l, 0, BoardByte(l, b), lane)
       /\ rptStrip' = [rptStrip EXCEPT ![l] = FALSE]
       /\ spine' = sp
       /\ UNCHANGED rptHold
    \/ /\ ~RepeaterMatch(l, b)
       /\ spine[l] = <<>>
       /\ spine' = [sp EXCEPT ![l] = <<b>>]
       /\ rptHold' = IF b.sop THEN [rptHold EXCEPT ![l] = FALSE] ELSE rptHold
       /\ UNCHANGED <<rptStrip, board>>

-----------------------------------------------------------------------------
Init == /\ todo = Packet
        /\ src = <<>>
        /\ spine = [l \in Layer |-> <<>>]
        /\ lane = [l \in Layer |-> [x \in 0..(Bx - 2) |-> <<>>]]
        /\ port = [n \in Node |-> <<>>]
        /\ rptHold  = [l \in Layer |-> FALSE]
        /\ rptStrip = [l \in Layer |-> FALSE]
        /\ turnHold  = [l \in Layer |-> [x \in Col |-> FALSE]]
        /\ ejectHold = [l \in Layer |-> [x \in Col |-> [y \in Row |-> FALSE]]]
        /\ got = [n \in Node |-> <<>>]
        /\ residual = {}

(* Mutant: the trigger is honoured while a packet is still being sent.     *)
StartPacketBusy(p) ==
    /\ p \in todo
    /\ src' = src \o Bytes(p)
    /\ todo' = todo \ {p}
    /\ UNCHANGED <<spine, rptHold, rptStrip, board, got>>

(* The host's flit builder turns to its next packet, in any order.         *)
StartPacket(p) ==
    /\ src = <<>> /\ p \in todo
    /\ src' = Bytes(p)
    /\ todo' = todo \ {p}
    /\ UNCHANGED <<spine, rptHold, rptStrip, board, got>>

(* The root port accepts the next byte of the current packet.              *)
Inject ==
    /\ src # <<>>
    /\ RepeaterAccept(1, Head(src), spine)
    /\ src' = Tail(src)
    /\ UNCHANGED <<todo, got>>

(* The byte below repeater l is accepted by repeater l + 1.                *)
SpineHop(l) ==
    /\ l < NL /\ spine[l] # <<>>
    /\ RepeaterAccept(l + 1, Head(spine[l]), [spine EXCEPT ![l] = <<>>])
    /\ UNCHANGED <<todo, src, got>>

(* The tail of the spine is always ready.                                  *)
TailDrain ==
    /\ spine[NL] # <<>>
    /\ residual' = residual \cup {Head(spine[NL]).pkt}
    /\ spine' = [spine EXCEPT ![NL] = <<>>]
    /\ UNCHANGED <<todo, src, lane, port, rptHold, rptStrip, turnHold,
                   ejectHold, got>>

(* Mutant: the last lane register is wired to the residual's (absent) end. *)
LaneHopShort(l, x) ==
    /\ x < Bx - 2 /\ lane[l][x] # <<>>
    /\ BoardAccept(l, x + 1, Head(lane[l][x]), [lane EXCEPT ![l][x] = <<>>])
    /\ UNCHANGED <<todo, src, spine, rptHold, rptStrip, got>>

(* The byte after column x is accepted by column x + 1.                    *)
LaneHop(l, x) ==
    /\ x < Bx - 1 /\ lane[l][x] # <<>>
    /\ BoardAccept(l, x + 1, Head(lane[l][x]), [lane EXCEPT ![l][x] = <<>>])
    /\ UNCHANGED <<todo, src, spine, rptHold, rptStrip, got>>

(* Node n's DMA engine takes the byte on its port; it may be stalled (echo *)
(* in progress, slow unit) for as long as it likes.                        *)
NodeTake(n) ==
    /\ port[n] # <<>>
    /\ got' = [got EXCEPT ![n] = Append(@, Head(port[n]))]
    /\ port' = [port EXCEPT ![n] = <<>>]
    /\ UNCHANGED <<todo, src, spine, lane, rptHold, rptStrip, turnHold,
                   ejectHold, residual>>

Next == \/ \E p \in Packet : StartPacket(p)
        \/ Inject
        \/ \E l \in Layer : SpineHop(l)
        \/ TailDrain
        \/ \E l \in Layer, x \in Col : LaneHop(l, x)
        \/ \E n \in Node : NodeTake(n)

Spec == Init /\ [][Next]_vars

(* Registers are clocked for ever and every unit drains its port; the host *)
(* finishes the packets it starts.                                         *)
Fairness == /\ \A p \in Packet : WF_vars(StartPacket(p))
            /\ WF_vars(Inject)
            /\ \A l \in Layer : WF_vars(SpineHop(l))
            /\ WF_vars(TailDrain)
            /\ \A l \in Layer, x \in Col : WF_vars(LaneHop(l, x))
            /\ \A n \in Node : WF_vars(NodeTake(n))

FairSpec == Spec /\ Fairness

-----------------------------------------------------------------------------
(* Properties                                                              *)

(* The n bytes of p that are sent last. *)
LastBytes(p, n) == SubSeq(Bytes(p), p.len - n + 1, p.len)

(* The registers hold at most one byte, the gates one decision bit, and a  *)
(* byte's strobes are consistent: this is the hardware's state space.      *)
TypeOK ==
    /\ todo \subseteq Packet
    /\ src # <<>> => \E p \in Packet : Len(src) <= p.len /\ src = LastBytes(p, Len(src))
    /\ \A l \in Layer : /\ Len(spine[l]) <= 1 /\ Range(spine[l]) \subseteq Byte
                        /\ rptHold[l] \in BOOLEAN /\ rptStrip[l] \in BOOLEAN
    /\ \A l \in Layer, x \in 0..(Bx - 2) :
          Len(lane[l][x]) <= 1 /\ Range(lane[l][x]) \subseteq Byte
    /\ \A n \in Node : Len(port[n]) <= 1 /\ Range(port[n]) \subseteq Byte
    /\ turnHold  \in [Layer -> [Col -> BOOLEAN]]
    /\ ejectHold \in [Layer -> [Col -> [Row -> BOOLEAN]]]
    /\ residual \subseteq Packet

(* The node a packet's header names: {} when no node of this chassis has   *)
(* that address or the packet does not travel in the descent class.  Only  *)
(* the low nibble of LAYER_ID is compared (wire layers are 1..8).          *)
Dest(p) == {n \in Node : /\ n = <<p.layer % 16, p.x, p.y>>
                         /\ p.vc = VcSpineDescent}

(* A byte as the node must see it: LAYER_ID gone, MODULE_ID the head.      *)
AsDelivered(b) == [b EXCEPT !.sop = b.pos = 2, !.vc = VcOnboard]

DeliveredBytes(p) == [i \in 1..(p.len - 1) |-> AsDelivered(Bytes(p)[i + 1])]

(* What is for node n among bytes s that all are of one packet, and that   *)
(* as the node will see it, s being on its way down the spine.             *)
Ours(n, s) == IF s # <<>> /\ n \in Dest(Head(s).pkt) THEN s ELSE <<>>

Unheaded(s) == IF s # <<>> /\ Head(s).pos = 1 THEN Tail(s) ELSE s

Seen(n, s) == LET body == Unheaded(Ours(n, s))
              IN  [i \in 1..Len(body) |-> AsDelivered(body[i])]

(* Everything between the host and node n, oldest first: its port, the     *)
(* lane registers of its board from its column back to the repeater, the   *)
(* spine registers from its layer back to the root, the host's own bytes.  *)
Path(n) ==
    LET l == n[1]
        x == n[2]
        onBoard == [i \in 1..x |-> Ours(n, lane[l][x - i])]
        onSpine == [i \in 1..(l - 1) |-> Seen(n, spine[l - i])]
    IN  <<port[n]>> \o onBoard \o onSpine \o <<Seen(n, src)>>

InFlight == [n \in Node |-> FlattenSeq(Path(n))]

Ordered == INSTANCE OrderedDelivery
             WITH chan <- InFlight, got <- got, Node <- Node,
                  Launch <- UNION {{<<n, DeliveredBytes(p)>> : n \in Dest(p)} : p \in Packet}

(* "Byte-exact delivery: bytes delivered to each node equal bytes          *)
(* injected; no loss, no duplication, no reorder" (docs/pnm.md), for every *)
(* interleaving of the hops and every way the nodes stall: the gates and   *)
(* registers implement one FIFO per node.                                  *)
ByteExactDelivery == Ordered!Spec

(* "Zero drops and zero misroutes": a packet that reaches a residual lane  *)
(* or the spine tail is one that no node of the chassis is addressed by,   *)
(* and a node never holds a byte of a packet that is not its own.          *)
ZeroMisroutes ==
    /\ \A p \in residual : Dest(p) = {}
    /\ \A n \in Node : \A b \in Range(port[n] \o got[n]) : n \in Dest(b.pkt)

(* Wormhole integrity: between two bytes of one packet a node never sees   *)
(* a byte of another, whoever else is using the shared spine and lanes.    *)
UntornPackets ==
    \A n \in Node : \A i \in 1..(Len(got[n]) - 1) :
        IF got[n][i].eop
        THEN got[n][i + 1].sop
        ELSE /\ got[n][i + 1].pkt = got[n][i].pkt
             /\ got[n][i + 1].pos = got[n][i].pos + 1

Arrived(p) == \/ p \in residual
              \/ \E n \in Dest(p) : \E b \in Range(got[n]) : b.pkt = p /\ b.eop

(* Deadlock freedom of the demultiplexer tree: as long as the nodes keep   *)
(* draining their ports every packet is delivered to its last byte, or     *)
(* leaves by a residual port, however the others block the shared lanes.   *)
EveryPacketArrives == \A p \in Packet : <>Arrived(p)
=============================================================================
