-------------------------- MODULE FlitFabric_proof --------------------------
(***************************************************************************)
(* Proofs about the request fabric (FlitFabric), for chassis of any size   *)
(* and any set of packets of any length.                                   *)
(*                                                                         *)
(* The gates keep one bit of a packet whose head has gone by, so what      *)
(* makes them right is that the bytes at a gate come in packets.  A cursor *)
(* says which byte a wire carries next: idle between packets, else a       *)
(* packet and a position.  The invariant says that there are cursors for   *)
(* all wires which the gates' bits and the registers' bytes agree with.    *)
(***************************************************************************)
EXTENDS FlitFabric, SequenceLemmas, TLAPS

Idle   == <<>>
Cursor == {Idle} \cup (Packet \X Nat)

(* The cursor of a wire before and after it carries byte b.                *)
Cur(b)   == IF b.sop THEN Idle ELSE <<b.pkt, b.pos>>
After(b) == IF b.eop THEN Idle ELSE <<b.pkt, b.pos + 1>>

(* A register r between a wire with cursor up and one with cursor down.    *)
Reg == {<<>>} \cup {<<b>> : b \in Byte}
Link(r, up, down) == IF r = <<>> THEN down = up
                                 ELSE down = Cur(r[1]) /\ up = After(r[1])

(* Bytes on the spine, and on a board.                                     *)
SpineByte(b) == /\ b \in Byte /\ b.pos \in 1..b.pkt.len /\ b.vc = b.pkt.vc
                /\ (b.sop <=> b.pos = 1) /\ (b.eop <=> b.pos = b.pkt.len)
OnBoard(b)   == /\ b \in Byte /\ b.pos \in 2..b.pkt.len /\ b.vc = VcOnboard
                /\ (b.sop <=> b.pos = 2) /\ (b.eop <=> b.pos = b.pkt.len)

ForLayer(p, l) == p.layer % 16 = l /\ p.vc = VcSpineDescent

-----------------------------------------------------------------------------
(* The repeaters: what passes repeater l down the spine, and what it hands *)
(* to its board.                                                           *)
Past(l, c) == IF c # Idle /\ ~ForLayer(c[1], l) THEN c ELSE Idle
Into(l, c) == IF c # Idle /\ ForLayer(c[1], l) /\ c[2] > 2 THEN c ELSE Idle

RptOK(l, c) == c # Idle => /\ rptHold[l] <=> ForLayer(c[1], l)
                           /\ rptHold[l] => (rptStrip[l] <=> c[2] = 2)

SpineSlot(l, r, up, down) ==
    /\ Link(r, Past(l, up), down)
    /\ r # <<>> => SpineByte(r[1]) /\ \A k \in 1..l : ~ForLayer(r[1].pkt, k)

SpineLink(l, at) == SpineSlot(l, spine[l], at[l], at[l + 1])

SourceOK(c) == c = IF src = <<>> THEN Idle ELSE Cur(src[1])

SpineFlow(at) == /\ SourceOK(at[1])
                 /\ \A l \in Layer : RptOK(l, at[l]) /\ SpineLink(l, at)

(* The boards: what passes column x, and what goes to its row y.           *)
PastCol(x, c)     == IF c # Idle /\ c[1].x # x THEN c ELSE Idle
IntoNode(x, y, c) == IF c # Idle /\ c[1].x = x /\ c[1].y = y THEN c ELSE Idle

TurnOK(l, x, c) == c # Idle =>
    /\ turnHold[l][x] <=> c[1].x = x
    /\ c[1].x = x => \A r \in Row : r <= c[1].y => (ejectHold[l][x][r] <=> r = c[1].y)

LaneByte(l, x, b) == OnBoard(b) /\ ForLayer(b.pkt, l) /\ \A k \in 0..x : b.pkt.x # k

LaneSlot(l, x, r, up, down) == /\ Link(r, PastCol(x, up), down)
                               /\ r # <<>> => LaneByte(l, x, r[1])

LaneLink(l, x, bt) == LaneSlot(l, x, lane[l][x], bt[x], bt[x + 1])

NodeCur(n) == IF got[n] = <<>> THEN Idle ELSE After(got[n][Len(got[n])])

PortLink(l, x, y, c) == Link(port[<<l, x, y>>], IntoNode(x, y, c), NodeCur(<<l, x, y>>))

BoardFlow(l, c, bt) ==
    /\ bt[0] = Into(l, c)
    /\ \A x \in Col : TurnOK(l, x, bt[x])
    /\ \A x \in 0..(Bx - 2) : LaneLink(l, x, bt)
    /\ \A x \in Col, y \in Row : PortLink(l, x, y, bt[x])

Spines == [1..(NL + 1) -> Cursor]
Boards == [Layer -> [Col -> Cursor]]

Flow(at, bt) == SpineFlow(at) /\ \A l \in Layer : BoardFlow(l, at[l], bt[l])

-----------------------------------------------------------------------------
(* What nodes and residual lanes have.                                     *)
NodeByte(n, b) == OnBoard(b) /\ n \in Dest(b.pkt)

NodesOK == \A n \in Node :
    /\ port[n] # <<>> => NodeByte(n, port[n][1])
    /\ \A i \in 1..Len(got[n]) : NodeByte(n, got[n][i])
    /\ \A i \in 1..(Len(got[n]) - 1) : Cur(got[n][i + 1]) = After(got[n][i])

ResidualOK == residual \subseteq Packet /\ \A p \in residual : Dest(p) = {}

SrcOK == src = <<>> \/ \E p \in Packet : \E i \in 1..p.len : src = SubSeq(Bytes(p), i, p.len)

Shapes ==
    /\ todo \subseteq Packet /\ SrcOK
    /\ spine \in [Layer -> Reg] /\ lane \in [Layer -> [0..(Bx - 2) -> Reg]]
    /\ port \in [Node -> Reg] /\ got \in [Node -> Seq(Byte)]
    /\ rptHold \in [Layer -> BOOLEAN] /\ rptStrip \in [Layer -> BOOLEAN]
    /\ turnHold \in [Layer -> [Col -> BOOLEAN]]
    /\ ejectHold \in [Layer -> [Col -> [Row -> BOOLEAN]]]

FabricInv == /\ Shapes /\ NodesOK /\ ResidualOK
             /\ \E at \in Spines, bt \in Boards : Flow(at, bt)

-----------------------------------------------------------------------------
(* Cursors.                                                                *)
LEMMA NotIdle == \A p, i : <<p, i>> # Idle /\ <<p, i>>[1] = p /\ <<p, i>>[2] = i
  BY DEF Idle

LEMMA Addresses ==
    /\ NL \in 1..15 /\ Bx \in 1..16 /\ By \in 1..16
    /\ \A p \in Packet : /\ p.layer \in 0..255 /\ p.x \in 0..15 /\ p.y \in 0..15
                         /\ p.len \in Nat /\ p.len >= 3 /\ p.vc \in 0..3
  BY FabricAssumption

LEMMA BytesTyped ==
    \A b \in Byte : /\ b.pkt \in Packet /\ b.pos \in Nat /\ b.sop \in BOOLEAN
                    /\ b.eop \in BOOLEAN /\ b.vc \in 0..3
  BY DEF Byte

LEMMA CursorsTyped ==
    ASSUME NEW b \in Byte
    PROVE  Cur(b) \in Cursor /\ After(b) \in Cursor
<1>1. b.pkt \in Packet /\ b.pos \in Nat /\ b.pos + 1 \in Nat
  BY BytesTyped
<1>2. <<b.pkt, b.pos>> \in Cursor /\ <<b.pkt, b.pos + 1>> \in Cursor /\ Idle \in Cursor
  BY <1>1 DEF Cursor
<1> QED BY <1>2 DEF Cur, After

(* A register with a byte is its byte, and an empty one takes one.         *)
LEMMA Registers ==
    /\ \A r \in Reg : r # <<>> => r = <<r[1]>> /\ Head(r) = r[1] /\ r[1] \in Byte
    /\ \A b \in Byte : <<b>> \in Reg /\ <<b>> # <<>> /\ <<b>>[1] = b
    /\ <<>> \in Reg
  BY DEF Reg

(* Filling a register, emptying it.                                        *)
LEMMA Filled ==
    ASSUME NEW b, NEW up, NEW down, Link(<<>>, up, down), up = Cur(b)
    PROVE  Link(<<b>>, After(b), down)
<1>1. <<b>> # <<>> /\ <<b>>[1] = b
  OBVIOUS
<1> QED BY <1>1 DEF Link

LEMMA Emptied ==
    ASSUME NEW b, NEW up, NEW down, Link(<<b>>, up, down)
    PROVE  down = Cur(b) /\ up = After(b) /\ Link(<<>>, up, After(b))
<1>1. <<b>> # <<>> /\ <<b>>[1] = b
  OBVIOUS
<1> QED BY <1>1 DEF Link

-----------------------------------------------------------------------------
(* The column: its row gates agree on the packet's row.                    *)
LEMMA RowChosen ==
    ASSUME NEW l \in Layer, NEW x \in Col, NEW b, OnBoard(b), b.pkt.x = x,
           TurnOK(l, x, Cur(b)), ejectHold \in [Layer -> [Col -> [Row -> BOOLEAN]]]
    PROVE  /\ \A y \in Row : y <= b.pkt.y => (EjectMatch(l, x, y, b) <=> y = b.pkt.y)
           /\ EjectRow(l, x, b) = IF b.pkt.y < By THEN b.pkt.y ELSE By
<1>1. /\ b \in Byte /\ b.pkt \in Packet /\ b.pos \in Nat /\ b.pos >= 2 /\ b.sop \in BOOLEAN
      /\ b.vc = VcOnboard /\ (b.sop <=> b.pos = 2)
  BY BytesTyped, Addresses DEF OnBoard
<1>2. b.pkt.x \in 0..15 /\ b.pkt.y \in 0..15 /\ By \in 1..16
  BY <1>1, Addresses
<1>3. ASSUME NEW y \in Row, y <= b.pkt.y
      PROVE  EjectMatch(l, x, y, b) <=> y = b.pkt.y
  <2>1. CASE b.sop
    <3>1. Data(b) = 16 * b.pkt.x + b.pkt.y
      BY <1>1, <2>1 DEF Data
    <3>2. Data(b) = 16 * x + y <=> y = b.pkt.y
      <4>1. y \in 0..15
        BY <1>2, <1>3 DEF Row
      <4> QED BY <1>2, <3>1, <4>1
    <3> QED BY <1>1, <2>1, <3>2 DEF EjectMatch
  <2>2. CASE ~b.sop
    <3>1. Cur(b) = <<b.pkt, b.pos>> /\ Cur(b) # Idle /\ Cur(b)[1] = b.pkt
      BY <2>2, NotIdle DEF Cur
    <3>2. ejectHold[l][x][y] <=> y = b.pkt.y
      BY <1>3, <3>1 DEF TurnOK
    <3> QED BY <2>2, <3>2 DEF EjectMatch
  <2> QED BY <2>1, <2>2
<1> DEFINE S == {y \in Row : EjectMatch(l, x, y, b)} \cup {By}
           least == IF b.pkt.y < By THEN b.pkt.y ELSE By
<1>4. least \in S /\ \A s \in S : s \in Int /\ least <= s
  <2>1. CASE b.pkt.y < By
    <3>0. b.pkt.y \in Row /\ b.pkt.y <= b.pkt.y
      <4>1. \A py \in 0..15 : py < By => py \in Row /\ py <= py
        BY <1>2 DEF Row
      <4> QED BY <1>2, <2>1, <4>1, Zenon
    <3>1. b.pkt.y \in Row /\ EjectMatch(l, x, b.pkt.y, b)
      BY <1>3, <3>0, Zenon
    <3>2. \A y \in Row : EjectMatch(l, x, y, b) => b.pkt.y <= y
      BY <1>2, <1>3 DEF Row
    <3> QED BY <1>2, <2>1, <3>1, <3>2 DEF Row
  <2>2. CASE ~(b.pkt.y < By)
    <3>1. ASSUME NEW y \in Row PROVE ~EjectMatch(l, x, y, b)
      <4>1. y <= b.pkt.y /\ y # b.pkt.y
        <5>1. \A py \in 0..15 : ~(py < By) => y <= py /\ y # py
          BY <1>2, <3>1 DEF Row
        <5> QED BY <1>2, <2>2, <5>1, Zenon
      <4> QED BY <1>3, <3>1, <4>1, Zenon
    <3> QED BY <1>2, <2>2, <3>1
  <2> QED BY <2>1, <2>2
<1>5. Min(S) = least
  <2> HIDE DEF S, least
  <2> QED BY <1>4 DEF Min
<1> QED BY <1>3, <1>5 DEF EjectRow

(* The turn gate lets in the packets of its column.                        *)
LEMMA TurnDecides ==
    ASSUME NEW l \in Layer, NEW x \in Col, NEW b, OnBoard(b), TurnOK(l, x, Cur(b))
    PROVE  TurnMatch(l, x, b) <=> b.pkt.x = x
<1>1. /\ b.pkt \in Packet /\ b.pos \in Nat /\ b.sop \in BOOLEAN
      /\ b.vc = VcOnboard /\ (b.sop <=> b.pos = 2)
  BY BytesTyped, Addresses DEF OnBoard
<1>2. b.pkt.x \in 0..15 /\ b.pkt.y \in 0..15
  BY <1>1, Addresses
<1>3. CASE b.sop
  <2>1. Data(b) = 16 * b.pkt.x + b.pkt.y
    BY <1>1, <1>3 DEF Data
  <2>2. Data(b) \div 16 = b.pkt.x
    BY <1>2, <2>1
  <2> QED BY <1>1, <1>3, <2>2 DEF TurnMatch
<1>4. CASE ~b.sop
  <2>1. Cur(b) = <<b.pkt, b.pos>> /\ Cur(b) # Idle /\ Cur(b)[1] = b.pkt
    BY <1>4, NotIdle DEF Cur
  <2> QED BY <1>4, <2>1 DEF TurnOK, TurnMatch
<1> QED BY <1>3, <1>4

-----------------------------------------------------------------------------
(* A byte enters column x of board l.                                      *)
HoldShapes == /\ turnHold \in [Layer -> [Col -> BOOLEAN]]
              /\ ejectHold \in [Layer -> [Col -> [Row -> BOOLEAN]]]

(* The gates of another column keep their bits.                            *)
OtherHolds(l, x) == \A m \in Layer, z \in Col :
    m # l \/ z # x => turnHold'[m][z] = turnHold[m][z] /\ ejectHold'[m][z] = ejectHold[m][z]

LEMMA HoldsTaken ==
    ASSUME HoldShapes, NEW l \in Layer, NEW x \in Col, NEW b, OnBoard(b),
           TurnOK(l, x, Cur(b)), NEW ln, BoardAccept(l, x, b, ln)
    PROVE  HoldShapes' /\ TurnOK(l, x, After(b))' /\ OtherHolds(l, x)
<1>1. /\ b.pkt \in Packet /\ b.pos \in Nat /\ b.sop \in BOOLEAN /\ b.pkt.y \in 0..15 /\ By \in 1..16
  BY BytesTyped, Addresses DEF OnBoard
<1>2. TurnMatch(l, x, b) <=> b.pkt.x = x
  BY TurnDecides
<1> DEFINE row == EjectRow(l, x, b)
           bits == [r \in Row |-> IF r > row THEN ejectHold[l][x][r] ELSE r = row]
<1>3. turnHold' = IF b.sop THEN [turnHold EXCEPT ![l][x] = TurnMatch(l, x, b)] ELSE turnHold
  BY DEF BoardAccept
<1>4. IF b.sop /\ b.pkt.x = x THEN ejectHold' = [ejectHold EXCEPT ![l][x] = bits]
                              ELSE ejectHold' = ejectHold
  BY <1>2 DEF BoardAccept, ColumnAccept
<1>5. bits \in [Row -> BOOLEAN] /\ \A r \in Row : bits[r] <=> IF r > row THEN ejectHold[l][x][r] ELSE r = row
  <2>1. ASSUME NEW r \in Row PROVE (IF r > row THEN ejectHold[l][x][r] ELSE r = row) \in BOOLEAN
    <3>1. ejectHold[l][x][r] \in BOOLEAN
      BY <2>1 DEF HoldShapes
    <3> QED BY <3>1
  <2> QED BY <2>1, Zenon
<1> HIDE DEF bits, row
<1>6. TurnMatch(l, x, b) \in BOOLEAN
  BY DEF TurnMatch, HoldShapes
<1>7. HoldShapes' /\ OtherHolds(l, x)
  <2>1. turnHold' \in [Layer -> [Col -> BOOLEAN]]
    BY <1>3, <1>6 DEF HoldShapes
  <2>2. ejectHold' \in [Layer -> [Col -> [Row -> BOOLEAN]]]
    <3>1. ejectHold' = ejectHold \/ ejectHold' = [ejectHold EXCEPT ![l] = [ejectHold[l] EXCEPT ![x] = bits]]
      BY <1>4
    <3>2. [ejectHold[l] EXCEPT ![x] = bits] \in [Col -> [Row -> BOOLEAN]]
      BY <1>5 DEF HoldShapes
    <3> HIDE DEF HoldShapes
    <3>3. ejectHold \in [Layer -> [Col -> [Row -> BOOLEAN]]]
      BY DEF HoldShapes
    <3> QED BY <3>1, <3>2, <3>3
  <2>3. \A m \in Layer, z \in Col : m # l \/ z # x => turnHold'[m][z] = turnHold[m][z]
    BY <1>3 DEF HoldShapes
  <2>4. \A m \in Layer, z \in Col : m # l \/ z # x => ejectHold'[m][z] = ejectHold[m][z]
    BY <1>4 DEF HoldShapes
  <2> QED BY <2>1, <2>2, <2>3, <2>4 DEF HoldShapes, OtherHolds
<1>8. turnHold'[l][x] <=> b.pkt.x = x
  <2>1. CASE b.sop
    BY <1>2, <1>3, <1>6, <2>1 DEF HoldShapes
  <2>2. CASE ~b.sop
    <3>1. Cur(b) # Idle /\ Cur(b)[1] = b.pkt
      BY <2>2, NotIdle DEF Cur
    <3> QED BY <1>3, <2>2, <3>1 DEF TurnOK
  <2> QED BY <2>1, <2>2
<1>9. ASSUME b.pkt.x = x, NEW r \in Row, r <= b.pkt.y
      PROVE  ejectHold'[l][x][r] <=> r = b.pkt.y
  <2>1. CASE b.sop
    <3>1. ejectHold'[l][x][r] <=> IF r > row THEN ejectHold[l][x][r] ELSE r = row
      BY <1>4, <1>5, <1>9, <2>1 DEF HoldShapes
    <3>2. row = IF b.pkt.y < By THEN b.pkt.y ELSE By
      BY <1>9, RowChosen DEF HoldShapes, row
    <3>3. r \in 0..(By - 1)
      BY <1>9 DEF Row
    <3>4. ~(r > row) /\ (r = row <=> r = b.pkt.y)
      <4>1. \A y \in 0..15 : r <= y => LET w == IF y < By THEN y ELSE By
                                       IN  ~(r > w) /\ (r = w <=> r = y)
        BY <1>1, <3>3
      <4> QED BY <1>1, <1>9, <3>2, <4>1, Zenon
    <3> QED BY <3>1, <3>4
  <2>2. CASE ~b.sop
    <3>1. Cur(b) # Idle /\ Cur(b)[1] = b.pkt
      BY <2>2, NotIdle DEF Cur
    <3>2. ejectHold' = ejectHold
      BY <1>4, <2>2
    <3>3. ejectHold[l][x][r] <=> r = b.pkt.y
      BY <1>9, <3>1 DEF TurnOK
    <3> QED BY <3>2, <3>3
  <2> QED BY <2>1, <2>2
<1>10. TurnOK(l, x, After(b))'
  <2>1. CASE b.eop
    BY <2>1 DEF After, TurnOK
  <2>2. CASE ~b.eop
    <3>1. After(b)[1] = b.pkt
      BY <2>2, NotIdle DEF After
    <3> QED BY <1>8, <1>9, <3>1 DEF TurnOK
  <2> QED BY <2>1, <2>2
<1> QED BY <1>7, <1>10

(* What a cursor at b lets through, by b's addresses.                      *)
LEMMA Passing ==
    ASSUME NEW b
    PROVE  /\ \A l : /\ ForLayer(b.pkt, l) => Past(l, Cur(b)) = Idle /\ Past(l, After(b)) = Idle
                     /\ ~ForLayer(b.pkt, l) => /\ Past(l, Cur(b)) = Cur(b) /\ Past(l, After(b)) = After(b)
                                               /\ Into(l, Cur(b)) = Idle /\ Into(l, After(b)) = Idle
           /\ \A x : /\ b.pkt.x = x => PastCol(x, Cur(b)) = Idle /\ PastCol(x, After(b)) = Idle
                     /\ b.pkt.x # x => PastCol(x, Cur(b)) = Cur(b) /\ PastCol(x, After(b)) = After(b)
           /\ \A x, y : /\ b.pkt.x = x /\ b.pkt.y = y =>
                              IntoNode(x, y, Cur(b)) = Cur(b) /\ IntoNode(x, y, After(b)) = After(b)
                        /\ ~(b.pkt.x = x /\ b.pkt.y = y) =>
                              IntoNode(x, y, Cur(b)) = Idle /\ IntoNode(x, y, After(b)) = Idle
<1>1. /\ Cur(b) = Idle \/ (Cur(b) # Idle /\ Cur(b)[1] = b.pkt)
      /\ After(b) = Idle \/ (After(b) # Idle /\ After(b)[1] = b.pkt)
  BY NotIdle DEF Cur, After
<1> QED BY <1>1 DEF Past, Into, PastCol, IntoNode

(* No node has a column or a row the board does not have.                  *)
LEMMA Unaddressed ==
    ASSUME NEW p \in Packet, p.x \notin Col \/ p.y \notin Row
    PROVE  Dest(p) = {}
BY DEF Dest, Node

LEMMA Addressed ==
    ASSUME NEW l \in Layer, NEW x \in Col, NEW y \in Row, NEW p \in Packet,
           ForLayer(p, l), p.x = x, p.y = y
    PROVE  <<l, x, y>> \in Dest(p)
BY DEF Dest, Node, ForLayer

LEMMA ResidualAdds ==
    ASSUME ResidualOK, NEW p \in Packet, Dest(p) = {}, residual' = residual \cup {p}
    PROVE  ResidualOK'
BY DEF ResidualOK, Dest

(* Node n's port takes a byte.                                             *)
LEMMA PortTakes ==
    ASSUME NodesOK, port \in [Node -> Reg], NEW n \in Node, NEW b, NodeByte(n, b),
           port' = [port EXCEPT ![n] = <<b>>], got' = got
    PROVE  NodesOK' /\ port' \in [Node -> Reg] /\ port'[n] = <<b>>
           /\ \A m \in Node : m # n => port'[m] = port[m]
<1>1. b \in Byte
  BY DEF NodeByte, OnBoard
<1>2. /\ port' \in [Node -> Reg] /\ port'[n] = <<b>>
      /\ \A m \in Node : m # n => port'[m] = port[m]
  BY <1>1, Registers
<1>3. NodesOK'
  <2>1. ASSUME NEW m \in Node, port'[m] # <<>> PROVE NodeByte(m, port'[m][1])
    <3>1. CASE m = n
      <4>1. port'[m][1] = b
        BY <1>2, <3>1
      <4> QED BY <3>1, <4>1
    <3>2. CASE m # n
      BY <1>2, <2>1, <3>2 DEF NodesOK
    <3> QED BY <3>1, <3>2
  <2> QED BY <2>1 DEF NodesOK, NodeByte, OnBoard, Dest, ForLayer, Cur, After, Node, Layer, Col, Row, Byte
<1> QED BY <1>2, <1>3

(* The ports of column x of board l once it has taken b.                   *)
PortsTaken(l, x, b) ==
    /\ port' \in [Node -> Reg]
    /\ \A y \in Row : PortLink(l, x, y, After(b))'
    /\ \A m \in Layer, z \in Col, y \in Row :
          m # l \/ z # x => port'[<<m, z, y>>] = port[<<m, z, y>>]

PortsFree(l, x, b) == \A y \in Row : PortLink(l, x, y, Cur(b))

(* A byte that is not for row y says nothing about its port.               *)
LEMMA OtherRow ==
    ASSUME NEW l, NEW x, NEW y, NEW b, PortLink(l, x, y, Cur(b)),
           ~(b.pkt.x = x /\ b.pkt.y = y),
           port'[<<l, x, y>>] = port[<<l, x, y>>], got' = got
    PROVE  PortLink(l, x, y, After(b))'
<1>1. IntoNode(x, y, Cur(b)) = Idle /\ IntoNode(x, y, After(b)) = Idle
  BY Passing
<1>2. Link(port[<<l, x, y>>], Idle, NodeCur(<<l, x, y>>))
  BY <1>1 DEF PortLink
<1>3. NodeCur(<<l, x, y>>)' = NodeCur(<<l, x, y>>)
  BY DEF NodeCur
<1> QED BY <1>1, <1>2, <1>3 DEF PortLink

LEMMA PortsKept ==
    ASSUME port \in [Node -> Reg], NEW l \in Layer, NEW x \in Col, NEW b,
           PortsFree(l, x, b), port' = port, got' = got,
           \A y \in Row : ~(b.pkt.x = x /\ b.pkt.y = y)
    PROVE  PortsTaken(l, x, b)
<1>1. ASSUME NEW y \in Row PROVE PortLink(l, x, y, After(b))'
  <2>1. PortLink(l, x, y, Cur(b)) /\ ~(b.pkt.x = x /\ b.pkt.y = y)
    BY <1>1 DEF PortsFree
  <2>2. port'[<<l, x, y>>] = port[<<l, x, y>>]
    OBVIOUS
  <2> QED BY <2>1, <2>2, OtherRow
<1> QED BY <1>1 DEF PortsTaken

LEMMA NodesKept ==
    ASSUME NodesOK, port' = port, got' = got
    PROVE  NodesOK'
BY DEF NodesOK, NodeByte, OnBoard, Dest, ForLayer, Cur, After, Node, Layer, Col, Row, Byte

LEMMA ResidualKept ==
    ASSUME ResidualOK, residual' = residual
    PROVE  ResidualOK'
BY DEF ResidualOK, Dest

LEMMA ColumnTakes ==
    ASSUME port \in [Node -> Reg], HoldShapes, NodesOK, ResidualOK,
           NEW l \in Layer, NEW x \in Col, NEW b, OnBoard(b), ForLayer(b.pkt, l),
           TurnOK(l, x, Cur(b)), PortsFree(l, x, b), got' = got,
           b.pkt.x = x, ColumnAccept(l, x, b)
    PROVE  PortsTaken(l, x, b) /\ NodesOK' /\ ResidualOK'
<1>1. b \in Byte /\ b.pkt \in Packet /\ b.pkt.y \in 0..15 /\ By \in 1..16
  BY BytesTyped, Addresses DEF OnBoard
<1>2. EjectRow(l, x, b) = IF b.pkt.y < By THEN b.pkt.y ELSE By
  BY RowChosen DEF HoldShapes
<1>3. CASE b.pkt.y < By
  <2> DEFINE y == b.pkt.y
             n == <<l, x, y>>
  <2>1. y \in Row
    BY <1>1, <1>3 DEF Row
  <2>2. n \in Node
    BY <2>1 DEF Node
  <2>3. EjectRow(l, x, b) = y
    BY <1>2, <1>3
  <2>4. port[n] = <<>> /\ port' = [port EXCEPT ![n] = <<b>>] /\ residual' = residual
    BY <1>3, <2>3 DEF ColumnAccept, PortReady
  <2>5. NodeByte(n, b)
    BY <1>1, <2>1, Addressed DEF NodeByte
  <2>6. NodesOK' /\ port' \in [Node -> Reg] /\ port'[n] = <<b>>
        /\ \A m \in Node : m # n => port'[m] = port[m]
    <3> HIDE DEF n
    <3> QED BY <2>2, <2>4, <2>5, PortTakes
  <2>7. PortLink(l, x, y, After(b))'
    <3>1. IntoNode(x, y, Cur(b)) = Cur(b) /\ IntoNode(x, y, After(b)) = After(b)
      BY Passing
    <3>2. Link(<<>>, Cur(b), NodeCur(n))
      BY <2>1, <2>4, <3>1 DEF PortsFree, PortLink
    <3>3. Link(<<b>>, After(b), NodeCur(n))
      BY <3>2, Filled
    <3>4. NodeCur(n)' = NodeCur(n)
      BY DEF NodeCur
    <3> QED BY <2>6, <3>1, <3>3, <3>4 DEF PortLink
  <2>8. ASSUME NEW z \in Row, z # y PROVE PortLink(l, x, z, After(b))'
    <3>1. <<l, x, z>> \in Node /\ <<l, x, z>> # n
      BY <2>8 DEF Node
    <3>2. port'[<<l, x, z>>] = port[<<l, x, z>>]
      BY <2>6, <3>1
    <3>3. PortLink(l, x, z, Cur(b)) /\ ~(b.pkt.x = x /\ b.pkt.y = z)
      BY <2>8 DEF PortsFree
    <3> QED BY <3>2, <3>3, OtherRow
  <2>9. ASSUME NEW m \in Layer, NEW z \in Col, NEW r \in Row, m # l \/ z # x
        PROVE  port'[<<m, z, r>>] = port[<<m, z, r>>]
    <3>1. <<m, z, r>> \in Node /\ <<m, z, r>> # n
      BY <2>9 DEF Node
    <3> QED BY <2>6, <3>1
  <2>10. ResidualOK'
    BY <2>4, ResidualKept
  <2>11. ASSUME NEW z \in Row PROVE PortLink(l, x, z, After(b))'
    <3>1. CASE z = y
      BY <2>7, <3>1
    <3>2. CASE z # y
      BY <2>8, <3>2
    <3> QED BY <3>1, <3>2
  <2> QED BY <2>6, <2>9, <2>10, <2>11 DEF PortsTaken
<1>4. CASE ~(b.pkt.y < By)
  <2>1. b.pkt.y \notin Row
    BY <1>1, <1>4 DEF Row
  <2>2. port' = port /\ residual' = residual \cup {b.pkt}
    <3>1. EjectRow(l, x, b) = By /\ ~(By < By)
      BY <1>1, <1>2, <1>4
    <3> QED BY <3>1 DEF ColumnAccept
  <2>3. Dest(b.pkt) = {}
    BY <1>1, <2>1, Unaddressed
  <2>4. ResidualOK'
    BY <1>1, <2>2, <2>3, ResidualAdds
  <2>5. PortsTaken(l, x, b)
    BY <2>1, <2>2, PortsKept
  <2> QED BY <2>2, <2>4, <2>5, NodesKept
<1> QED BY <1>3, <1>4

(* Board l once column x has taken b: the gates, the ports and the lane    *)
(* register after the column, ln being the lane without b.                 *)
LaneShape == [Layer -> [0..(Bx - 2) -> Reg]]

BoardTook(l, x, b, ln, down) ==
    /\ HoldShapes' /\ TurnOK(l, x, After(b))' /\ OtherHolds(l, x)
    /\ PortsTaken(l, x, b) /\ NodesOK' /\ ResidualOK'
    /\ lane' \in LaneShape
    /\ \A m \in Layer, z \in 0..(Bx - 2) : m # l \/ z # x => lane'[m][z] = ln[m][z]
    /\ x < Bx - 1 => LaneSlot(l, x, lane'[l][x], After(b), down)

LEMMA BoardTakes ==
    ASSUME port \in [Node -> Reg], lane \in LaneShape, HoldShapes, NodesOK, ResidualOK,
           NEW l \in Layer, NEW x \in Col, NEW b, OnBoard(b), ForLayer(b.pkt, l),
           \A k \in 0..(x - 1) : b.pkt.x # k,
           TurnOK(l, x, Cur(b)), PortsFree(l, x, b), got' = got,
           NEW ln \in LaneShape, NEW down,
           x < Bx - 1 => /\ ln[l][x] = lane[l][x]
                         /\ LaneSlot(l, x, lane[l][x], Cur(b), down),
           BoardAccept(l, x, b, ln)
    PROVE  BoardTook(l, x, b, ln, down)
<1>1. HoldShapes' /\ TurnOK(l, x, After(b))' /\ OtherHolds(l, x)
  BY HoldsTaken
<1>2. TurnMatch(l, x, b) <=> b.pkt.x = x
  BY TurnDecides
<1>3. b \in Byte /\ b.pkt \in Packet /\ b.pkt.x \in 0..15 /\ Bx \in 1..16
  BY BytesTyped, Addresses DEF OnBoard
<1>4. CASE b.pkt.x = x
  <2>1. ColumnAccept(l, x, b) /\ lane' = ln
    BY <1>2, <1>4 DEF BoardAccept
  <2>2. PortsTaken(l, x, b) /\ NodesOK' /\ ResidualOK'
    BY <1>4, <2>1, ColumnTakes
  <2>3. ASSUME x < Bx - 1 PROVE LaneSlot(l, x, lane'[l][x], After(b), down)
    <3>1. lane'[l][x] = lane[l][x] /\ LaneSlot(l, x, lane[l][x], Cur(b), down)
      BY <2>1, <2>3
    <3>2. PastCol(x, Cur(b)) = Idle /\ PastCol(x, After(b)) = Idle
      BY <1>4, Passing
    <3> QED BY <3>1, <3>2 DEF LaneSlot
  <2> QED BY <1>1, <2>1, <2>2, <2>3 DEF BoardTook
<1>5. CASE b.pkt.x # x /\ x < Bx - 1
  <2>1. /\ lane[l][x] = <<>> /\ lane' = [ln EXCEPT ![l][x] = <<b>>]
        /\ port' = port /\ residual' = residual
    BY <1>2, <1>3, <1>5 DEF BoardAccept
  <2>2. PortsTaken(l, x, b)
    BY <1>5, <2>1, PortsKept
  <2>3. NodesOK' /\ ResidualOK'
    BY <2>1, NodesKept, ResidualKept
  <2>4. x \in 0..(Bx - 2)
    BY <1>3, <1>5 DEF Col
  <2>5. /\ lane' \in LaneShape /\ lane'[l][x] = <<b>>
        /\ \A m \in Layer, z \in 0..(Bx - 2) : m # l \/ z # x => lane'[m][z] = ln[m][z]
    BY <1>3, <2>1, <2>4, Registers DEF LaneShape
  <2>6. LaneSlot(l, x, <<b>>, After(b), down)
    <3>1. PastCol(x, Cur(b)) = Cur(b) /\ PastCol(x, After(b)) = After(b)
      BY <1>5, Passing
    <3>2. Link(<<>>, Cur(b), down)
      BY <1>5, <2>1, <3>1 DEF LaneSlot
    <3>3. Link(<<b>>, After(b), down)
      BY <3>2, Filled
    <3>4. LaneByte(l, x, b)
      <4>1. \A k \in 0..x : b.pkt.x # k
        BY <1>5 DEF Col
      <4> QED BY <4>1 DEF LaneByte
    <3>5. <<b>>[1] = b
      OBVIOUS
    <3> QED BY <3>1, <3>3, <3>4, <3>5 DEF LaneSlot
  <2> QED BY <1>1, <2>2, <2>3, <2>5, <2>6 DEF BoardTook
<1>6. CASE b.pkt.x # x /\ ~(x < Bx - 1)
  <2>1. /\ lane' = ln /\ residual' = residual \cup {b.pkt} /\ port' = port
    BY <1>2, <1>6 DEF BoardAccept
  <2>2. PortsTaken(l, x, b)
    BY <1>6, <2>1, PortsKept
  <2>3. b.pkt.x \notin Col
    BY <1>3, <1>6 DEF Col
  <2>4. ResidualOK'
    BY <1>3, <2>1, <2>3, Unaddressed, ResidualAdds
  <2> QED BY <1>1, <1>6, <2>1, <2>2, <2>4, NodesKept DEF BoardTook
<1> QED BY <1>4, <1>5, <1>6

-----------------------------------------------------------------------------
(* A board's cursors, before and after.                                    *)
SameBoard(m) ==
    /\ \A z \in Col : turnHold'[m][z] = turnHold[m][z] /\ ejectHold'[m][z] = ejectHold[m][z]
    /\ \A z \in 0..(Bx - 2) : lane'[m][z] = lane[m][z]
    /\ \A z \in Col, y \in Row : port'[<<m, z, y>>] = port[<<m, z, y>>]

LEMMA TurnKept ==
    ASSUME NEW m, NEW z, NEW c, TurnOK(m, z, c), turnHold'[m][z] = turnHold[m][z],
           ejectHold'[m][z] = ejectHold[m][z]
    PROVE  TurnOK(m, z, c)'
BY DEF TurnOK

LEMMA PortKept ==
    ASSUME NEW m, NEW z, NEW y, NEW c, PortLink(m, z, y, c), got' = got,
           port'[<<m, z, y>>] = port[<<m, z, y>>]
    PROVE  PortLink(m, z, y, c)'
<1>1. NodeCur(<<m, z, y>>)' = NodeCur(<<m, z, y>>)
  BY DEF NodeCur
<1> QED BY <1>1 DEF PortLink

LEMMA BoardKept ==
    ASSUME NEW m \in Layer, NEW c, NEW d, NEW g, BoardFlow(m, c, g), Into(m, d) = Into(m, c),
           SameBoard(m), got' = got
    PROVE  BoardFlow(m, d, g)'
<1>1. ASSUME NEW z \in Col PROVE TurnOK(m, z, g[z])'
  <2>1. TurnOK(m, z, g[z]) /\ turnHold'[m][z] = turnHold[m][z] /\ ejectHold'[m][z] = ejectHold[m][z]
    BY <1>1 DEF BoardFlow, SameBoard
  <2> QED BY <2>1, TurnKept
<1>2. ASSUME NEW z \in 0..(Bx - 2) PROVE LaneLink(m, z, g)'
  <2>1. LaneLink(m, z, g) /\ lane'[m][z] = lane[m][z]
    BY <1>2 DEF BoardFlow, SameBoard
  <2> QED BY <2>1 DEF LaneLink
<1>3. ASSUME NEW z \in Col, NEW y \in Row PROVE PortLink(m, z, y, g[z])'
  <2>1. PortLink(m, z, y, g[z]) /\ port'[<<m, z, y>>] = port[<<m, z, y>>]
    BY <1>3 DEF BoardFlow, SameBoard
  <2> QED BY <2>1, PortKept
<1>4. g[0] = Into(m, d)
  BY DEF BoardFlow
<1> QED BY <1>1, <1>2, <1>3, <1>4 DEF BoardFlow

(* Column x's cursor goes on by the byte it took; the lane register before *)
(* it, if the byte came from there, is empty.                              *)
LEMMA BoardStep ==
    ASSUME NEW l \in Layer, NEW x \in Col, NEW b, NEW c, NEW d, NEW g \in [Col -> Cursor],
           BoardFlow(l, c, g), g[x] = Cur(b), NEW ln, got' = got,
           BoardTook(l, x, b, ln, g[x + 1]),
           \A z \in 0..(Bx - 2) : z # x - 1 => ln[l][z] = lane[l][z],
           IF x = 0 THEN Into(l, d) = After(b)
                    ELSE d = c /\ lane[l][x - 1] = <<b>> /\ ln[l][x - 1] = <<>>
    PROVE  BoardFlow(l, d, [g EXCEPT ![x] = After(b)])'
<1> DEFINE h == [g EXCEPT ![x] = After(b)]
<1>1. h[x] = After(b) /\ \A z \in Col : z # x => h[z] = g[z]
  OBVIOUS
<1>2. Bx \in 1..16
  BY Addresses
<1> HIDE DEF h
<1>3. ASSUME NEW z \in Col PROVE TurnOK(l, z, h[z])'
  <2>1. CASE z = x
    BY <1>1, <2>1 DEF BoardTook
  <2>2. CASE z # x
    <3>1. TurnOK(l, z, h[z])
      BY <1>1, <1>3, <2>2 DEF BoardFlow
    <3>2. turnHold'[l][z] = turnHold[l][z] /\ ejectHold'[l][z] = ejectHold[l][z]
      BY <1>3, <2>2 DEF BoardTook, OtherHolds
    <3> QED BY <3>1, <3>2, TurnKept
  <2> QED BY <2>1, <2>2
<1>4. ASSUME NEW z \in 0..(Bx - 2) PROVE LaneLink(l, z, h)'
  <2>0. z \in Col /\ z + 1 \in Col /\ z # z + 1
    BY <1>2 DEF Col
  <2>1. CASE z = x
    <3>1. x < Bx - 1
      BY <1>2, <1>4, <2>1
    <3>2. LaneSlot(l, x, lane'[l][x], After(b), g[x + 1])
      BY <3>1 DEF BoardTook
    <3>3. h[x] = After(b) /\ h[x + 1] = g[x + 1]
      BY <1>1, <2>0, <2>1
    <3> QED BY <2>1, <3>2, <3>3 DEF LaneLink
  <2>2. CASE z # x /\ z + 1 = x
    <3>1. x # 0 /\ x - 1 = z
      BY <1>4, <2>2
    <3>2. lane[l][z] = <<b>> /\ ln[l][z] = <<>>
      BY <3>1
    <3>3. lane'[l][z] = <<>>
      BY <1>4, <2>2, <3>2 DEF BoardTook
    <3>4. Link(<<b>>, PastCol(z, g[z]), g[z + 1])
      BY <1>4, <3>2 DEF BoardFlow, LaneLink, LaneSlot
    <3>5. Link(<<>>, PastCol(z, g[z]), After(b))
      BY <3>4, Emptied
    <3>6. h[z] = g[z] /\ h[z + 1] = After(b)
      BY <1>1, <2>0, <2>2
    <3> QED BY <3>3, <3>5, <3>6 DEF LaneLink, LaneSlot
  <2>3. CASE z # x /\ z + 1 # x
    <3>1. lane'[l][z] = lane[l][z]
      <4>1. z # x - 1
        BY <1>4, <2>3 DEF Col
      <4> QED BY <1>4, <2>3, <4>1 DEF BoardTook
    <3>2. LaneLink(l, z, g)
      BY <1>4 DEF BoardFlow
    <3>3. h[z] = g[z] /\ h[z + 1] = g[z + 1]
      BY <1>1, <2>0, <2>3
    <3> QED BY <3>1, <3>2, <3>3 DEF LaneLink
  <2> QED BY <2>1, <2>2, <2>3
<1>5. ASSUME NEW z \in Col, NEW y \in Row PROVE PortLink(l, z, y, h[z])'
  <2>1. CASE z = x
    BY <1>1, <1>5, <2>1 DEF BoardTook, PortsTaken
  <2>2. CASE z # x
    <3>1. PortLink(l, z, y, h[z])
      BY <1>1, <1>5, <2>2 DEF BoardFlow
    <3>2. port'[<<l, z, y>>] = port[<<l, z, y>>]
      BY <1>5, <2>2 DEF BoardTook, PortsTaken
    <3> QED BY <3>1, <3>2, PortKept
  <2> QED BY <2>1, <2>2
<1>6. h[0] = Into(l, d)
  <2>1. 0 \in Col
    BY <1>2 DEF Col
  <2>2. g[0] = Into(l, c)
    BY DEF BoardFlow
  <2> QED BY <1>1, <2>1, <2>2
<1>7. BoardFlow(l, d, h)'
  BY <1>3, <1>4, <1>5, <1>6 DEF BoardFlow
<1> QED BY <1>7 DEF h

-----------------------------------------------------------------------------
(* The repeaters.                                                          *)
RptShapes == rptHold \in [Layer -> BOOLEAN] /\ rptStrip \in [Layer -> BOOLEAN]

LEMMA RepeaterDecides ==
    ASSUME NEW l \in Layer, NEW b, SpineByte(b), RptOK(l, Cur(b)), RptShapes
    PROVE  RepeaterMatch(l, b) <=> ForLayer(b.pkt, l)
<1>1. /\ b.pkt \in Packet /\ b.pos \in Nat /\ b.sop \in BOOLEAN
      /\ b.vc = b.pkt.vc /\ (b.sop <=> b.pos = 1)
  BY BytesTyped DEF SpineByte
<1>2. CASE b.sop
  <2>1. Data(b) = b.pkt.layer
    BY <1>1, <1>2 DEF Data
  <2> QED BY <1>1, <1>2, <2>1 DEF RepeaterMatch, ForLayer
<1>3. CASE ~b.sop
  <2>1. Cur(b) # Idle /\ Cur(b)[1] = b.pkt
    BY <1>3, NotIdle DEF Cur
  <2>2. rptHold[l] <=> ForLayer(b.pkt, l)
    BY <2>1 DEF RptOK
  <2> QED BY <1>3, <2>2 DEF RepeaterMatch
<1> QED BY <1>2, <1>3

(* What the repeater hands to its board is a board byte, and goes through  *)
(* the packet as the repeater's own cursor does.                           *)
LEMMA HandsOver ==
    ASSUME NEW l \in Layer, NEW b, SpineByte(b), ~b.sop, ForLayer(b.pkt, l),
           RptOK(l, Cur(b)), RptShapes, NEW e, e = BoardByte(l, b)
    PROVE  /\ OnBoard(e) /\ e.pkt = b.pkt
           /\ Cur(e) = Into(l, Cur(b)) /\ After(e) = Into(l, After(b))
<1>1. /\ b \in Byte /\ b.pkt \in Packet /\ b.pos \in Nat /\ b.pos \in 1..b.pkt.len
      /\ b.eop \in BOOLEAN /\ (b.eop <=> b.pos = b.pkt.len)
      /\ b.pos # 1 /\ b.pkt.len \in Nat
  BY BytesTyped, Addresses DEF SpineByte
<1>2. Cur(b) = <<b.pkt, b.pos>>
  BY DEF Cur
<1>3. rptHold[l] /\ (rptStrip[l] <=> b.pos = 2)
  BY <1>2, NotIdle DEF RptOK
<1>4. rptStrip[l] \in BOOLEAN
  BY DEF RptShapes
<1>5. /\ e \in Byte /\ e.pkt = b.pkt /\ e.pos = b.pos /\ e.eop = b.eop
      /\ e.vc = VcOnboard /\ e.sop = rptStrip[l]
  <2>1. ASSUME NEW s \in BOOLEAN, NEW f, f = [b EXCEPT !.sop = s, !.vc = 3]
        PROVE  /\ f \in Byte /\ f.pkt = b.pkt /\ f.pos = b.pos /\ f.eop = b.eop
               /\ f.vc = 3 /\ f.sop = s
    <3>1. 3 \in 0..3
      OBVIOUS
    <3>2. f \in Byte
      BY <1>1, <2>1, <3>1, Zenon DEF Byte
    <3> QED BY <1>1, <2>1, <3>2 DEF Byte
  <2>2. e = [b EXCEPT !.sop = rptStrip[l], !.vc = 3]
    BY DEF BoardByte, VcOnboard
  <2>3. PICK s \in BOOLEAN : s = rptStrip[l]
    BY <1>4
  <2>4. e = [b EXCEPT !.sop = s, !.vc = 3]
    BY <2>2, <2>3
  <2> QED BY <2>1, <2>3, <2>4 DEF VcOnboard
<1>6. OnBoard(e)
  <2>1. b.pos \in 2..b.pkt.len
    BY <1>1
  <2> QED BY <1>1, <1>3, <1>5, <2>1 DEF OnBoard
<1>7. Cur(e) = Into(l, Cur(b))
  <2>1. b.pos > 2 <=> b.pos # 2
    BY <1>1
  <2>2. Into(l, <<b.pkt, b.pos>>) = IF b.pos > 2 THEN <<b.pkt, b.pos>> ELSE Idle
    BY NotIdle DEF Into
  <2>3. Cur(e) = IF b.pos = 2 THEN Idle ELSE <<b.pkt, b.pos>>
    BY <1>3, <1>4, <1>5 DEF Cur
  <2> QED BY <1>2, <2>1, <2>2, <2>3
<1>8. After(e) = Into(l, After(b))
  <2>1. After(e) = After(b)
    BY <1>5 DEF After
  <2>2. CASE b.eop
    BY <2>1, <2>2 DEF After, Into
  <2>3. CASE ~b.eop
    <3>1. After(b) = <<b.pkt, b.pos + 1>> /\ b.pos + 1 > 2
      BY <1>1, <2>3 DEF After
    <3>2. Into(l, <<b.pkt, b.pos + 1>>) = <<b.pkt, b.pos + 1>>
      BY <3>1, NotIdle DEF Into
    <3> QED BY <2>1, <3>1, <3>2
  <2> QED BY <2>2, <2>3
<1> QED BY <1>5, <1>6, <1>7, <1>8

(* A swallowed head opens nothing on the board yet.                        *)
LEMMA Swallowed ==
    ASSUME NEW l, NEW b, SpineByte(b), b.sop
    PROVE  /\ Into(l, Cur(b)) = Idle /\ Into(l, After(b)) = Idle
           /\ After(b) = <<b.pkt, 2>> /\ ~b.eop
<1>1. b.pkt \in Packet /\ b.pos = 1 /\ b.pkt.len >= 3 /\ b.pkt.len \in Nat /\ (b.eop <=> b.pos = b.pkt.len)
  BY BytesTyped, Addresses DEF SpineByte
<1>2. ~b.eop /\ b.pos + 1 = 2
  BY <1>1
<1>3. After(b) = <<b.pkt, 2>> /\ Cur(b) = Idle
  BY <1>2 DEF After, Cur
<1>4. Into(l, <<b.pkt, 2>>) = Idle
  BY NotIdle DEF Into
<1> QED BY <1>2, <1>3, <1>4 DEF Into

LEMMA RepeaterHolds ==
    ASSUME NEW l \in Layer, NEW b, SpineByte(b), RptOK(l, Cur(b)), RptShapes,
           NEW sp, RepeaterAccept(l, b, sp)
    PROVE  /\ RptShapes' /\ RptOK(l, After(b))'
           /\ \A m \in Layer : m # l => rptHold'[m] = rptHold[m] /\ rptStrip'[m] = rptStrip[m]
<1>1. RepeaterMatch(l, b) <=> ForLayer(b.pkt, l)
  BY RepeaterDecides
<1>2. /\ b.pos \in Nat /\ b.sop \in BOOLEAN /\ (b.sop <=> b.pos = 1) /\ b.pos >= 1
  BY BytesTyped, Addresses DEF SpineByte
<1>3. ~b.sop => rptHold[l] = ForLayer(b.pkt, l)
  <2>1. ASSUME ~b.sop PROVE Cur(b) # Idle /\ Cur(b)[1] = b.pkt
    BY <2>1, NotIdle DEF Cur
  <2> QED BY <2>1 DEF RptOK, RptShapes, ForLayer
<1>4. CASE ForLayer(b.pkt, l) /\ b.sop
  <2>1. rptHold' = [rptHold EXCEPT ![l] = TRUE] /\ rptStrip' = [rptStrip EXCEPT ![l] = TRUE]
    BY <1>1, <1>4 DEF RepeaterAccept
  <2>2. After(b) = <<b.pkt, 2>>
    BY <1>4, Swallowed
  <2>3. RptOK(l, <<b.pkt, 2>>)'
    BY <1>4, <2>1, NotIdle DEF RptOK, RptShapes, ForLayer
  <2> QED BY <2>1, <2>2, <2>3 DEF RptShapes
<1>5. CASE ForLayer(b.pkt, l) /\ ~b.sop
  <2>1. rptHold' = rptHold /\ rptStrip' = [rptStrip EXCEPT ![l] = FALSE]
    BY <1>1, <1>5 DEF RepeaterAccept
  <2>2. RptOK(l, <<b.pkt, b.pos + 1>>)'
    <3>1. b.pos + 1 # 2
      BY <1>2, <1>5
    <3> QED BY <1>3, <1>5, <2>1, <3>1, NotIdle DEF RptOK, RptShapes, ForLayer
  <2>3. RptOK(l, Idle)'
    BY DEF RptOK
  <2> QED BY <2>1, <2>2, <2>3 DEF RptShapes, After
<1>6. CASE ~ForLayer(b.pkt, l)
  <2>1. /\ rptHold' = IF b.sop THEN [rptHold EXCEPT ![l] = FALSE] ELSE rptHold
        /\ rptStrip' = rptStrip
    BY <1>1, <1>6 DEF RepeaterAccept
  <2>2. RptOK(l, <<b.pkt, b.pos + 1>>)'
    BY <1>3, <1>6, <2>1, NotIdle DEF RptOK, RptShapes, ForLayer
  <2>3. RptOK(l, Idle)'
    BY DEF RptOK
  <2> QED BY <2>1, <2>2, <2>3 DEF RptShapes, After
<1> QED BY <1>4, <1>5, <1>6

LEMMA SpineStep ==
    ASSUME NEW l \in Layer, NEW b, SpineByte(b), \A k \in 1..(l - 1) : ~ForLayer(b.pkt, k),
           NEW at \in Spines, at[l] = Cur(b), RptShapes,
           \A m \in Layer : RptOK(m, at[m]) /\ SpineLink(m, at),
           spine \in [Layer -> Reg], NEW sp \in [Layer -> Reg],
           \A m \in Layer : m # l - 1 => sp[m] = spine[m],
           l > 1 => spine[l - 1] = <<b>> /\ sp[l - 1] = <<>>,
           RepeaterAccept(l, b, sp), NEW au, au = [at EXCEPT ![l] = After(b)]
    PROVE  /\ spine' \in [Layer -> Reg] /\ RptShapes'
           /\ \A m \in Layer : RptOK(m, au[m])' /\ SpineLink(m, au)'
<1>1. NL \in 1..15 /\ b \in Byte
  BY Addresses DEF SpineByte
<1>2. \A m \in Layer : m \in 1..NL /\ m + 1 \in 1..(NL + 1) /\ m \in 1..(NL + 1) /\ m # m + 1
  BY <1>1 DEF Layer
<1>3. au[l] = After(b) /\ \A m \in 1..(NL + 1) : m # l => au[m] = at[m]
  BY <1>2 DEF Spines
<1>4. RepeaterMatch(l, b) <=> ForLayer(b.pkt, l)
  BY RepeaterDecides
<1>5. /\ RptShapes' /\ RptOK(l, After(b))'
      /\ \A m \in Layer : m # l => rptHold'[m] = rptHold[m] /\ rptStrip'[m] = rptStrip[m]
  BY RepeaterHolds
<1>6. /\ ForLayer(b.pkt, l) => spine' = sp
      /\ ~ForLayer(b.pkt, l) => spine[l] = <<>> /\ spine' = [sp EXCEPT ![l] = <<b>>]
  BY <1>4 DEF RepeaterAccept
<1>7. /\ spine' \in [Layer -> Reg]
      /\ \A m \in Layer : m # l => spine'[m] = sp[m]
      /\ spine'[l] = IF ForLayer(b.pkt, l) THEN sp[l] ELSE <<b>>
  <2>1. <<b>> \in Reg
    BY <1>1, Registers
  <2>2. CASE ForLayer(b.pkt, l)
    BY <1>6, <2>2
  <2>3. CASE ~ForLayer(b.pkt, l)
    BY <1>6, <2>1, <2>3
  <2> QED BY <2>2, <2>3
<1>8. ASSUME NEW m \in Layer PROVE RptOK(m, au[m])'
  <2>1. CASE m = l
    BY <1>3, <1>5, <2>1
  <2>2. CASE m # l
    <3>1. RptOK(m, au[m])
      BY <1>2, <1>3, <1>8, <2>2
    <3> QED BY <1>5, <1>8, <2>2, <3>1 DEF RptOK
  <2> QED BY <2>1, <2>2
<1>9. ASSUME NEW m \in Layer PROVE SpineLink(m, au)'
  <2>1. SpineSlot(m, spine[m], at[m], at[m + 1])
    BY <1>9 DEF SpineLink
  <2>2. CASE m = l
    <3>1. au[l] = After(b) /\ au[l + 1] = at[l + 1] /\ sp[l] = spine[l]
      <4>1. l # l - 1
        BY <1>2
      <4> QED BY <1>2, <1>3, <4>1
    <3>2. CASE ForLayer(b.pkt, l)
      <4>1. Past(l, Cur(b)) = Past(l, After(b))
        BY <3>2, Passing
      <4>2. SpineSlot(l, spine[l], After(b), at[l + 1])
        BY <2>1, <2>2, <4>1 DEF SpineSlot
      <4> QED BY <1>7, <2>2, <3>1, <3>2, <4>2 DEF SpineLink
    <3>3. CASE ~ForLayer(b.pkt, l)
      <4>1. Past(l, Cur(b)) = Cur(b) /\ Past(l, After(b)) = After(b)
        BY <3>3, Passing
      <4>2. Link(<<>>, Cur(b), at[l + 1])
        BY <1>6, <2>1, <2>2, <3>3, <4>1 DEF SpineSlot
      <4>3. Link(<<b>>, After(b), at[l + 1])
        BY <4>2, Filled
      <4>4. \A k \in 1..l : ~ForLayer(b.pkt, k)
        BY <1>2, <3>3
      <4>5. SpineSlot(l, <<b>>, After(b), at[l + 1])
        <5>1. <<b>>[1] = b
          OBVIOUS
        <5> QED BY <4>1, <4>3, <4>4, <5>1 DEF SpineSlot
      <4> QED BY <1>7, <2>2, <3>1, <3>3, <4>5 DEF SpineLink
    <3> QED BY <3>2, <3>3
  <2>3. CASE m + 1 = l
    <3>1. l > 1 /\ l - 1 = m /\ m # l
      BY <1>2, <2>3 DEF Layer
    <3>2. spine[m] = <<b>> /\ sp[m] = <<>>
      BY <3>1
    <3>3. spine'[m] = <<>>
      BY <1>7, <1>9, <3>1, <3>2
    <3>4. Link(<<b>>, Past(m, at[m]), at[m + 1])
      BY <2>1, <3>2 DEF SpineSlot
    <3>5. Link(<<>>, Past(m, at[m]), After(b))
      BY <3>4, Emptied
    <3>6. au[m] = at[m] /\ au[m + 1] = After(b)
      BY <1>2, <1>3, <1>9, <2>3, <3>1
    <3> QED BY <3>3, <3>5, <3>6 DEF SpineLink, SpineSlot
  <2>4. CASE m # l /\ m + 1 # l
    <3>1. spine'[m] = spine[m]
      <4>1. m # l - 1
        BY <1>2, <2>4
      <4> QED BY <1>7, <1>9, <2>4, <4>1
    <3>2. au[m] = at[m] /\ au[m + 1] = at[m + 1]
      BY <1>2, <1>3, <1>9, <2>4
    <3> QED BY <2>1, <3>1, <3>2 DEF SpineLink
  <2> QED BY <2>2, <2>3, <2>4
<1> QED BY <1>5, <1>7, <1>8, <1>9

BoardShapes == port \in [Node -> Reg] /\ lane \in LaneShape /\ HoldShapes

LEMMA BoardsStep ==
    ASSUME NEW l \in Layer, NEW b, SpineByte(b), NEW at \in Spines, at[l] = Cur(b),
           RptShapes, RptOK(l, Cur(b)), BoardShapes, NodesOK, ResidualOK,
           NEW bt \in Boards, \A m \in Layer : BoardFlow(m, at[m], bt[m]),
           NEW sp, RepeaterAccept(l, b, sp), got' = got,
           NEW au, au = [at EXCEPT ![l] = After(b)]
    PROVE  /\ BoardShapes' /\ NodesOK' /\ ResidualOK'
           /\ \E bu \in Boards : \A m \in Layer : BoardFlow(m, au[m], bu[m])'
<1>1. RepeaterMatch(l, b) <=> ForLayer(b.pkt, l)
  BY RepeaterDecides
<1>2. au[l] = After(b) /\ \A m \in Layer : m # l => au[m] = at[m]
  BY Addresses DEF Spines, Layer
<1>3. CASE ~(ForLayer(b.pkt, l) /\ ~b.sop)
  <2>1. UNCHANGED board
    BY <1>1, <1>3 DEF RepeaterAccept
  <2>2. /\ lane' = lane /\ port' = port /\ turnHold' = turnHold
        /\ ejectHold' = ejectHold /\ residual' = residual
    BY <2>1 DEF board
  <2>3. Into(l, After(b)) = Into(l, Cur(b))
    <3>1. CASE ForLayer(b.pkt, l)
      BY <1>3, <3>1, Swallowed
    <3>2. CASE ~ForLayer(b.pkt, l)
      BY <3>2, Passing
    <3> QED BY <3>1, <3>2
  <2>4. ASSUME NEW m \in Layer PROVE BoardFlow(m, au[m], bt[m])'
    <3>1. Into(m, au[m]) = Into(m, at[m])
      BY <1>2, <2>3, <2>4
    <3>2. SameBoard(m)
      BY <2>2 DEF SameBoard
    <3>3. BoardFlow(m, at[m], bt[m])
      OBVIOUS
    <3> HIDE DEF SameBoard
    <3> QED BY <2>4, <3>1, <3>2, <3>3, BoardKept
  <2>5. BoardShapes'
    BY <2>2 DEF BoardShapes, HoldShapes, LaneShape
  <2> QED BY <2>2, <2>4, <2>5, NodesKept, ResidualKept
<1>4. CASE ForLayer(b.pkt, l) /\ ~b.sop
  <2>1. PICK e : e = BoardByte(l, b)
    OBVIOUS
  <2>2. PICK ln : ln = lane
    OBVIOUS
  <2>3. BoardAccept(l, 0, e, ln)
    BY <1>1, <1>4, <2>1, <2>2 DEF RepeaterAccept
  <2>4. OnBoard(e) /\ e.pkt = b.pkt /\ Cur(e) = Into(l, Cur(b)) /\ After(e) = Into(l, After(b))
    BY <1>4, <2>1, HandsOver
  <2>5. PICK g \in [Col -> Cursor] : g = bt[l]
    BY DEF Boards
  <2>6. BoardFlow(l, at[l], g) /\ g[0] = Cur(e)
    <3>1. BoardFlow(l, at[l], g)
      BY <2>5
    <3> QED BY <2>4, <3>1 DEF BoardFlow
  <2>7. 0 \in Col /\ Bx \in 1..16 /\ \A k \in 0..(0 - 1) : e.pkt.x # k
    BY Addresses DEF Col
  <2>8. TurnOK(l, 0, Cur(e)) /\ PortsFree(l, 0, e)
    BY <2>6, <2>7 DEF BoardFlow, PortsFree
  <2>9. ForLayer(e.pkt, l)
    BY <1>4, <2>4
  <2>10. PICK down : down = g[0 + 1]
    OBVIOUS
  <2>11. ln \in LaneShape /\ (0 < Bx - 1 => /\ ln[l][0] = lane[l][0]
                                           /\ LaneSlot(l, 0, lane[l][0], Cur(e), down))
    <3>1. ASSUME 0 < Bx - 1 PROVE LaneSlot(l, 0, lane[l][0], Cur(e), down)
      <4>1. 0 \in 0..(Bx - 2)
        BY <2>7, <3>1
      <4>2. LaneLink(l, 0, g)
        BY <2>6, <4>1 DEF BoardFlow
      <4> QED BY <2>6, <2>10, <4>2 DEF LaneLink
    <3> QED BY <2>2, <3>1 DEF BoardShapes
  <2>12. BoardTook(l, 0, e, ln, down)
    BY <2>3, <2>4, <2>7, <2>8, <2>9, <2>11, BoardTakes DEF BoardShapes
  <2> DEFINE h == [g EXCEPT ![0] = After(e)]
             bu == [bt EXCEPT ![l] = h]
  <2>13. BoardFlow(l, After(b), h)'
    <3>1. BoardTook(l, 0, e, ln, g[0 + 1])
      BY <2>10, <2>12
    <3>2. \A z \in 0..(Bx - 2) : z # 0 - 1 => ln[l][z] = lane[l][z]
      BY <2>2
    <3>3. IF 0 = 0 THEN Into(l, After(b)) = After(e)
                   ELSE After(b) = at[l] /\ lane[l][0 - 1] = <<e>> /\ ln[l][0 - 1] = <<>>
      BY <2>4
    <3> QED BY <2>6, <2>7, <3>1, <3>2, <3>3, BoardStep
  <2>14. h \in [Col -> Cursor]
    BY <2>4, <2>7, CursorsTyped DEF OnBoard
  <2> HIDE DEF h
  <2>15. bu \in Boards /\ bu[l] = h /\ \A m \in Layer : m # l => bu[m] = bt[m]
    BY <2>14 DEF Boards
  <2> HIDE DEF bu
  <2>16. ASSUME NEW m \in Layer PROVE BoardFlow(m, au[m], bu[m])'
    <3>1. CASE m = l
      BY <1>2, <2>13, <2>15, <3>1
    <3>2. CASE m # l
      <4>1. BoardFlow(m, at[m], bu[m]) /\ au[m] = at[m]
        BY <1>2, <2>15, <2>16, <3>2
      <4>2. SameBoard(m)
        BY <2>2, <2>12, <2>16, <3>2 DEF BoardTook, OtherHolds, PortsTaken, SameBoard
      <4> QED BY <2>16, <4>1, <4>2, BoardKept
    <3> QED BY <3>1, <3>2
  <2>17. BoardShapes' /\ NodesOK' /\ ResidualOK'
    BY <2>12 DEF BoardTook, BoardShapes, PortsTaken, LaneShape
  <2> QED BY <2>15, <2>16, <2>17
<1> QED BY <1>3, <1>4

-----------------------------------------------------------------------------
(* The bytes the host has still to inject.                                 *)
LEMMA PacketBytes ==
    ASSUME NEW p \in Packet
    PROVE  /\ Bytes(p) \in Seq(Byte) /\ Len(Bytes(p)) = p.len /\ DOMAIN Bytes(p) = 1..p.len
           /\ \A i \in 1..p.len : /\ SpineByte(Bytes(p)[i]) /\ Bytes(p)[i].pkt = p
                                  /\ Bytes(p)[i].pos = i
<1>1. p.len \in Nat /\ p.len >= 3 /\ p.vc \in 0..3
  BY Addresses
<1>2. ASSUME NEW i \in 1..p.len
      PROVE  /\ Bytes(p)[i] \in Byte /\ SpineByte(Bytes(p)[i])
             /\ Bytes(p)[i].pkt = p /\ Bytes(p)[i].pos = i
  <2>1. PICK b : b = [pkt |-> p, pos |-> i, sop |-> i = 1, eop |-> i = p.len, vc |-> p.vc]
    OBVIOUS
  <2>2. b \in Byte /\ b.pkt = p /\ b.pos = i /\ b.vc = p.vc
        /\ (b.sop <=> i = 1) /\ (b.eop <=> i = p.len)
    <3>1. i \in Nat /\ (i = 1) \in BOOLEAN /\ (i = p.len) \in BOOLEAN
      BY <1>1
    <3>2. b \in Byte
      BY <1>1, <2>1, <3>1 DEF Byte
    <3> QED BY <2>1, <3>2
  <2>3. Bytes(p)[i] = b
    BY <2>1 DEF Bytes
  <2>4. SpineByte(b)
    BY <2>2 DEF SpineByte
  <2> QED BY <2>2, <2>3, <2>4
<1>3. DOMAIN Bytes(p) = 1..p.len
  BY DEF Bytes
<1>4. Bytes(p) \in Seq(Byte) /\ Len(Bytes(p)) = p.len
  <2>1. Bytes(p) = [i \in 1..p.len |-> Bytes(p)[i]]
    BY DEF Bytes
  <2>2. Bytes(p) \in [1..p.len -> Byte]
    BY <1>2, <2>1
  <2> QED BY <1>1, <2>2
<1> QED BY <1>2, <1>3, <1>4

(* The remaining bytes from position i on.                                 *)
IsRest(s, p, i) == /\ s # <<>> /\ s[1] = Bytes(p)[i] /\ Head(s) = s[1]
                   /\ i = p.len => Tail(s) = <<>>
                   /\ i # p.len => Tail(s) = SubSeq(Bytes(p), i + 1, p.len)

LEMMA Remaining ==
    ASSUME NEW p \in Packet, NEW i \in 1..p.len, NEW s, s = SubSeq(Bytes(p), i, p.len)
    PROVE  IsRest(s, p, i)
<1>1. /\ Bytes(p) \in Seq(Byte) /\ Len(Bytes(p)) = p.len /\ p.len \in Nat /\ i \in Nat
      /\ i >= 1 /\ i <= p.len
  BY PacketBytes, Addresses
<1>2. s \in Seq(Byte) /\ Len(s) = p.len - i + 1
      /\ \A j \in 1..(p.len - i + 1) : s[j] = Bytes(p)[i + j - 1]
  BY <1>1, SubSeqProperties
<1>3. s # <<>> /\ s[1] = Bytes(p)[i] /\ Head(s) = s[1]
  <2>1. Len(s) > 0 /\ 1 \in 1..(p.len - i + 1)
    BY <1>1, <1>2
  <2>2. s # <<>>
    <3>1. ASSUME s = <<>> PROVE FALSE
      <4>1. Len(<<>>) = 0
        OBVIOUS
      <4> QED BY ONLY <2>1, <3>1, <4>1
    <3> QED BY <3>1
  <2>3. s[1] = Bytes(p)[i + 1 - 1] /\ i + 1 - 1 = i
    BY <1>1, <1>2, <2>1
  <2> QED BY <1>2, <2>2, <2>3, HeadTailProperties
<1>4. Tail(s) \in Seq(Byte) /\ Len(Tail(s)) = p.len - i
      /\ \A j \in 1..(p.len - i) : Tail(s)[j] = Bytes(p)[i + j]
  <2>1. Tail(s) \in Seq(Byte) /\ Len(Tail(s)) = Len(s) - 1
        /\ \A j \in 1..Len(Tail(s)) : Tail(s)[j] = s[j + 1]
    BY <1>2, <1>3, HeadTailProperties
  <2>2. ASSUME NEW j \in 1..(p.len - i) PROVE Tail(s)[j] = Bytes(p)[i + j]
    <3>1. j \in 1..Len(Tail(s)) /\ j + 1 \in 1..(p.len - i + 1) /\ i + (j + 1) - 1 = i + j
      BY <1>1, <1>2, <2>1
    <3> QED BY <1>2, <2>1, <3>1
  <2> QED BY <1>1, <1>2, <2>1, <2>2
<1>5. CASE i = p.len
  <2>1. Len(Tail(s)) = 0
    BY <1>1, <1>4, <1>5
  <2> QED BY <1>3, <1>4, <1>5, <2>1, EmptySeq DEF IsRest
<1>6. CASE i # p.len
  <2> DEFINE t == SubSeq(Bytes(p), i + 1, p.len)
  <2>1. t \in Seq(Byte) /\ Len(t) = p.len - i
        /\ \A j \in 1..(p.len - i) : t[j] = Bytes(p)[i + j]
    <3>1. i + 1 \in 1..(Len(Bytes(p)) + 1) /\ p.len \in i..Len(Bytes(p)) /\ i + 1 <= p.len
      BY <1>1, <1>6
    <3>2. /\ t \in Seq(Byte) /\ Len(t) = p.len - (i + 1) + 1
          /\ \A j \in 1..(p.len - (i + 1) + 1) : t[j] = Bytes(p)[(i + 1) + j - 1]
      BY <1>1, <3>1, SubSeqProperties
    <3>3. p.len - (i + 1) + 1 = p.len - i /\ \A j \in 1..(p.len - i) : (i + 1) + j - 1 = i + j
      BY <1>1
    <3> QED BY <3>2, <3>3
  <2> HIDE DEF t
  <2>2. Tail(s) = t
    BY <1>4, <2>1, SeqEqual
  <2> QED BY <1>3, <1>6, <2>2 DEF t, IsRest
<1> QED BY <1>3, <1>5, <1>6 DEF IsRest

LEMMA SourceTaken ==
    ASSUME SrcOK, src # <<>>, src' = Tail(src), NEW b, b = src[1]
    PROVE  SpineByte(b) /\ Head(src) = b /\ SrcOK' /\ SourceOK(After(b))'
<1>1. PICK p \in Packet : \E i \in 1..p.len : src = SubSeq(Bytes(p), i, p.len)
  BY DEF SrcOK
<1>0. PICK i \in 1..p.len : src = SubSeq(Bytes(p), i, p.len)
  BY <1>1
<1>2. PICK s : s = src
  OBVIOUS
<1>3. p.len \in Nat /\ p.len >= 3 /\ i \in Nat /\ i >= 1 /\ i <= p.len
  BY Addresses
<1>4. /\ s # <<>> /\ s[1] = Bytes(p)[i] /\ Head(s) = s[1]
      /\ i = p.len => Tail(s) = <<>>
      /\ i # p.len => Tail(s) = SubSeq(Bytes(p), i + 1, p.len)
  <2>1. s = SubSeq(Bytes(p), i, p.len) /\ i \in 1..p.len /\ p \in Packet
    BY <1>0, <1>1, <1>2
  <2>2. IsRest(s, p, i)
    BY <2>1, Remaining
  <2> QED BY <2>2 DEF IsRest
<1>5. SpineByte(b) /\ b.pkt = p /\ b.pos = i /\ Head(src) = b
  BY <1>2, <1>4, PacketBytes
<1>6. b.eop <=> i = p.len
  BY <1>5 DEF SpineByte
<1>7. CASE i = p.len
  <2>1. src' = <<>> /\ After(b) = Idle
    BY <1>2, <1>4, <1>6, <1>7 DEF After
  <2> QED BY <1>5, <2>1 DEF SrcOK, SourceOK
<1>8. CASE i # p.len
  <2>1. i + 1 \in 1..p.len
    BY <1>3, <1>8
  <2>2. PICK t : t = SubSeq(Bytes(p), i + 1, p.len)
    OBVIOUS
  <2>3. t # <<>> /\ t[1] = Bytes(p)[i + 1]
    <3>1. IsRest(t, p, i + 1)
      BY <2>1, <2>2, Remaining
    <3> QED BY <3>1 DEF IsRest
  <2>4. src' = t
    BY <1>2, <1>4, <1>8, <2>2
  <2>5. SrcOK'
    <3>1. \E q \in Packet : \E j \in 1..q.len : t = SubSeq(Bytes(q), j, q.len)
      BY <2>1, <2>2
    <3> QED BY <2>4, <3>1 DEF SrcOK, Bytes
  <2>6. SourceOK(After(b))'
    <3>1. PICK c : c = t[1]
      OBVIOUS
    <3>2. SpineByte(c) /\ c.pkt = p /\ c.pos = i + 1
      BY <2>1, <2>3, <3>1, PacketBytes
    <3>3. ~c.sop
      BY <1>3, <3>2 DEF SpineByte
    <3>4. Cur(c) = After(b)
      BY <1>5, <1>6, <1>8, <3>2, <3>3 DEF Cur, After
    <3>5. src' # <<>> /\ src'[1] = c
      BY <2>3, <2>4, <3>1
    <3> QED BY <3>4, <3>5 DEF SourceOK, Cur
  <2> QED BY <1>5, <2>5, <2>6
<1> QED BY <1>7, <1>8

LEMMA SourceFilled ==
    ASSUME NEW p \in Packet, src' = Bytes(p)
    PROVE  SrcOK' /\ SourceOK(Idle)'
<1>1. p.len \in Nat /\ p.len >= 3 /\ 1 \in 1..p.len
  BY Addresses
<1>2. PICK s : s = Bytes(p)
  OBVIOUS
<1>3. s = SubSeq(Bytes(p), 1, p.len)
  <2>1. s \in Seq(Byte) /\ Len(s) = p.len
    BY <1>2, PacketBytes
  <2>2. s # <<>> /\ \A i \in 1..p.len : s[i] \in Byte
    <3>1. ASSUME s = <<>> PROVE FALSE
      <4>1. Len(<<>>) = 0
        OBVIOUS
      <4> QED BY <1>1, <2>1, <3>1, <4>1
    <3> QED BY <2>1, <3>1
  <2> DEFINE t == SubSeq(s, 1, p.len)
  <2>3. /\ t \in Seq(Byte) /\ Len(t) = p.len - 1 + 1
        /\ \A i \in 1..(p.len - 1 + 1) : t[i] = s[1 + i - 1]
    BY <1>1, <2>1, <2>2, SubSeqProperties
  <2>4. p.len - 1 + 1 = p.len /\ \A i \in 1..p.len : 1 + i - 1 = i
    BY <1>1
  <2>5. t \in Seq(Byte) /\ Len(t) = Len(s) /\ \A i \in 1..Len(s) : t[i] = s[i]
    BY <2>1, <2>3, <2>4
  <2> HIDE DEF t
  <2>6. s = t
    BY <2>1, <2>5, SeqEqual
  <2> QED BY <1>2, <2>6 DEF t
<1>4. SrcOK'
  <2>1. \E q \in Packet : \E j \in 1..q.len : s = SubSeq(Bytes(q), j, q.len)
    BY <1>1, <1>3
  <2> QED BY <1>2, <2>1 DEF SrcOK, Bytes
<1>5. SourceOK(Idle)'
  <2>1. PICK c : c = s[1]
    OBVIOUS
  <2>2. s # <<>>
    <3>1. IsRest(s, p, 1)
      BY <1>1, <1>3, Remaining
    <3> QED BY <3>1 DEF IsRest
  <2>3. c.sop
    <3>1. SpineByte(c) /\ c.pos = 1
      BY <1>1, <1>2, <2>1, PacketBytes
    <3> QED BY <3>1 DEF SpineByte
  <2>4. Cur(c) = Idle
    BY <2>3 DEF Cur
  <2>5. src' # <<>> /\ src'[1] = c
    BY <1>2, <2>1, <2>2
  <2> QED BY <2>4, <2>5 DEF SourceOK, Cur
<1> QED BY <1>4, <1>5

-----------------------------------------------------------------------------
(* The actions.                                                            *)
LEMMA InitFabric ==
    ASSUME Init
    PROVE  FabricInv
<1> DEFINE at == [i \in 1..(NL + 1) |-> Idle]
           bt == [l \in Layer |-> [x \in Col |-> Idle]]
<1>1. NL \in 1..15 /\ Bx \in 1..16 /\ <<>> \in Reg /\ Idle \in Cursor
  BY Addresses, Registers DEF Cursor
<1>2. at \in Spines /\ bt \in Boards
  BY <1>1 DEF Spines, Boards
<1>3. Shapes
  <2>1. [n \in Node |-> <<>>] \in [Node -> Seq(Byte)]
    OBVIOUS
  <2>2. /\ spine \in [Layer -> Reg] /\ lane \in [Layer -> [0..(Bx - 2) -> Reg]]
        /\ port \in [Node -> Reg]
    BY <1>1 DEF Init
  <2>3. got \in [Node -> Seq(Byte)]
    BY <2>1 DEF Init
  <2> QED BY <2>2, <2>3 DEF Init, Shapes, SrcOK
<1>4. NodesOK
  <2>1. Len(<<>>) = 0 /\ 1..0 = {} /\ 1..(0 - 1) = {}
    OBVIOUS
  <2>2. \A n \in Node : port[n] = <<>> /\ got[n] = <<>>
    BY DEF Init
  <2> QED BY <2>1, <2>2 DEF NodesOK
<1>5. ResidualOK
  BY DEF Init, ResidualOK
<1>6. SpineFlow(at)
  <2>1. \A i \in 1..(NL + 1) : at[i] = Idle
    OBVIOUS
  <2>2. \A l \in Layer : l \in 1..(NL + 1) /\ l + 1 \in 1..(NL + 1)
    BY <1>1 DEF Layer
  <2>3. 1 \in 1..(NL + 1)
    BY <1>1
  <2> HIDE DEF at
  <2>4. SourceOK(at[1])
    BY <2>1, <2>3 DEF SourceOK, Init
  <2>5. ASSUME NEW l \in Layer PROVE RptOK(l, at[l]) /\ SpineLink(l, at)
    <3>1. at[l] = Idle /\ at[l + 1] = Idle /\ spine[l] = <<>>
      BY <2>1, <2>2, <2>5 DEF Init
    <3> QED BY <3>1 DEF RptOK, SpineLink, SpineSlot, Past, Link
  <2> QED BY <2>4, <2>5 DEF SpineFlow
<1>7. ASSUME NEW l \in Layer PROVE BoardFlow(l, at[l], bt[l])
  <2> DEFINE g == bt[l]
  <2>1. \A x \in Col : g[x] = Idle
    BY <1>7
  <2>2. at[l] = Idle
    BY <1>1, <1>7 DEF Layer
  <2>3. \A x \in 0..(Bx - 2) : x \in Col /\ x + 1 \in Col
    BY <1>1 DEF Col
  <2>4. 0 \in Col
    BY <1>1 DEF Col
  <2> HIDE DEF g, at, bt
  <2>5. g[0] = Into(l, at[l])
    BY <2>1, <2>2, <2>4 DEF Into
  <2>6. \A x \in Col : TurnOK(l, x, g[x])
    BY <2>1 DEF TurnOK
  <2>7. ASSUME NEW x \in 0..(Bx - 2) PROVE LaneLink(l, x, g)
    <3>1. lane[l][x] = <<>> /\ g[x] = Idle /\ g[x + 1] = Idle
      BY <2>1, <2>3, <2>7 DEF Init
    <3> QED BY <3>1 DEF LaneLink, LaneSlot, PastCol, Link
  <2>8. ASSUME NEW x \in Col, NEW y \in Row PROVE PortLink(l, x, y, g[x])
    <3>1. <<l, x, y>> \in Node
      BY <1>7, <2>8 DEF Node
    <3>2. port[<<l, x, y>>] = <<>> /\ got[<<l, x, y>>] = <<>> /\ g[x] = Idle
      BY <2>1, <3>1 DEF Init
    <3> QED BY <3>2 DEF PortLink, NodeCur, IntoNode, Link
  <2>9. BoardFlow(l, at[l], g)
    BY <2>5, <2>6, <2>7, <2>8 DEF BoardFlow
  <2> QED BY <2>9 DEF g
<1>8. Flow(at, bt)
  BY <1>6, <1>7 DEF Flow
<1> HIDE DEF at, bt
<1> QED BY <1>2, <1>3, <1>4, <1>5, <1>8 DEF FabricInv

(* The bytes stay where they are: the host turns to a packet, or nothing   *)
(* happens.                                                                *)
LEMMA Unmoved ==
    ASSUME FabricInv, todo' \in SUBSET Packet, SrcOK',
           \A c \in Cursor : SourceOK(c) => SourceOK(c)',
           UNCHANGED <<spine, rptHold, rptStrip, board, got>>
    PROVE  FabricInv'
<1>1. PICK at \in Spines : \E bt \in Boards : Flow(at, bt)
  BY DEF FabricInv
<1>2. PICK bt \in Boards : Flow(at, bt)
  BY <1>1
<1>3. /\ spine' = spine /\ rptHold' = rptHold /\ rptStrip' = rptStrip /\ got' = got
      /\ lane' = lane /\ port' = port /\ turnHold' = turnHold
      /\ ejectHold' = ejectHold /\ residual' = residual
  BY DEF board
<1>4. Shapes'
  BY <1>3 DEF FabricInv, Shapes
<1>5. NodesOK' /\ ResidualOK'
  BY <1>3, NodesKept, ResidualKept DEF FabricInv
<1>6. SpineFlow(at)'
  <2>1. SourceOK(at[1]) /\ \A l \in Layer : RptOK(l, at[l]) /\ SpineLink(l, at)
    BY <1>2 DEF Flow, SpineFlow
  <2>2. at[1] \in Cursor
    BY <1>1, Addresses DEF Spines
  <2>3. SourceOK(at[1])'
    BY <2>1, <2>2
  <2>4. \A l \in Layer : (RptOK(l, at[l]) /\ SpineLink(l, at))'
    BY <1>3, <2>1 DEF RptOK, SpineLink
  <2> QED BY <2>3, <2>4 DEF SpineFlow
<1>7. ASSUME NEW m \in Layer PROVE BoardFlow(m, at[m], bt[m])'
  <2>1. BoardFlow(m, at[m], bt[m])
    BY <1>2, <1>7 DEF Flow
  <2>2. SameBoard(m)
    BY <1>3 DEF SameBoard
  <2> QED BY <1>3, <1>7, <2>1, <2>2, BoardKept
<1>8. Flow(at, bt)'
  BY <1>6, <1>7 DEF Flow
<1> QED BY <1>1, <1>2, <1>4, <1>5, <1>8 DEF FabricInv

LEMMA StartKeeps ==
    ASSUME FabricInv, NEW p \in Packet, StartPacket(p)
    PROVE  FabricInv'
<1>1. /\ src = <<>> /\ src' = Bytes(p) /\ todo' = todo \ {p}
      /\ UNCHANGED <<spine, rptHold, rptStrip, board, got>>
  BY DEF StartPacket
<1>2. SrcOK' /\ SourceOK(Idle)'
  BY <1>1, SourceFilled
<1>3. ASSUME NEW c \in Cursor, SourceOK(c) PROVE SourceOK(c)'
  <2>1. c = Idle
    BY <1>1, <1>3 DEF SourceOK
  <2> QED BY <1>2, <2>1
<1>4. todo' \in SUBSET Packet
  BY <1>1 DEF FabricInv, Shapes
<1> QED BY <1>1, <1>2, <1>3, <1>4, Unmoved

(* Repeater l takes byte b, from the host or the register above.           *)
LEMMA RepeaterKeeps ==
    ASSUME FabricInv, NEW at \in Spines, NEW bt \in Boards, Flow(at, bt),
           NEW l \in Layer, NEW b, SpineByte(b), \A k \in 1..(l - 1) : ~ForLayer(b.pkt, k),
           at[l] = Cur(b), NEW sp \in [Layer -> Reg],
           \A m \in Layer : m # l - 1 => sp[m] = spine[m],
           l > 1 => spine[l - 1] = <<b>> /\ sp[l - 1] = <<>>,
           RepeaterAccept(l, b, sp), got' = got, todo' = todo, SrcOK',
           NEW au, au = [at EXCEPT ![l] = After(b)], SourceOK(au[1])'
    PROVE  FabricInv'
<1>1. /\ RptShapes /\ BoardShapes /\ NodesOK /\ ResidualOK
      /\ spine \in [Layer -> Reg] /\ got \in [Node -> Seq(Byte)] /\ todo \subseteq Packet
  BY DEF FabricInv, Shapes, RptShapes, BoardShapes, HoldShapes, LaneShape
<1>2. /\ \A m \in Layer : RptOK(m, at[m]) /\ SpineLink(m, at)
      /\ \A m \in Layer : BoardFlow(m, at[m], bt[m])
  BY DEF Flow, SpineFlow
<1>3. /\ spine' \in [Layer -> Reg] /\ RptShapes'
      /\ \A m \in Layer : RptOK(m, au[m])' /\ SpineLink(m, au)'
  BY <1>1, <1>2, SpineStep
<1>4. RptOK(l, Cur(b))
  BY <1>2
<1>5. /\ BoardShapes' /\ NodesOK' /\ ResidualOK'
      /\ \E bu \in Boards : \A m \in Layer : BoardFlow(m, au[m], bu[m])'
  BY <1>1, <1>2, <1>4, BoardsStep
<1>6. PICK bu \in Boards : \A m \in Layer : BoardFlow(m, au[m], bu[m])'
  BY <1>5
<1>7. au \in Spines
  <2>1. After(b) \in Cursor
    BY CursorsTyped DEF SpineByte
  <2> QED BY <2>1 DEF Spines
<1>8. Shapes'
  BY <1>1, <1>3, <1>5 DEF Shapes, RptShapes, BoardShapes, HoldShapes, LaneShape
<1>9. Flow(au, bu)'
  <2>1. SpineFlow(au)'
    BY <1>3 DEF SpineFlow
  <2> QED BY <1>6, <2>1 DEF Flow
<1> QED BY <1>5, <1>6, <1>7, <1>8, <1>9 DEF FabricInv

LEMMA InjectKeeps ==
    ASSUME FabricInv, Inject
    PROVE  FabricInv'
<1>1. PICK at \in Spines : \E bt \in Boards : Flow(at, bt)
  BY DEF FabricInv
<1>2. PICK bt \in Boards : Flow(at, bt)
  BY <1>1
<1>3. PICK b : b = src[1]
  OBVIOUS
<1>4. PICK sp : sp = spine
  OBVIOUS
<1>5. SrcOK /\ src # <<>> /\ src' = Tail(src) /\ todo' = todo /\ got' = got
  BY DEF FabricInv, Shapes, Inject
<1>6. SpineByte(b) /\ Head(src) = b /\ SrcOK' /\ SourceOK(After(b))'
  BY <1>3, <1>5, SourceTaken
<1>7. RepeaterAccept(1, b, sp)
  BY <1>4, <1>6 DEF Inject
<1>8. 1 \in Layer /\ 1 \in 1..(NL + 1)
  BY Addresses DEF Layer
<1>9. at[1] = Cur(b)
  BY <1>2, <1>3, <1>5 DEF Flow, SpineFlow, SourceOK
<1>10. PICK au : au = [at EXCEPT ![1] = After(b)]
  OBVIOUS
<1>11. SourceOK(au[1])'
  <2>1. au[1] = After(b)
    BY <1>8, <1>10 DEF Spines
  <2> QED BY <1>6, <2>1
<1>12. sp \in [Layer -> Reg] /\ (\A m \in Layer : m # 1 - 1 => sp[m] = spine[m])
       /\ (1 > 1 => spine[1 - 1] = <<b>> /\ sp[1 - 1] = <<>>)
       /\ \A k \in 1..(1 - 1) : ~ForLayer(b.pkt, k)
  BY <1>4 DEF FabricInv, Shapes
<1> QED BY <1>1, <1>2, <1>5, <1>6, <1>7, <1>8, <1>9, <1>10, <1>11, <1>12, RepeaterKeeps

LEMMA SpineHopKeeps ==
    ASSUME FabricInv, NEW l \in Layer, SpineHop(l)
    PROVE  FabricInv'
<1>1. PICK at \in Spines : \E bt \in Boards : Flow(at, bt)
  BY DEF FabricInv
<1>2. PICK bt \in Boards : Flow(at, bt)
  BY <1>1
<1>3. PICK b : b = spine[l][1]
  OBVIOUS
<1>4. PICK sp : sp = [spine EXCEPT ![l] = <<>>]
  OBVIOUS
<1>5. l < NL /\ spine[l] # <<>> /\ src' = src /\ todo' = todo /\ got' = got
  BY DEF SpineHop
<1>6. spine \in [Layer -> Reg] /\ SrcOK
  BY DEF FabricInv, Shapes
<1>7. spine[l] = <<b>> /\ Head(spine[l]) = b /\ b \in Byte
  <2>1. spine[l] \in Reg
    BY <1>6
  <2> QED BY <1>3, <1>5, <2>1, Registers
<1>8. SpineSlot(l, <<b>>, at[l], at[l + 1])
  BY <1>2, <1>7 DEF Flow, SpineFlow, SpineLink
<1>9. SpineByte(b) /\ at[l + 1] = Cur(b) /\ \A k \in 1..l : ~ForLayer(b.pkt, k)
  <2>1. <<b>> # <<>> /\ <<b>>[1] = b
    OBVIOUS
  <2> QED BY <1>8, <2>1 DEF SpineSlot, Link
<1> DEFINE n == l + 1
<1>10. n \in Layer /\ n - 1 = l /\ n # 1 /\ l \in 1..NL /\ 1 \in 1..(NL + 1) /\ n \in 1..(NL + 1)
  BY <1>5, Addresses DEF Layer
<1>11. RepeaterAccept(n, b, sp)
  BY <1>4, <1>7 DEF SpineHop
<1>12. PICK au : au = [at EXCEPT ![n] = After(b)]
  OBVIOUS
<1> HIDE DEF n
<1>13. SourceOK(au[1])'
  <2>1. au[1] = at[1]
    BY <1>10, <1>12 DEF Spines
  <2>2. SourceOK(at[1])
    BY <1>2 DEF Flow, SpineFlow
  <2> QED BY <1>5, <2>1, <2>2 DEF SourceOK
<1>14. SrcOK'
  BY <1>5, <1>6 DEF SrcOK, Bytes
<1>15. sp \in [Layer -> Reg] /\ (\A m \in Layer : m # n - 1 => sp[m] = spine[m])
       /\ (n > 1 => spine[n - 1] = <<b>> /\ sp[n - 1] = <<>>)
  BY <1>4, <1>6, <1>7, <1>10, Registers
<1>16. (\A k \in 1..(n - 1) : ~ForLayer(b.pkt, k)) /\ at[n] = Cur(b)
  BY <1>9, <1>10 DEF n
<1> QED BY <1>1, <1>2, <1>5, <1>9, <1>10, <1>11, <1>12, <1>13, <1>14, <1>15, <1>16, RepeaterKeeps

(* A byte that has passed every repeater is addressed to no node.          *)
LEMMA TailUnaddressed ==
    ASSUME NEW p \in Packet, \A k \in 1..NL : ~ForLayer(p, k)
    PROVE  Dest(p) = {}
BY DEF Dest, Node, Layer, ForLayer

LEMMA TailKeeps ==
    ASSUME FabricInv, TailDrain
    PROVE  FabricInv'
<1>1. PICK at \in Spines : \E bt \in Boards : Flow(at, bt)
  BY DEF FabricInv
<1>2. PICK bt \in Boards : Flow(at, bt)
  BY <1>1
<1>3. PICK b : b = spine[NL][1]
  OBVIOUS
<1>4. /\ spine[NL] # <<>> /\ residual' = residual \cup {Head(spine[NL]).pkt}
      /\ spine' = [spine EXCEPT ![NL] = <<>>]
      /\ src' = src /\ todo' = todo /\ got' = got /\ lane' = lane /\ port' = port
      /\ turnHold' = turnHold /\ ejectHold' = ejectHold
      /\ rptHold' = rptHold /\ rptStrip' = rptStrip
  BY DEF TailDrain
<1>5. spine \in [Layer -> Reg] /\ NL \in Layer /\ NL \in 1..15
  BY Addresses DEF FabricInv, Shapes, Layer
<1>6. spine[NL] = <<b>> /\ Head(spine[NL]) = b /\ b \in Byte
  <2>1. spine[NL] \in Reg
    BY <1>5
  <2> QED BY <1>3, <1>4, <2>1, Registers
<1>7. SpineSlot(NL, <<b>>, at[NL], at[NL + 1])
  BY <1>2, <1>5, <1>6 DEF Flow, SpineFlow, SpineLink
<1>8. (\A k \in 1..NL : ~ForLayer(b.pkt, k)) /\ Link(<<b>>, Past(NL, at[NL]), at[NL + 1])
  <2>1. <<b>> # <<>> /\ <<b>>[1] = b
    OBVIOUS
  <2> QED BY <1>7, <2>1 DEF SpineSlot
<1>9. ResidualOK'
  <2>1. b.pkt \in Packet /\ Dest(b.pkt) = {}
    BY <1>6, <1>8, BytesTyped, TailUnaddressed
  <2>2. ResidualOK /\ residual' = residual \cup {b.pkt}
    BY <1>4, <1>6 DEF FabricInv
  <2> QED BY <2>1, <2>2, ResidualAdds
<1> DEFINE au == [at EXCEPT ![NL + 1] = After(b)]
<1>10. /\ au \in Spines /\ au[NL + 1] = After(b)
       /\ \A l \in Layer : au[l] = at[l] /\ (l # NL => au[l + 1] = at[l + 1])
  <2>1. After(b) \in Cursor
    BY <1>6, CursorsTyped
  <2> QED BY <1>5, <2>1 DEF Spines, Layer
<1> HIDE DEF au
<1>11. SpineFlow(au)'
  <2>1. ASSUME NEW l \in Layer PROVE RptOK(l, au[l])'
    <3>1. RptOK(l, au[l])
      BY <1>2, <1>10, <2>1 DEF Flow, SpineFlow
    <3> QED BY <1>4, <3>1 DEF RptOK
  <2>2. ASSUME NEW l \in Layer PROVE SpineLink(l, au)'
    <3>1. CASE l = NL
      <4>1. spine'[NL] = <<>>
        BY <1>4, <1>5
      <4>2. Link(<<>>, Past(NL, at[NL]), After(b))
        BY <1>8, Emptied
      <4> QED BY <1>5, <1>10, <3>1, <4>1, <4>2 DEF SpineLink, SpineSlot
    <3>2. CASE l # NL
      <4>1. spine'[l] = spine[l]
        BY <1>4, <1>5, <2>2, <3>2
      <4>2. SpineLink(l, at)
        BY <1>2, <2>2 DEF Flow, SpineFlow
      <4> QED BY <1>10, <2>2, <3>2, <4>1, <4>2 DEF SpineLink
    <3> QED BY <3>1, <3>2
  <2>3. SourceOK(au[1])'
    <3>1. SourceOK(at[1]) /\ 1 \in Layer
      BY <1>2, <1>5 DEF Flow, SpineFlow, Layer
    <3> QED BY <1>4, <1>10, <3>1 DEF SourceOK
  <2> QED BY <2>1, <2>2, <2>3 DEF SpineFlow
<1>12. ASSUME NEW m \in Layer PROVE BoardFlow(m, au[m], bt[m])'
  <2>1. BoardFlow(m, at[m], bt[m]) /\ au[m] = at[m]
    BY <1>2, <1>10, <1>12 DEF Flow
  <2>2. SameBoard(m)
    BY <1>4 DEF SameBoard
  <2> QED BY <1>4, <1>12, <2>1, <2>2, BoardKept
<1>13. Shapes'
  <2>1. spine' \in [Layer -> Reg]
    BY <1>4, <1>5, Registers
  <2> QED BY <1>4, <2>1 DEF FabricInv, Shapes, SrcOK, Bytes
<1>14. NodesOK'
  BY <1>4, NodesKept DEF FabricInv
<1>15. Flow(au, bt)'
  BY <1>11, <1>12 DEF Flow
<1> QED BY <1>2, <1>9, <1>10, <1>13, <1>14, <1>15 DEF FabricInv

LEMMA LaneHopKeeps ==
    ASSUME FabricInv, NEW l \in Layer, NEW w \in Col, LaneHop(l, w)
    PROVE  FabricInv'
<1>1. PICK at \in Spines : \E bt \in Boards : Flow(at, bt)
  BY DEF FabricInv
<1>2. PICK bt \in Boards : Flow(at, bt)
  BY <1>1
<1>3. PICK b : b = lane[l][w][1]
  OBVIOUS
<1>4. PICK ln : ln = [lane EXCEPT ![l][w] = <<>>]
  OBVIOUS
<1>5. PICK g \in [Col -> Cursor] : g = bt[l]
  BY DEF Boards
<1>6. /\ w < Bx - 1 /\ lane[l][w] # <<>>
      /\ src' = src /\ todo' = todo /\ got' = got /\ spine' = spine
      /\ rptHold' = rptHold /\ rptStrip' = rptStrip
  BY DEF LaneHop
<1>7. BoardShapes /\ NodesOK /\ ResidualOK
  BY DEF FabricInv, Shapes, BoardShapes, HoldShapes, LaneShape
<1> DEFINE x == w + 1
<1>8. w \in 0..(Bx - 2) /\ x \in Col /\ x # 0 /\ x - 1 = w /\ x # w /\ Bx \in 1..16
  BY <1>6, Addresses DEF Col
<1>9. lane[l][w] = <<b>> /\ Head(lane[l][w]) = b
  <2>1. lane[l][w] \in Reg
    BY <1>7, <1>8 DEF BoardShapes, LaneShape
  <2> QED BY <1>3, <1>6, <2>1, Registers
<1>10. BoardFlow(l, at[l], g)
  BY <1>2, <1>5 DEF Flow
<1>11. LaneSlot(l, w, <<b>>, g[w], g[x])
  BY <1>8, <1>9, <1>10 DEF BoardFlow, LaneLink
<1>12. /\ g[x] = Cur(b) /\ OnBoard(b) /\ ForLayer(b.pkt, l) /\ \A k \in 0..w : b.pkt.x # k
  <2>1. <<b>> # <<>> /\ <<b>>[1] = b
    OBVIOUS
  <2> QED BY <1>11, <2>1 DEF LaneSlot, Link, LaneByte
<1>13. BoardAccept(l, x, b, ln)
  BY <1>4, <1>9 DEF LaneHop
<1> HIDE DEF x
<1>14. TurnOK(l, x, Cur(b)) /\ PortsFree(l, x, b)
  BY <1>8, <1>10, <1>12 DEF BoardFlow, PortsFree
<1>15. PICK down : down = g[x + 1]
  OBVIOUS
<1>16. /\ ln \in LaneShape /\ ln[l][w] = <<>>
       /\ \A z \in 0..(Bx - 2) : z # w => ln[l][z] = lane[l][z]
       /\ \A m \in Layer : m # l => ln[m] = lane[m]
  BY <1>4, <1>7, <1>8, Registers DEF BoardShapes, LaneShape
<1>17. x < Bx - 1 => /\ ln[l][x] = lane[l][x]
                     /\ LaneSlot(l, x, lane[l][x], Cur(b), down)
  <2>1. ASSUME x < Bx - 1
        PROVE  ln[l][x] = lane[l][x] /\ LaneSlot(l, x, lane[l][x], Cur(b), down)
    <3>1. x \in 0..(Bx - 2)
      BY <1>8, <2>1 DEF Col
    <3>2. LaneLink(l, x, g)
      BY <1>10, <3>1 DEF BoardFlow
    <3> QED BY <1>8, <1>12, <1>15, <1>16, <3>1, <3>2 DEF LaneLink
  <2> QED BY <2>1
<1>18. BoardTook(l, x, b, ln, down)
  <2>1. \A k \in 0..(x - 1) : b.pkt.x # k
    BY <1>8, <1>12
  <2>2. port \in [Node -> Reg] /\ lane \in LaneShape /\ HoldShapes
    BY <1>7 DEF BoardShapes
  <2> QED BY <1>6, <1>7, <1>8, <1>12, <1>13, <1>14, <1>16, <1>17, <2>1, <2>2, BoardTakes
<1> DEFINE h == [g EXCEPT ![x] = After(b)]
           bu == [bt EXCEPT ![l] = h]
<1>19. BoardFlow(l, at[l], h)'
  <2>1. BoardTook(l, x, b, ln, g[x + 1])
    BY <1>15, <1>18
  <2>2. \A z \in 0..(Bx - 2) : z # x - 1 => ln[l][z] = lane[l][z]
    BY <1>8, <1>16
  <2>3. IF x = 0 THEN Into(l, at[l]) = After(b)
                 ELSE at[l] = at[l] /\ lane[l][x - 1] = <<b>> /\ ln[l][x - 1] = <<>>
    BY <1>8, <1>9, <1>16
  <2> QED BY <1>6, <1>8, <1>10, <1>12, <2>1, <2>2, <2>3, BoardStep
<1>20. h \in [Col -> Cursor]
  BY <1>8, <1>12, CursorsTyped DEF OnBoard
<1> HIDE DEF h
<1>21. bu \in Boards /\ bu[l] = h /\ \A m \in Layer : m # l => bu[m] = bt[m]
  BY <1>20 DEF Boards
<1> HIDE DEF bu
<1>22. ASSUME NEW m \in Layer PROVE BoardFlow(m, at[m], bu[m])'
  <2>1. CASE m = l
    BY <1>19, <1>21, <2>1
  <2>2. CASE m # l
    <3>1. BoardFlow(m, at[m], bu[m])
      BY <1>2, <1>21, <1>22, <2>2 DEF Flow
    <3>2. SameBoard(m)
      <4>1. \A z \in Col : turnHold'[m][z] = turnHold[m][z] /\ ejectHold'[m][z] = ejectHold[m][z]
        BY <1>18, <1>22, <2>2, Zenon DEF BoardTook, OtherHolds
      <4>2. \A z \in Col, y \in Row : port'[<<m, z, y>>] = port[<<m, z, y>>]
        BY <1>18, <1>22, <2>2, Zenon DEF BoardTook, PortsTaken
      <4>3. \A z \in 0..(Bx - 2) : lane'[m][z] = lane[m][z]
        <5>1. \A z \in 0..(Bx - 2) : lane'[m][z] = ln[m][z]
          BY <1>18, <1>22, <2>2, Zenon DEF BoardTook
        <5>2. ln[m] = lane[m]
          BY <1>16, <1>22, <2>2, Zenon
        <5> QED BY <5>1, <5>2, Zenon
      <4> QED BY <4>1, <4>2, <4>3 DEF SameBoard
    <3> QED BY <1>6, <1>22, <3>1, <3>2, BoardKept
  <2> QED BY <2>1, <2>2
<1>23. SpineFlow(at)'
  <2>1. SpineFlow(at)
    BY <1>2 DEF Flow
  <2> QED BY <1>6, <2>1 DEF SpineFlow, SourceOK, RptOK, SpineLink
<1>24. Shapes' /\ NodesOK' /\ ResidualOK'
  BY <1>6, <1>18 DEF FabricInv, Shapes, BoardTook, PortsTaken, LaneShape, HoldShapes, SrcOK, Bytes
<1>25. Flow(at, bu)'
  BY <1>22, <1>23 DEF Flow
<1> QED BY <1>1, <1>21, <1>24, <1>25 DEF FabricInv

(* Node n's engine takes the byte on its port.                             *)
LEMMA NodeKeeps ==
    ASSUME FabricInv, NEW n \in Node, NodeTake(n)
    PROVE  FabricInv'
<1>1. PICK at \in Spines : \E bt \in Boards : Flow(at, bt)
  BY DEF FabricInv
<1>2. PICK bt \in Boards : Flow(at, bt)
  BY <1>1
<1>3. PICK b : b = port[n][1]
  OBVIOUS
<1>4. /\ port[n] # <<>> /\ port' = [port EXCEPT ![n] = <<>>]
      /\ got' = [got EXCEPT ![n] = Append(got[n], Head(port[n]))]
      /\ src' = src /\ todo' = todo /\ spine' = spine /\ lane' = lane
      /\ turnHold' = turnHold /\ ejectHold' = ejectHold
      /\ rptHold' = rptHold /\ rptStrip' = rptStrip /\ residual' = residual
  BY DEF NodeTake
<1>5. port \in [Node -> Reg] /\ got \in [Node -> Seq(Byte)] /\ NodesOK
  BY DEF FabricInv, Shapes
<1>6. port[n] = <<b>> /\ Head(port[n]) = b /\ b \in Byte
  <2>1. port[n] \in Reg
    BY <1>5
  <2> QED BY <1>3, <1>4, <2>1, Registers
<1>7. PICK s \in Seq(Byte) : s = got[n]
  BY <1>5
<1>8. PICK t : t = Append(s, b)
  OBVIOUS
<1>9. /\ t \in Seq(Byte) /\ Len(s) \in Nat /\ Len(t) = Len(s) + 1 /\ t[Len(t)] = b
      /\ \A i \in 1..Len(s) : t[i] = s[i]
  BY <1>6, <1>8, AppendProperties, LenProperties
<1>10. t # <<>>
  <2>1. ASSUME t = <<>> PROVE FALSE
    <3>1. Len(<<>>) = 0
      OBVIOUS
    <3> QED BY ONLY <1>9, <2>1, <3>1
  <2> QED BY <2>1
<1>11. /\ port' \in [Node -> Reg] /\ port'[n] = <<>> /\ got' \in [Node -> Seq(Byte)] /\ got'[n] = t
       /\ \A m \in Node : m # n => port'[m] = port[m] /\ got'[m] = got[m]
  BY <1>4, <1>5, <1>6, <1>7, <1>8, <1>9, Registers
<1>12. NodeCur(n)' = After(b)
  BY <1>9, <1>10, <1>11 DEF NodeCur
<1>13. ASSUME NEW l \in Layer, NEW x \in Col, NEW y \in Row, NEW c, PortLink(l, x, y, c)
       PROVE  PortLink(l, x, y, c)'
  <2>1. <<l, x, y>> \in Node
    BY <1>13 DEF Node
  <2>2. CASE <<l, x, y>> = n
    <3>1. Link(<<b>>, IntoNode(x, y, c), NodeCur(n))
      BY <1>6, <1>13, <2>2 DEF PortLink
    <3>2. Link(<<>>, IntoNode(x, y, c), After(b))
      BY <3>1, Emptied
    <3> QED BY <1>11, <1>12, <2>2, <3>2 DEF PortLink
  <2>3. CASE <<l, x, y>> # n
    <3>1. port'[<<l, x, y>>] = port[<<l, x, y>>] /\ got'[<<l, x, y>>] = got[<<l, x, y>>]
      BY <1>11, <2>1, <2>3
    <3>2. NodeCur(<<l, x, y>>)' = NodeCur(<<l, x, y>>)
      BY <3>1 DEF NodeCur
    <3> QED BY <1>13, <3>1, <3>2 DEF PortLink
  <2> QED BY <2>2, <2>3
<1>14. Cur(b) = NodeCur(n)
  <2>1. PICK l \in Layer, x \in Col, y \in Row : n = <<l, x, y>>
    BY DEF Node
  <2>2. PICK c : c = bt[l][x]
    OBVIOUS
  <2>3. PortLink(l, x, y, c)
    BY <1>2, <2>1, <2>2 DEF Flow, BoardFlow
  <2>4. Link(<<b>>, IntoNode(x, y, c), NodeCur(n))
    BY <1>6, <2>1, <2>3 DEF PortLink
  <2> QED BY <2>4, Emptied
<1>15. NodeByte(n, b)
  BY <1>3, <1>4, <1>5 DEF NodesOK
<1>16. ASSUME NEW i \in 1..Len(t) PROVE NodeByte(n, t[i])
  <2>1. CASE i = Len(t)
    BY <1>9, <1>15, <2>1
  <2>2. CASE i # Len(t)
    <3>1. i \in 1..Len(s) /\ t[i] = s[i]
      BY <1>9, <1>16, <2>2
    <3> QED BY <1>5, <1>7, <3>1 DEF NodesOK
  <2> QED BY <2>1, <2>2
<1>17. ASSUME NEW i \in 1..(Len(t) - 1) PROVE Cur(t[i + 1]) = After(t[i])
  <2>1. i \in 1..Len(s) /\ t[i] = s[i]
    BY <1>9, <1>17
  <2>2. CASE i = Len(s)
    <3>1. t[i + 1] = b
      BY <1>9, <2>2
    <3>2. s # <<>>
      <4>1. ASSUME s = <<>> PROVE FALSE
        <5>1. Len(<<>>) = 0
          OBVIOUS
        <5> QED BY ONLY <2>1, <4>1, <5>1
      <4> QED BY <4>1
    <3>3. NodeCur(n) = After(s[Len(s)])
      BY <1>7, <3>2 DEF NodeCur
    <3> QED BY <1>14, <2>1, <2>2, <3>1, <3>3
  <2>3. CASE i # Len(s)
    <3>1. i \in 1..(Len(s) - 1) /\ t[i + 1] = s[i + 1]
      BY <1>9, <2>1, <2>3
    <3> QED BY <1>5, <1>7, <2>1, <3>1 DEF NodesOK
  <2> QED BY <2>2, <2>3
<1>18. NodesOK'
  <2>1. ASSUME NEW m \in Node, port'[m] # <<>> PROVE NodeByte(m, port'[m][1])
    <3>1. m # n /\ port'[m] = port[m]
      BY <1>11, <2>1
    <3> QED BY <1>5, <2>1, <3>1 DEF NodesOK
  <2>2. ASSUME NEW m \in Node
        PROVE  /\ \A i \in 1..Len(got'[m]) : NodeByte(m, got'[m][i])
               /\ \A i \in 1..(Len(got'[m]) - 1) : Cur(got'[m][i + 1]) = After(got'[m][i])
    <3>1. CASE m = n
      BY <1>11, <1>16, <1>17, <3>1
    <3>2. CASE m # n
      <4>1. got'[m] = got[m]
        BY <1>11, <2>2, <3>2
      <4> QED BY <1>5, <2>2, <4>1 DEF NodesOK
    <3> QED BY <3>1, <3>2
  <2> QED BY <2>1, <2>2 DEF NodesOK, NodeByte, OnBoard, Dest, ForLayer, Cur, After,
                            Node, Layer, Col, Row, Byte
<1>19. ResidualOK'
  BY <1>4, ResidualKept DEF FabricInv
<1>20. Shapes'
  BY <1>4, <1>11 DEF FabricInv, Shapes, SrcOK, Bytes
<1>21. SpineFlow(at)'
  <2>1. SpineFlow(at)
    BY <1>2 DEF Flow
  <2> QED BY <1>4, <2>1 DEF SpineFlow, SourceOK, RptOK, SpineLink
<1>22. ASSUME NEW m \in Layer PROVE BoardFlow(m, at[m], bt[m])'
  <2>1. BoardFlow(m, at[m], bt[m])
    BY <1>2, <1>22 DEF Flow
  <2>2. \A x \in Col : TurnOK(m, x, bt[m][x])'
    BY <1>4, <2>1 DEF BoardFlow, TurnOK
  <2>3. \A x \in 0..(Bx - 2) : LaneLink(m, x, bt[m])'
    BY <1>4, <2>1 DEF BoardFlow, LaneLink
  <2>4. ASSUME NEW x \in Col, NEW y \in Row PROVE PortLink(m, x, y, bt[m][x])'
    <3>1. PortLink(m, x, y, bt[m][x])
      BY <2>1, <2>4 DEF BoardFlow
    <3> QED BY <1>13, <1>22, <2>4, <3>1
  <2> QED BY <2>1, <2>2, <2>3, <2>4 DEF BoardFlow
<1>23. Flow(at, bt)'
  BY <1>21, <1>22 DEF Flow
<1> QED BY <1>1, <1>2, <1>18, <1>19, <1>20, <1>23 DEF FabricInv

-----------------------------------------------------------------------------
LEMMA FabricInductive == FabricInv /\ [Next]_vars => FabricInv'
<1> SUFFICES ASSUME FabricInv, [Next]_vars PROVE FabricInv'
  OBVIOUS
<1>1. ASSUME NEW p \in Packet, StartPacket(p) PROVE FabricInv'
  BY <1>1, StartKeeps
<1>2. CASE Inject
  BY <1>2, InjectKeeps
<1>3. ASSUME NEW l \in Layer, SpineHop(l) PROVE FabricInv'
  BY <1>3, SpineHopKeeps
<1>4. CASE TailDrain
  BY <1>4, TailKeeps
<1>5. ASSUME NEW l \in Layer, NEW x \in Col, LaneHop(l, x) PROVE FabricInv'
  BY <1>5, LaneHopKeeps
<1>6. ASSUME NEW n \in Node, NodeTake(n) PROVE FabricInv'
  BY <1>6, NodeKeeps
<1>7. CASE UNCHANGED vars
  <2>1. todo' = todo /\ src' = src /\ UNCHANGED <<spine, rptHold, rptStrip, board, got>>
    BY <1>7 DEF vars, board
  <2>2. todo' \in SUBSET Packet /\ SrcOK'
    BY <2>1 DEF FabricInv, Shapes, SrcOK, Bytes
  <2>3. \A c \in Cursor : SourceOK(c) => SourceOK(c)'
    BY <2>1 DEF SourceOK
  <2> QED BY <2>1, <2>2, <2>3, Unmoved
<1> QED BY <1>1, <1>2, <1>3, <1>4, <1>5, <1>6, <1>7 DEF Next

LEMMA FabricInvariant == Spec => []FabricInv
BY InitFabric, FabricInductive, PTL DEF Spec

(* A register's length and bytes.                                          *)
LEMMA RegisterType ==
    ASSUME NEW r \in Reg
    PROVE  Len(r) <= 1 /\ Range(r) \subseteq Byte
<1>1. CASE r = <<>>
  <2>1. Len(<<>>) = 0 /\ DOMAIN <<>> = {}
    OBVIOUS
  <2> QED BY <1>1, <2>1 DEF Range
<1>2. CASE \E b \in Byte : r = <<b>>
  <2>1. PICK b \in Byte : r = <<b>>
    BY <1>2
  <2>2. Len(<<b>>) = 1 /\ DOMAIN <<b>> = 1..1 /\ <<b>>[1] = b
    OBVIOUS
  <2>3. ASSUME NEW c \in Range(r) PROVE c \in Byte
    <3>1. PICK i \in DOMAIN r : c = r[i]
      BY <2>3 DEF Range
    <3>2. i = 1
      BY <2>1, <2>2, <3>1
    <3> QED BY <2>1, <2>2, <3>1, <3>2
  <2> QED BY <2>1, <2>2, <2>3
<1> QED BY <1>1, <1>2 DEF Reg

(* What the host has still to send of its packet is the packet's end.      *)
LEMMA SourceType ==
    ASSUME SrcOK, src # <<>>
    PROVE  \E p \in Packet : Len(src) <= p.len /\ src = LastBytes(p, Len(src))
<1>1. PICK p \in Packet : \E i \in 1..p.len : src = SubSeq(Bytes(p), i, p.len)
  BY DEF SrcOK
<1>2. PICK i \in 1..p.len : src = SubSeq(Bytes(p), i, p.len)
  BY <1>1
<1>3. p.len \in Nat /\ i \in Nat /\ i >= 1 /\ i <= p.len
  BY <1>2, Addresses
<1>4. Len(src) = p.len - i + 1
  <2>1. \A j \in i..p.len : Bytes(p)[j] \in Byte
    BY <1>3, PacketBytes DEF SpineByte
  <2>2. Len(SubSeq(Bytes(p), i, p.len)) = IF i <= p.len THEN p.len - i + 1 ELSE 0
    BY <1>3, <2>1, SubSeqProperties
  <2> QED BY <1>2, <1>3, <2>2
<1>5. Len(src) <= p.len /\ p.len - Len(src) + 1 = i
  BY <1>3, <1>4
<1>6. src = LastBytes(p, Len(src))
  BY <1>2, <1>5 DEF LastBytes
<1> QED BY <1>1, <1>5, <1>6

(* The registers hold at most one byte each, and every byte and gate bit   *)
(* is in its range, in every state of a chassis of any size               *)
(* (HDL/core/hfr.v, flit_gate.v, gen_topology.go).                         *)
THEOREM TypeCorrect == Spec => []TypeOK
<1>1. FabricInv => TypeOK
  <2> SUFFICES ASSUME FabricInv PROVE TypeOK
    OBVIOUS
  <2>1. Shapes /\ ResidualOK
    BY DEF FabricInv
  <2>2. src # <<>> => \E p \in Packet : Len(src) <= p.len /\ src = LastBytes(p, Len(src))
    BY <2>1, SourceType DEF Shapes
  <2>3. ASSUME NEW l \in Layer
        PROVE  /\ Len(spine[l]) <= 1 /\ Range(spine[l]) \subseteq Byte
               /\ rptHold[l] \in BOOLEAN /\ rptStrip[l] \in BOOLEAN
    <3>1. spine[l] \in Reg /\ rptHold[l] \in BOOLEAN /\ rptStrip[l] \in BOOLEAN
      BY <2>1, <2>3 DEF Shapes
    <3> QED BY <3>1, RegisterType
  <2>4. ASSUME NEW l \in Layer, NEW x \in 0..(Bx - 2)
        PROVE  Len(lane[l][x]) <= 1 /\ Range(lane[l][x]) \subseteq Byte
    <3>1. lane[l][x] \in Reg
      BY <2>1, <2>4 DEF Shapes
    <3> QED BY <3>1, RegisterType
  <2>5. ASSUME NEW n \in Node PROVE Len(port[n]) <= 1 /\ Range(port[n]) \subseteq Byte
    <3>1. port[n] \in Reg
      BY <2>1, <2>5 DEF Shapes
    <3> QED BY <3>1, RegisterType
  <2>6. /\ todo \subseteq Packet /\ residual \subseteq Packet
        /\ turnHold \in [Layer -> [Col -> BOOLEAN]]
        /\ ejectHold \in [Layer -> [Col -> [Row -> BOOLEAN]]]
    BY <2>1 DEF Shapes, ResidualOK
  <2> QED BY <2>2, <2>3, <2>4, <2>5, <2>6 DEF TypeOK
<1> QED BY <1>1, FabricInvariant, PTL

(* No packet is misrouted: what leaves by a residual lane or the tail is   *)
(* addressed to no node, and a node holds only bytes of its own packets,   *)
(* in a chassis of any size and for packets of any length                  *)
(* (HDL/core/flit_gate.v, lxy_repeater.v, xy_turn.v, node_eject.v).        *)
THEOREM NoMisroutes == Spec => []ZeroMisroutes
<1>1. FabricInv => ZeroMisroutes
  <2> SUFFICES ASSUME FabricInv PROVE ZeroMisroutes
    OBVIOUS
  <2>1. NodesOK /\ ResidualOK /\ port \in [Node -> Reg] /\ got \in [Node -> Seq(Byte)]
    BY DEF FabricInv, Shapes
  <2>2. ASSUME NEW n \in Node, NEW b \in Range(port[n] \o got[n]) PROVE n \in Dest(b.pkt)
    <3>1. PICK r : r = port[n]
      OBVIOUS
    <3>2. PICK s \in Seq(Byte) : s = got[n]
      BY <2>1, <2>2
    <3>3. r = <<>> \/ (r # <<>> /\ r = <<r[1]>> /\ r[1] \in Byte)
      BY <2>1, <2>2, <3>1, Registers
    <3>4. r \in Seq(Byte) /\ Len(r) \in {0, 1} /\ (Len(r) = 1 => r # <<>>)
      <4>1. \A c \in Byte : <<c>> \in Seq(Byte) /\ Len(<<c>>) = 1
        OBVIOUS
      <4>2. <<>> \in Seq(Byte) /\ Len(<<>>) = 0
        OBVIOUS
      <4>3. CASE r = <<>>
        BY <4>2, <4>3
      <4>4. CASE r # <<>>
        BY <3>3, <4>1, <4>4
      <4> QED BY <4>3, <4>4
    <3>5. /\ r \o s \in Seq(Byte) /\ Len(r \o s) = Len(r) + Len(s)
          /\ \A i \in 1..(Len(r) + Len(s)) :
                (r \o s)[i] = IF i <= Len(r) THEN r[i] ELSE s[i - Len(r)]
      BY <3>2, <3>4, ConcatProperties
    <3>6. PICK i \in 1..(Len(r) + Len(s)) : b = (r \o s)[i]
      <4>1. PICK j \in DOMAIN (r \o s) : b = (r \o s)[j]
        BY <2>2, <3>1, <3>2 DEF Range
      <4>2. DOMAIN (r \o s) = 1..(Len(r) + Len(s))
        BY <3>5, LenProperties
      <4> QED BY <4>1, <4>2
    <3>7. CASE i <= Len(r)
      <4>1. i = 1 /\ r # <<>>
        BY <3>4, <3>6, <3>7
      <4>2. b = r[1]
        BY <3>5, <3>6, <3>7, <4>1
      <4> QED BY <2>1, <2>2, <3>1, <4>1, <4>2 DEF NodesOK, NodeByte
    <3>8. CASE ~(i <= Len(r))
      <4>1. i - Len(r) \in 1..Len(s)
        BY <3>2, <3>4, <3>6, <3>8, LenProperties
      <4>2. b = s[i - Len(r)]
        BY <3>5, <3>6, <3>8
      <4> QED BY <2>1, <2>2, <3>2, <4>1, <4>2 DEF NodesOK, NodeByte
    <3> QED BY <3>7, <3>8
  <2> QED BY <2>1, <2>2 DEF ZeroMisroutes, ResidualOK
<1> QED BY <1>1, FabricInvariant, PTL

(* Wormhole integrity: a node gets the bytes of a packet one after the     *)
(* other, and a packet only after the end of the one before, whoever else  *)
(* uses the spine and the lanes (HDL/core/flit_gate.v, gen_topology.go).   *)
THEOREM NeverTorn == Spec => []UntornPackets
<1>1. FabricInv => UntornPackets
  <2> SUFFICES ASSUME FabricInv, NEW n \in Node, NEW i \in 1..(Len(got[n]) - 1)
               PROVE  IF got[n][i].eop THEN got[n][i + 1].sop
                      ELSE /\ got[n][i + 1].pkt = got[n][i].pkt
                           /\ got[n][i + 1].pos = got[n][i].pos + 1
    BY DEF UntornPackets
  <2>1. PICK a, b : a = got[n][i] /\ b = got[n][i + 1]
    OBVIOUS
  <2>2. Cur(b) = After(a)
    BY <2>1 DEF FabricInv, NodesOK
  <2>3. CASE a.eop
    <3>1. Cur(b) = Idle
      BY <2>2, <2>3 DEF After
    <3>2. b.sop
      BY <3>1, NotIdle DEF Cur
    <3> QED BY <2>1, <2>3, <3>2
  <2>4. CASE ~a.eop
    <3>1. Cur(b) = <<a.pkt, a.pos + 1>>
      BY <2>2, <2>4 DEF After
    <3>2. ~b.sop /\ Cur(b) = <<b.pkt, b.pos>>
      BY <3>1, NotIdle DEF Cur
    <3>3. b.pkt = a.pkt /\ b.pos = a.pos + 1
      BY <3>1, <3>2
    <3> QED BY <2>1, <2>4, <3>3
  <2> QED BY <2>3, <2>4
<1> QED BY <1>1, FabricInvariant, PTL

-----------------------------------------------------------------------------
(* The refinement: what node n has yet to receive, slot by slot from its   *)
(* port back to the host.  Up(k) is what repeater k + 1 takes bytes from.  *)
Up(k) == IF k = 0 THEN src ELSE spine[k]

Slot(n, i) == IF i = 1 THEN port[n]
              ELSE IF i <= n[2] + 1 THEN Ours(n, lane[n[1]][n[2] + 1 - i])
              ELSE Seen(n, Up(n[1] + n[2] + 1 - i))

IsRoute(q, n) == /\ q \in [1..(n[1] + n[2] + 1) -> Seq(Byte)]
                 /\ \A i \in 1..(n[1] + n[2] + 1) : q[i] = Slot(n, i)

(* Bytes on their way to a node.                                           *)
LEMMA Delivered ==
    ASSUME NEW b \in Byte
    PROVE  AsDelivered(b) \in Byte
<1>1. ASSUME NEW s \in BOOLEAN, NEW f, f = [b EXCEPT !.sop = s, !.vc = 3]
      PROVE  f \in Byte
  <2>1. b.pkt \in Packet /\ b.pos \in Nat /\ b.eop \in BOOLEAN /\ 3 \in 0..3
    BY DEF Byte
  <2> QED BY <1>1, <2>1, Zenon DEF Byte
<1>2. PICK s \in BOOLEAN : s = (b.pos = 2)
  OBVIOUS
<1>3. AsDelivered(b) = [b EXCEPT !.sop = s, !.vc = 3]
  BY <1>2 DEF AsDelivered, VcOnboard
<1> QED BY <1>1, <1>3

LEMMA RegisterSeq == \A r \in Reg : r \in Seq(Byte)
<1>1. \A b \in Byte : <<b>> \in Seq(Byte)
  OBVIOUS
<1>2. <<>> \in Seq(Byte)
  OBVIOUS
<1> QED BY <1>1, <1>2 DEF Reg

LEMMA OursOfRegister ==
    ASSUME NEW n, NEW r \in Reg
    PROVE  /\ Ours(n, r) \in Seq(Byte)
           /\ Ours(n, <<>>) = <<>>
           /\ \A b \in Byte : Ours(n, <<b>>) = IF n \in Dest(b.pkt) THEN <<b>> ELSE <<>>
<1>1. Ours(n, r) \in {r, <<>>}
  BY DEF Ours
<1>2. \A b \in Byte : <<b>> # <<>> /\ Head(<<b>>) = b
  BY Registers
<1> QED BY <1>1, <1>2, RegisterSeq, EmptySeq DEF Ours

(* A sequence of bytes as a node sees them.                                *)
Converted(s) == [i \in 1..Len(s) |-> AsDelivered(s[i])]

LEMMA ConvertedSeq ==
    ASSUME NEW s \in Seq(Byte)
    PROVE  /\ Converted(s) \in Seq(Byte) /\ Len(Converted(s)) = Len(s)
           /\ \A i \in 1..Len(s) : Converted(s)[i] = AsDelivered(s[i])
<1>1. \A i \in 1..Len(s) : AsDelivered(s[i]) \in Byte
  BY Delivered
<1>2. Len(s) \in Nat
  OBVIOUS
<1>3. Converted(s) \in [1..Len(s) -> Byte]
  BY <1>1 DEF Converted
<1> QED BY <1>2, <1>3 DEF Converted

LEMMA ConvertedNone == Converted(<<>>) = <<>>
<1>1. Len(<<>>) = 0 /\ <<>> \in Seq(Byte)
  OBVIOUS
<1>2. Converted(<<>>) \in Seq(Byte) /\ Len(Converted(<<>>)) = 0
  BY <1>1, ConvertedSeq
<1> QED BY <1>2, EmptySeq

LEMMA ConvertedOne ==
    ASSUME NEW b \in Byte
    PROVE  Converted(<<b>>) = <<AsDelivered(b)>>
<1>1. <<b>> \in Seq(Byte) /\ Len(<<b>>) = 1 /\ <<b>>[1] = b
  OBVIOUS
<1> DEFINE s == Converted(<<b>>)
           t == <<AsDelivered(b)>>
<1>2. s \in Seq(Byte) /\ Len(s) = 1 /\ s[1] = AsDelivered(b)
  <2>1. PICK u \in Seq(Byte) : u = <<b>>
    BY <1>1
  <2>2. Len(u) = 1 /\ u[1] = b /\ 1 \in 1..1
    BY <1>1, <2>1
  <2>3. Converted(u) \in Seq(Byte) /\ Len(Converted(u)) = 1 /\ Converted(u)[1] = AsDelivered(u[1])
    BY <2>2, ConvertedSeq
  <2> QED BY <2>1, <2>2, <2>3
<1>3. t \in Seq(Byte) /\ Len(t) = 1 /\ t[1] = AsDelivered(b)
  BY Delivered
<1>4. \A i \in 1..1 : s[i] = t[i]
  BY <1>2, <1>3
<1> HIDE DEF s, t
<1>5. s = t
  BY <1>2, <1>3, <1>4, SeqEqual
<1> QED BY <1>5 DEF s, t

LEMMA SeenIs == \A n, s : Seen(n, s) = Converted(Unheaded(Ours(n, s)))
BY DEF Seen, Converted

LEMMA SeenOfNone == \A n : Seen(n, <<>>) = <<>>
<1>1. \A n : Ours(n, <<>>) = <<>>
  BY DEF Ours
<1>2. Unheaded(<<>>) = <<>>
  BY DEF Unheaded
<1> QED BY <1>1, <1>2, SeenIs, ConvertedNone

LEMMA SeenOfByte ==
    ASSUME NEW n, NEW b \in Byte
    PROVE  Seen(n, <<b>>) = IF n \in Dest(b.pkt) /\ b.pos # 1 THEN <<AsDelivered(b)>> ELSE <<>>
<1>1. Ours(n, <<b>>) = IF n \in Dest(b.pkt) THEN <<b>> ELSE <<>>
  BY OursOfRegister, Registers
<1>2. <<b>> # <<>> /\ Head(<<b>>) = b /\ Tail(<<b>>) = <<>>
  <2>1. <<b>> \in Seq(Byte) /\ Len(<<b>>) = 1
    OBVIOUS
  <2>2. Tail(<<b>>) \in Seq(Byte) /\ Len(Tail(<<b>>)) = 0
    BY <2>1, HeadTailProperties
  <2> QED BY <2>2, EmptySeq, Registers
<1>3. Unheaded(<<>>) = <<>> /\ Unheaded(<<b>>) = IF b.pos = 1 THEN <<>> ELSE <<b>>
  BY <1>2 DEF Unheaded
<1> QED BY <1>1, <1>3, SeenIs, ConvertedNone, ConvertedOne

(* The bytes the host still has of a packet: no head after the first.      *)
OnePacket(s) == /\ s \in Seq(Byte)
                /\ \A i \in 1..Len(s) : s[i].pkt = s[1].pkt /\ (i # 1 => s[i].pos # 1)

LEMMA SeenTyped ==
    ASSUME NEW n, NEW s \in Seq(Byte)
    PROVE  Seen(n, s) \in Seq(Byte)
<1>1. Ours(n, s) \in Seq(Byte)
  <2>1. Ours(n, s) \in {s, <<>>} /\ <<>> \in Seq(Byte)
    BY DEF Ours
  <2> QED BY <2>1
<1>2. \A t \in Seq(Byte) : Unheaded(t) \in Seq(Byte)
  BY HeadTailProperties DEF Unheaded
<1> QED BY <1>1, <1>2, SeenIs, ConvertedSeq

LEMMA TailBytes ==
    ASSUME NEW s \in Seq(Byte), s # <<>>
    PROVE  /\ Head(s) = s[1] /\ Head(s) \in Byte /\ Len(s) \in Nat \ {0}
           /\ Tail(s) \in Seq(Byte) /\ Len(Tail(s)) = Len(s) - 1
           /\ \A i \in 1..(Len(s) - 1) : Tail(s)[i] = s[i + 1]
<1>1. Len(s) \in Nat \ {0}
  BY EmptySeq
<1>2. Tail(s) \in Seq(Byte) /\ Len(Tail(s)) = Len(s) - 1
      /\ \A i \in 1..Len(Tail(s)) : Tail(s)[i] = s[i + 1]
  BY HeadTailProperties
<1> QED BY <1>1, <1>2

LEMMA TailOfPacket ==
    ASSUME NEW s, OnePacket(s), s # <<>>, Tail(s) # <<>>
    PROVE  Head(Tail(s)).pkt = Head(s).pkt /\ Head(Tail(s)).pos # 1
<1>1. PICK t \in Seq(Byte) : t = Tail(s)
  BY TailBytes DEF OnePacket
<1>2. Head(t) = t[1] /\ Len(t) \in Nat \ {0} /\ Len(t) = Len(s) - 1 /\ Len(s) \in Nat
      /\ Head(s) = s[1]
  BY <1>1, TailBytes DEF OnePacket
<1>3. 1 \in 1..(Len(s) - 1) /\ 1 + 1 = 2 /\ 2 \in 1..Len(s) /\ 2 # 1
  BY <1>2
<1>4. t[1] = s[2]
  BY <1>1, <1>3, TailBytes DEF OnePacket
<1>5. s[2].pkt = s[1].pkt /\ s[2].pos # 1
  BY <1>3 DEF OnePacket
<1> QED BY <1>1, <1>2, <1>4, <1>5

LEMMA ConvertedSplits ==
    ASSUME NEW s \in Seq(Byte), s # <<>>
    PROVE  Converted(s) = <<AsDelivered(Head(s))>> \o Converted(Tail(s))
<1>1. PICK t \in Seq(Byte) : t = Tail(s)
  BY TailBytes
<1>2. PICK b \in Byte : b = Head(s)
  BY TailBytes
<1>3. /\ s[1] = b /\ Len(s) \in Nat \ {0} /\ Len(t) = Len(s) - 1
      /\ \A i \in 1..(Len(s) - 1) : t[i] = s[i + 1]
  BY <1>1, <1>2, TailBytes
<1>4. PICK u \in Seq(Byte) : u = Converted(s)
  BY ConvertedSeq
<1>5. Len(u) = Len(s) /\ \A i \in 1..Len(s) : u[i] = AsDelivered(s[i])
  BY <1>4, ConvertedSeq
<1>6. PICK v \in Seq(Byte) : v = Converted(t)
  BY ConvertedSeq
<1>7. Len(v) = Len(t) /\ \A i \in 1..Len(t) : v[i] = AsDelivered(t[i])
  BY <1>6, ConvertedSeq
<1>8. PICK c \in Byte : c = AsDelivered(b)
  BY Delivered
<1>9. <<c>> \in Seq(Byte) /\ Len(<<c>>) = 1 /\ <<c>>[1] = c
  OBVIOUS
<1>10. /\ <<c>> \o v \in Seq(Byte) /\ Len(<<c>> \o v) = 1 + Len(v)
       /\ \A i \in 1..(1 + Len(v)) : (<<c>> \o v)[i] = IF i <= 1 THEN <<c>>[i] ELSE v[i - 1]
  BY <1>9, ConcatProperties
<1>11. ASSUME NEW i \in 1..Len(u) PROVE u[i] = (<<c>> \o v)[i]
  <2>1. CASE i = 1
    BY <1>3, <1>5, <1>7, <1>8, <1>9, <1>10, <1>11, <2>1
  <2>2. CASE i # 1
    <3>1. i - 1 \in 1..Len(t) /\ i - 1 \in 1..(Len(s) - 1) /\ (i - 1) + 1 = i /\ ~(i <= 1)
          /\ i \in 1..(1 + Len(v))
      BY <1>3, <1>5, <1>7, <1>11, <2>2
    <3>2. t[i - 1] = s[i]
      BY <1>3, <3>1
    <3>3. (<<c>> \o v)[i] = v[i - 1] /\ v[i - 1] = AsDelivered(t[i - 1])
      BY <1>7, <1>10, <3>1
    <3> QED BY <1>5, <1>11, <3>2, <3>3
  <2> QED BY <2>1, <2>2
<1>12. Len(<<c>> \o v) = Len(u)
  BY <1>3, <1>5, <1>7, <1>10
<1>13. u = <<c>> \o v
  BY <1>10, <1>11, <1>12, SeqEqual
<1> QED BY <1>1, <1>2, <1>4, <1>6, <1>8, <1>13

(* What is seen of the bytes of a packet is what is seen of the first and  *)
(* what is seen of the others.                                             *)
LEMMA SeenSplits ==
    ASSUME NEW n, NEW s, OnePacket(s), s # <<>>
    PROVE  Seen(n, s) = Seen(n, <<Head(s)>>) \o Seen(n, Tail(s))
<1>1. PICK t \in Seq(Byte) : t = Tail(s)
  BY TailBytes DEF OnePacket
<1>2. PICK b \in Byte : b = Head(s)
  BY TailBytes DEF OnePacket
<1>3. s \in Seq(Byte) /\ t # <<>> => Head(t).pkt = b.pkt /\ Head(t).pos # 1
  BY <1>1, <1>2, TailOfPacket
<1>4. \A u \in Seq(Byte) : <<>> \o u = u
  OBVIOUS
<1>5. CASE n \notin Dest(b.pkt)
  <2>1. Ours(n, s) = <<>> /\ Ours(n, t) = <<>>
    BY <1>2, <1>3, <1>5 DEF Ours, OnePacket
  <2>2. Seen(n, s) = <<>> /\ Seen(n, t) = <<>>
    BY <2>1, SeenIs, ConvertedNone DEF Unheaded
  <2>3. Seen(n, <<b>>) = <<>>
    <3>1. ~(n \in Dest(b.pkt) /\ b.pos # 1)
      BY <1>5
    <3> QED BY <3>1, SeenOfByte, Zenon
  <2>4. <<>> \in Seq(Byte)
    OBVIOUS
  <2> QED BY <1>1, <1>2, <1>4, <2>2, <2>3, <2>4
<1>6. CASE n \in Dest(b.pkt)
  <2>1. Ours(n, s) = s /\ Ours(n, t) = t
    BY <1>2, <1>3, <1>6 DEF Ours, OnePacket
  <2>2. Seen(n, t) = Converted(t) /\ Converted(t) \in Seq(Byte)
    <3>1. Unheaded(t) = t
      BY <1>3 DEF Unheaded, OnePacket
    <3> QED BY <2>1, <3>1, SeenIs, ConvertedSeq
  <2>3. CASE b.pos = 1
    <3>1. Seen(n, s) = Converted(t)
      BY <1>1, <1>2, <2>1, <2>3, SeenIs DEF Unheaded
    <3>2. Seen(n, <<b>>) = <<>>
      BY <2>3, SeenOfByte
    <3> QED BY <1>1, <1>2, <1>4, <2>2, <3>1, <3>2
  <2>4. CASE b.pos # 1
    <3>1. Seen(n, s) = Converted(s)
      BY <1>2, <2>1, <2>4, SeenIs DEF Unheaded
    <3>2. Seen(n, <<b>>) = <<AsDelivered(b)>>
      BY <1>6, <2>4, SeenOfByte
    <3>3. Converted(s) = <<AsDelivered(b)>> \o Converted(t)
      BY <1>1, <1>2, ConvertedSplits DEF OnePacket
    <3> QED BY <1>1, <1>2, <2>2, <3>1, <3>2, <3>3
  <2> QED BY <2>3, <2>4
<1> QED BY <1>5, <1>6

(* Of a whole packet its node sees the bytes it is to be delivered.        *)
LEMMA SeenOfPacket ==
    ASSUME NEW n, NEW p \in Packet
    PROVE  /\ OnePacket(Bytes(p))
           /\ Seen(n, Bytes(p)) = IF n \in Dest(p) THEN DeliveredBytes(p) ELSE <<>>
<1>1. PICK s \in Seq(Byte) : s = Bytes(p)
  BY PacketBytes
<1>2. /\ Len(s) = p.len /\ p.len \in Nat /\ p.len >= 3
      /\ \A i \in 1..p.len : s[i].pkt = p /\ s[i].pos = i
  BY <1>1, PacketBytes, Addresses
<1>3. s # <<>> /\ 1 \in 1..p.len
  BY <1>2, EmptySeq
<1>4. OnePacket(s)
  BY <1>2, <1>3 DEF OnePacket
<1>5. Head(s) = s[1] /\ Head(s).pkt = p /\ Head(s).pos = 1
  BY <1>2, <1>3, TailBytes
<1>6. CASE n \notin Dest(p)
  <2>1. Ours(n, s) = <<>>
    BY <1>5, <1>6 DEF Ours
  <2> QED BY <1>1, <1>4, <1>6, <2>1, SeenIs, ConvertedNone DEF Unheaded
<1>7. CASE n \in Dest(p)
  <2>1. PICK t \in Seq(Byte) : t = Tail(s)
    BY <1>3, TailBytes
  <2>2. Seen(n, s) = Converted(t)
    <3>1. Ours(n, s) = s
      BY <1>3, <1>5, <1>7 DEF Ours
    <3>2. Unheaded(s) = t
      BY <1>3, <1>5, <2>1 DEF Unheaded
    <3> QED BY <3>1, <3>2, SeenIs
  <2>3. Len(t) = p.len - 1 /\ \A i \in 1..(p.len - 1) : t[i] = s[i + 1]
    BY <1>2, <1>3, <2>1, TailBytes
  <2>4. Converted(t) = [i \in 1..(p.len - 1) |-> AsDelivered(s[i + 1])]
    BY <2>3 DEF Converted
  <2>5. DeliveredBytes(p) = [i \in 1..(p.len - 1) |-> AsDelivered(s[i + 1])]
    BY <1>1 DEF DeliveredBytes
  <2> QED BY <1>1, <1>4, <1>7, <2>2, <2>4, <2>5
<1> QED BY <1>6, <1>7

LEMMA SourcePacket ==
    ASSUME NEW s, s = <<>> \/ \E p \in Packet : \E i \in 1..p.len : s = SubSeq(Bytes(p), i, p.len)
    PROVE  OnePacket(s)
<1>1. CASE s = <<>>
  <2>1. <<>> \in Seq(Byte) /\ Len(<<>>) = 0
    OBVIOUS
  <2> QED BY <1>1, <2>1 DEF OnePacket
<1>2. CASE s # <<>>
  <2>1. PICK p \in Packet : \E i \in 1..p.len : s = SubSeq(Bytes(p), i, p.len)
    BY <1>2
  <2>2. PICK i \in 1..p.len : s = SubSeq(Bytes(p), i, p.len)
    BY <2>1
  <2>4. p.len \in Nat /\ i \in 1..p.len /\ Bytes(p) \in Seq(Byte) /\ Len(Bytes(p)) = p.len
    BY <2>2, Addresses, PacketBytes
  <2>5. s \in Seq(Byte) /\ Len(s) = p.len - i + 1
        /\ \A j \in 1..(p.len - i + 1) : s[j] = Bytes(p)[i + j - 1]
    BY <2>2, <2>4, SubSeqProperties
  <2>6. ASSUME NEW j \in 1..Len(s) PROVE s[j].pkt = p /\ s[j].pos = i + j - 1 /\ i + j - 1 \in Nat
    <3>1. i + j - 1 \in 1..p.len /\ j \in 1..(p.len - i + 1)
      BY <2>4, <2>5, <2>6
    <3>2. PICK k \in 1..p.len : k = i + j - 1
      BY <3>1
    <3>3. Bytes(p)[k].pkt = p /\ Bytes(p)[k].pos = k
      BY PacketBytes
    <3>4. s[j] = Bytes(p)[k]
      BY <2>5, <3>1, <3>2
    <3> QED BY <3>1, <3>2, <3>3, <3>4
  <2>7. ASSUME NEW j \in 1..Len(s) PROVE s[j].pkt = s[1].pkt /\ (j # 1 => s[j].pos # 1)
    <3>1. 1 \in 1..Len(s)
      BY <2>4, <2>5
    <3>2. j # 1 => i + j - 1 # 1
      BY <2>4, <2>5, <2>7
    <3> QED BY <2>6, <2>7, <3>1, <3>2
  <2> QED BY <2>5, <2>7 DEF OnePacket
<1> QED BY <1>1, <1>2

-----------------------------------------------------------------------------
(* A path has its slots, whatever is in them.                              *)
PathOf(n, pt, ln, sp, s) ==
    LET onBoard == [i \in 1..n[2] |-> Ours(n, ln[n[2] - i])]
        onSpine == [i \in 1..(n[1] - 1) |-> Seen(n, sp[n[1] - i])]
    IN  <<pt>> \o onBoard \o onSpine \o <<Seen(n, s)>>

SlotOf(n, i, pt, ln, sp, s) ==
    LET k == n[1] + n[2] + 1 - i
    IN  IF i = 1 THEN pt
        ELSE IF i <= n[2] + 1 THEN Ours(n, ln[n[2] + 1 - i])
        ELSE Seen(n, IF k = 0 THEN s ELSE sp[k])

IsRouteOf(t, n, pt, ln, sp, s) ==
    /\ t \in [1..(n[1] + n[2] + 1) -> Seq(Byte)]
    /\ \A i \in 1..(n[1] + n[2] + 1) : t[i] = SlotOf(n, i, pt, ln, sp, s)

LEMMA NodeTyped ==
    ASSUME NEW n \in Node
    PROVE  /\ n[1] \in 1..NL /\ n[2] \in 0..(Bx - 1) /\ n[3] \in 0..(By - 1)
           /\ n = <<n[1], n[2], n[3]>> /\ n[1] \in Layer /\ n[2] \in Col /\ n[3] \in Row
           /\ NL \in 1..15 /\ Bx \in 1..16 /\ By \in 1..16
BY Addresses DEF Node, Layer, Col, Row

LEMMA RouteOf ==
    ASSUME NEW n \in Node, NEW pt \in Reg, NEW ln \in [0..(Bx - 2) -> Reg],
           NEW sp \in [Layer -> Reg], NEW s \in Seq(Byte)
    PROVE  IsRouteOf(PathOf(n, pt, ln, sp, s), n, pt, ln, sp, s)
<1> DEFINE x == n[2]
           m == n[1] - 1
           p == [i \in 1..x |-> Ours(n, ln[x - i])]
           q == [i \in 1..m |-> Seen(n, sp[(m + 1) - i])]
           b == Seen(n, s)
<1>1. /\ x \in Nat /\ m \in Nat /\ n[1] = m + 1 /\ n[2] = x /\ x <= Bx - 1 /\ m < NL
      /\ NL \in 1..15 /\ Bx \in 1..16 /\ n[1] + n[2] + 1 = x + m + 2
  <2>1. n[1] \in 1..NL /\ n[2] \in 0..(Bx - 1) /\ NL \in 1..15 /\ Bx \in 1..16
    BY NodeTyped
  <2>2. PICK a, c : a = n[1] /\ c = n[2]
    OBVIOUS
  <2>3. c \in Nat /\ a - 1 \in Nat /\ a = (a - 1) + 1 /\ c <= Bx - 1 /\ a - 1 < NL
        /\ a + c + 1 = c + (a - 1) + 2
    BY <2>1, <2>2
  <2> QED BY <2>1, <2>2, <2>3
<1>2. p \in [1..x -> Seq(Byte)]
  <2>1. ASSUME NEW i \in 1..x PROVE Ours(n, ln[x - i]) \in Seq(Byte)
    <3>1. \A y \in Nat : \A k \in 1..y : y <= Bx - 1 => y - k \in 0..(Bx - 2)
      BY Addresses
    <3>2. x - i \in 0..(Bx - 2)
      BY <1>1, <2>1, <3>1, Zenon
    <3> QED BY <3>2, OursOfRegister
  <2> QED BY <2>1
<1>3. q \in [1..m -> Seq(Byte)]
  <2>1. ASSUME NEW i \in 1..m PROVE Seen(n, sp[(m + 1) - i]) \in Seq(Byte)
    <3>1. (m + 1) - i \in Layer
      BY <1>1 DEF Layer
    <3>2. sp[(m + 1) - i] \in Seq(Byte)
      BY <3>1, RegisterSeq
    <3> QED BY <3>2, SeenTyped
  <2> QED BY <2>1
<1>4. b \in Seq(Byte) /\ pt \in Seq(Byte)
  BY SeenTyped, RegisterSeq
<1>5. PathOf(n, pt, ln, sp, s) = <<pt>> \o p \o q \o <<b>>
  BY <1>1 DEF PathOf
<1>6. /\ \A i \in 1..x : p[i] = Ours(n, ln[x - i])
      /\ \A i \in 1..m : q[i] = Seen(n, sp[(m + 1) - i])
  OBVIOUS
<1>7. PICK t : t = <<pt>> \o p \o q \o <<b>>
  OBVIOUS
<1> HIDE DEF p, q, b, x, m
<1>8. IsLine(t, pt, p, x, q, m, b, Seq(Byte))
  BY <1>1, <1>2, <1>3, <1>4, <1>7, LineUp
<1>9. /\ t \in [1..(x + m + 2) -> Seq(Byte)] /\ t[1] = pt /\ t[x + m + 2] = b
      /\ \A i \in 1..x : t[i + 1] = p[i]
      /\ \A i \in 1..m : t[x + 1 + i] = q[i]
  BY <1>8 DEF IsLine
<1>10. ASSUME NEW i \in 1..(x + m + 2) PROVE t[i] = SlotOf(n, i, pt, ln, sp, s)
  <2>1. CASE i = 1
    BY <1>9, <2>1 DEF SlotOf
  <2>2. CASE i # 1 /\ i <= x + 1
    <3>1. PICK j \in 1..x : j = i - 1
      BY <1>1, <1>10, <2>2
    <3>2. i = j + 1 /\ x + 1 - i = x - j
      BY <1>1, <1>10, <3>1
    <3>3. t[i] = Ours(n, ln[x + 1 - i])
      BY <1>6, <1>9, <3>2
    <3> QED BY <2>2, <3>3 DEF SlotOf, x
  <2>3. CASE i > x + 1 /\ i # x + m + 2
    <3>1. PICK j \in 1..m : j = i - (x + 1)
      BY <1>1, <1>10, <2>3
    <3>2. i = x + 1 + j /\ n[1] + n[2] + 1 - i = (m + 1) - j /\ (m + 1) - j # 0
          /\ i # 1 /\ ~(i <= x + 1)
      BY <1>1, <1>10, <3>1
    <3>3. t[i] = Seen(n, sp[(m + 1) - j])
      BY <1>6, <1>9, <3>2
    <3> QED BY <3>2, <3>3 DEF SlotOf, x
  <2>4. CASE i = x + m + 2
    <3>1. n[1] + n[2] + 1 - i = 0 /\ i # 1 /\ ~(i <= x + 1)
      BY <1>1, <2>4
    <3>2. t[i] = Seen(n, s)
      BY <1>9, <2>4 DEF b
    <3> QED BY <3>1, <3>2 DEF SlotOf, x
  <2> QED BY <1>1, <1>10, <2>1, <2>2, <2>3, <2>4
<1>11. IsRouteOf(t, n, pt, ln, sp, s)
  BY <1>1, <1>9, <1>10 DEF IsRouteOf
<1> QED BY <1>5, <1>7, <1>11

LEMMA PathShapes ==
    ASSUME NEW n \in Node
    PROVE  /\ Shapes => /\ port[n] \in Reg /\ lane[n[1]] \in [0..(Bx - 2) -> Reg]
                        /\ spine \in [Layer -> Reg] /\ OnePacket(src)
           /\ Shapes' => /\ port'[n] \in Reg /\ lane'[n[1]] \in [0..(Bx - 2) -> Reg]
                         /\ spine' \in [Layer -> Reg] /\ OnePacket(src')
<1>1. n[1] \in Layer
  BY NodeTyped
<1>2. Shapes => OnePacket(src)
  BY SourcePacket DEF Shapes, SrcOK
<1>3. Shapes' => OnePacket(src')
  <2>1. Shapes' => src' = <<>> \/ \E p \in Packet : \E i \in 1..p.len : src' = SubSeq(Bytes(p), i, p.len)
    BY DEF Shapes, SrcOK, Bytes
  <2> QED BY <2>1, SourcePacket
<1> QED BY <1>1, <1>2, <1>3 DEF Shapes

LEMMA Routes ==
    ASSUME Shapes, Shapes', NEW n \in Node
    PROVE  IsRoute(Path(n), n) /\ IsRoute(Path(n), n)'
<1>1. Path(n) = PathOf(n, port[n], lane[n[1]], spine, src)
  BY DEF Path, PathOf
<1>2. Path(n)' = PathOf(n, port'[n], lane'[n[1]], spine', src')
  BY DEF Path, PathOf, Ours, Seen, Unheaded, AsDelivered, Dest
<1>3. \A i : /\ Slot(n, i) = SlotOf(n, i, port[n], lane[n[1]], spine, src)
             /\ Slot(n, i)' = SlotOf(n, i, port'[n], lane'[n[1]], spine', src')
  BY DEF Slot, SlotOf, Up, Ours, Seen, Unheaded, AsDelivered, Dest
<1>4. IsRouteOf(Path(n), n, port[n], lane[n[1]], spine, src)
  BY <1>1, PathShapes, RouteOf DEF OnePacket
<1>5. IsRouteOf(Path(n)', n, port'[n], lane'[n[1]], spine', src')
  BY <1>2, PathShapes, RouteOf DEF OnePacket
<1> QED BY <1>3, <1>4, <1>5 DEF IsRoute, IsRouteOf

SlotCount(n) == n[1] + n[2] + 1

SlotKept(n, i) == Slot(n, i)' = Slot(n, i)

(* Nothing moves on node n's path.                                         *)
LEMMA PathRests ==
    ASSUME Shapes, Shapes', NEW n \in Node, \A i \in 1..SlotCount(n) : SlotKept(n, i)
    PROVE  FlattenSeq(Path(n))' = FlattenSeq(Path(n))
<1>1. IsRoute(Path(n), n) /\ IsRoute(Path(n), n)'
  BY Routes
<1>2. PICK m \in Nat : m = SlotCount(n)
  BY NodeTyped DEF SlotCount
<1>3. PICK p, r : p = Path(n) /\ r = Path(n)'
  OBVIOUS
<1>4. p \in [1..m -> Seq(Byte)] /\ r \in [1..m -> Seq(Byte)]
  BY <1>1, <1>2, <1>3 DEF IsRoute, SlotCount
<1>5. \A i \in 1..m : p[i] = Slot(n, i) /\ r[i] = Slot(n, i)'
  BY <1>1, <1>2, <1>3 DEF IsRoute, SlotCount
<1>6. \A i \in 1..m : r[i] = p[i]
  BY <1>2, <1>5 DEF SlotKept
<1>7. r = p
  BY <1>4, <1>6
<1> QED BY <1>3, <1>7

(* A byte moves from slot j + 1 to slot j, which was empty.                *)
HopsTo(n, j) == Slot(n, j) = <<>> /\ Slot(n, j + 1) = Slot(n, j)' \o Slot(n, j + 1)'

LEMMA PathHops ==
    ASSUME Shapes, Shapes', NEW n \in Node, NEW j \in 1..(SlotCount(n) - 1), HopsTo(n, j),
           \A i \in 1..SlotCount(n) : i # j /\ i # j + 1 => SlotKept(n, i)
    PROVE  FlattenSeq(Path(n))' = FlattenSeq(Path(n))
<1>1. IsRoute(Path(n), n) /\ IsRoute(Path(n), n)'
  BY Routes
<1>2. PICK m \in Nat : m = SlotCount(n)
  BY NodeTyped DEF SlotCount
<1>3. PICK p, r : p = Path(n) /\ r = Path(n)'
  OBVIOUS
<1>4. IsRow(p, m, Byte) /\ IsRow(r, m, Byte)
  BY <1>1, <1>2, <1>3 DEF IsRoute, IsRow, SlotCount
<1>5. \A i \in 1..m : p[i] = Slot(n, i) /\ r[i] = Slot(n, i)'
  BY <1>1, <1>2, <1>3 DEF IsRoute, SlotCount
<1>6. j \in 1..(m - 1) /\ j \in 1..m /\ j + 1 \in 1..m
  BY <1>2
<1>7. SameUpTo(p, r, j - 1)
  BY <1>2, <1>5, <1>6 DEF SameUpTo, SlotKept
<1>8. SameFrom(p, r, j + 1, m)
  BY <1>2, <1>5, <1>6 DEF SameFrom, SlotKept
<1>9. Moved(p, r, j)
  <2>1. p[j] = <<>> /\ p[j + 1] = r[j] \o r[j + 1]
    BY <1>5, <1>6 DEF HopsTo
  <2>2. p[j + 1] \in Seq(Byte)
    BY <1>4, <1>6 DEF IsRow
  <2>3. <<>> \o p[j + 1] = p[j + 1]
    BY <2>2
  <2>4. p[j] \o p[j + 1] = r[j] \o r[j + 1]
    BY <2>1, <2>3, Zenon
  <2> QED BY <2>4 DEF Moved
<1>10. FlattenSeq(r) = FlattenSeq(p)
  BY <1>4, <1>6, <1>7, <1>8, <1>9, FlattenMoved
<1> QED BY <1>3, <1>10

(* Node n gets the bytes of a packet in its last slot.                     *)
LEMMA PathFed ==
    ASSUME Shapes, Shapes', NEW n \in Node, NEW d \in Seq(Byte),
           Slot(n, SlotCount(n)) = <<>>, Slot(n, SlotCount(n))' = d,
           \A i \in 1..(SlotCount(n) - 1) : SlotKept(n, i)
    PROVE  FlattenSeq(Path(n))' = FlattenSeq(Path(n)) \o d
<1>1. IsRoute(Path(n), n) /\ IsRoute(Path(n), n)'
  BY Routes
<1>2. PICK m \in Nat \ {0} : m = SlotCount(n)
  BY NodeTyped DEF SlotCount
<1>3. PICK p, r : p = Path(n) /\ r = Path(n)'
  OBVIOUS
<1>4. IsRow(p, m, Byte) /\ IsRow(r, m, Byte)
  BY <1>1, <1>2, <1>3 DEF IsRoute, IsRow, SlotCount
<1>5. \A i \in 1..m : p[i] = Slot(n, i) /\ r[i] = Slot(n, i)'
  BY <1>1, <1>2, <1>3 DEF IsRoute, SlotCount
<1>6. m \in 1..m /\ p[m] = <<>> /\ r[m] = d
  BY <1>2, <1>5
<1>7. SameUpTo(p, r, m - 1)
  BY <1>2, <1>5 DEF SameUpTo, SlotKept
<1>8. GotAtEnd(p, r, d)
  BY <1>4, <1>6, <1>7, FlattenLast
<1> QED BY <1>3, <1>8, Zenon DEF GotAtEnd

(* The byte on its port leaves node n's path.                              *)
LEMMA PathLeft ==
    ASSUME Shapes, Shapes', NEW n \in Node, NEW b \in Byte,
           Slot(n, 1) = <<b>>, Slot(n, 1)' = <<>>,
           \A i \in 2..SlotCount(n) : SlotKept(n, i)
    PROVE  /\ FlattenSeq(Path(n)) = <<b>> \o FlattenSeq(Path(n))'
           /\ FlattenSeq(Path(n))' \in Seq(Byte)
<1>1. IsRoute(Path(n), n) /\ IsRoute(Path(n), n)'
  BY Routes
<1>2. PICK m \in Nat \ {0} : m = SlotCount(n)
  BY NodeTyped DEF SlotCount
<1>3. PICK p, r : p = Path(n) /\ r = Path(n)'
  OBVIOUS
<1>4. IsRow(p, m, Byte) /\ IsRow(r, m, Byte)
  BY <1>1, <1>2, <1>3 DEF IsRoute, IsRow, SlotCount
<1>5. \A i \in 1..m : p[i] = Slot(n, i) /\ r[i] = Slot(n, i)'
  BY <1>1, <1>2, <1>3 DEF IsRoute, SlotCount
<1>6. p[1] = <<b>> /\ r[1] = <<>> /\ <<b>> \in Seq(Byte)
  BY <1>5
<1>7. SameFrom(p, r, 1, m)
  BY <1>2, <1>5 DEF SameFrom, SlotKept
<1>8. LostInFront(p, r, <<b>>)
  <2>1. PICK d \in Seq(Byte) : d = <<b>>
    BY <1>6
  <2>2. p[1] = d /\ r[1] = <<>>
    BY <1>6, <2>1
  <2>3. LostInFront(p, r, d)
    BY <1>4, <1>7, <2>2, FlattenFirst
  <2> QED BY <2>1, <2>3
<1>9. PICK h : IsFlatten(h, r, m, Byte)
  BY <1>4, FlattenPrefixes DEF IsRow
<1>10. FlattenSeq(r) \in Seq(Byte)
  BY <1>9 DEF IsFlatten
<1> QED BY <1>3, <1>8, <1>10, Zenon DEF LostInFront

-----------------------------------------------------------------------------
(* What a byte taken by column x of board l is for node n.                 *)
LEMMA DestIs ==
    ASSUME NEW p \in Packet, NEW n \in Node
    PROVE  n \in Dest(p) <=> ForLayer(p, n[1]) /\ p.x = n[2] /\ p.y = n[3]
<1>1. n = <<n[1], n[2], n[3]>>
  BY NodeTyped
<1>2. PICK a, c, d : a = n[1] /\ c = n[2] /\ d = n[3]
  OBVIOUS
<1>3. n = <<a, c, d>>
  BY <1>1, <1>2
<1>4. n = <<p.layer % 16, p.x, p.y>> <=> a = p.layer % 16 /\ c = p.x /\ d = p.y
  BY <1>3
<1> QED BY <1>2, <1>4 DEF Dest, ForLayer

LEMMA OneLayer ==
    ASSUME NEW p \in Packet, NEW l, NEW m, ForLayer(p, l), ForLayer(p, m)
    PROVE  l = m
BY DEF ForLayer

PutsElsewhere(n, ln) ==
    /\ port'[n] = port[n]
    /\ \A z \in 0..(Bx - 2) : Ours(n, lane'[n[1]][z]) = Ours(n, ln[n[1]][z])

PutsThere(n, l, x, b, ln) ==
    /\ n[1] = l /\ n[2] >= x
    /\ n[2] = x => /\ port[n] = <<>> /\ port'[n] = <<b>>
                   /\ \A z \in 0..(Bx - 2) : lane'[l][z] = ln[l][z]
    /\ n[2] > x => /\ lane[l][x] = <<>> /\ lane'[l][x] = <<b>> /\ port'[n] = port[n]
                   /\ \A z \in 0..(Bx - 2) : z # x => lane'[l][z] = ln[l][z]

LEMMA BoardPuts ==
    ASSUME port \in [Node -> Reg], lane \in LaneShape, HoldShapes,
           NEW l \in Layer, NEW x \in Col, NEW b, OnBoard(b), ForLayer(b.pkt, l),
           \A k \in 0..(x - 1) : b.pkt.x # k, TurnOK(l, x, Cur(b)),
           NEW ln \in LaneShape, x < Bx - 1 => ln[l][x] = lane[l][x],
           BoardAccept(l, x, b, ln), NEW n \in Node
    PROVE  /\ n \notin Dest(b.pkt) => PutsElsewhere(n, ln)
           /\ n \in Dest(b.pkt) => PutsThere(n, l, x, b, ln)
<1>1. TurnMatch(l, x, b) <=> b.pkt.x = x
  BY TurnDecides
<1>2. /\ b \in Byte /\ b.pkt \in Packet /\ b.pkt.x \in 0..15 /\ b.pkt.y \in 0..15
      /\ Bx \in 1..16 /\ By \in 1..16
  BY BytesTyped, Addresses DEF OnBoard
<1>3. n \in Dest(b.pkt) => n = <<l, b.pkt.x, b.pkt.y>> /\ n[1] = l /\ n[2] = b.pkt.x /\ n[3] = b.pkt.y
  <2>1. ASSUME n \in Dest(b.pkt) PROVE ForLayer(b.pkt, n[1]) /\ b.pkt.x = n[2] /\ b.pkt.y = n[3]
    BY <1>2, <2>1, DestIs
  <2>2. ASSUME n \in Dest(b.pkt) PROVE n[1] = l
    BY <1>2, <2>1, <2>2, OneLayer
  <2>3. n = <<n[1], n[2], n[3]>>
    BY NodeTyped
  <2> QED BY <2>1, <2>2, <2>3
<1>4. n[1] \in Layer /\ n[2] \in 0..(Bx - 1) /\ n[3] \in Row
  BY NodeTyped
<1>5. CASE b.pkt.x = x
  <2>1. ColumnAccept(l, x, b) /\ lane' = ln
    BY <1>1, <1>5 DEF BoardAccept
  <2>2. EjectRow(l, x, b) = IF b.pkt.y < By THEN b.pkt.y ELSE By
    BY <1>5, RowChosen DEF HoldShapes
  <2>3. CASE b.pkt.y < By
    <3>1. PICK d : d = <<l, x, b.pkt.y>>
      OBVIOUS
    <3>2. EjectRow(l, x, b) = b.pkt.y
      BY <2>2, <2>3
    <3>3. port[d] = <<>> /\ port' = [port EXCEPT ![d] = <<b>>]
      BY <2>1, <2>3, <3>1, <3>2 DEF ColumnAccept, PortReady
    <3>4. d \in Dest(b.pkt)
      <4>1. b.pkt.y \in Row
        BY <1>2, <2>3 DEF Row
      <4> QED BY <1>2, <1>5, <3>1, <4>1, Addressed
    <3>5. CASE n = d
      <4>1. n \in Dest(b.pkt) /\ n[1] = l /\ n[2] = x
        BY <1>3, <1>5, <3>4, <3>5
      <4>2. port[n] = <<>> /\ port'[n] = <<b>>
        BY <3>3, <3>5
      <4>3. n[2] >= x /\ ~(n[2] > x)
        BY <1>4, <4>1
      <4> QED BY <2>1, <4>1, <4>2, <4>3 DEF PutsThere
    <3>6. CASE n # d
      <4>1. n \notin Dest(b.pkt)
        BY <1>3, <1>5, <3>1, <3>6
      <4>2. port'[n] = port[n]
        BY <3>3, <3>6
      <4> QED BY <2>1, <4>1, <4>2 DEF PutsElsewhere
    <3> QED BY <3>5, <3>6
  <2>4. CASE ~(b.pkt.y < By)
    <3>1. port' = port
      <4>1. EjectRow(l, x, b) = By /\ ~(By < By)
        BY <1>2, <2>2, <2>4
      <4> QED BY <2>1, <4>1 DEF ColumnAccept
    <3>2. n \notin Dest(b.pkt)
      BY <1>2, <1>3, <1>4, <2>4 DEF Row
    <3> QED BY <2>1, <3>1, <3>2 DEF PutsElsewhere
  <2> QED BY <2>3, <2>4
<1>6. CASE b.pkt.x # x /\ x < Bx - 1
  <2>1. lane[l][x] = <<>> /\ lane' = [ln EXCEPT ![l][x] = <<b>>] /\ port' = port
    BY <1>1, <1>2, <1>6 DEF BoardAccept
  <2>2. x \in 0..(Bx - 2)
    BY <1>2, <1>6 DEF Col
  <2>3. /\ lane'[l][x] = <<b>>
        /\ \A m \in Layer, z \in 0..(Bx - 2) : m # l \/ z # x => lane'[m][z] = ln[m][z]
    BY <2>1, <2>2 DEF LaneShape
  <2>4. ASSUME n \notin Dest(b.pkt) PROVE PutsElsewhere(n, ln)
    <3>1. ASSUME NEW z \in 0..(Bx - 2) PROVE Ours(n, lane'[n[1]][z]) = Ours(n, ln[n[1]][z])
      <4>1. CASE n[1] = l /\ z = x
        <5>1. Ours(n, <<b>>) = <<>> /\ Ours(n, <<>>) = <<>>
          BY <1>2, <2>4, OursOfRegister, Registers
        <5>2. ln[l][x] = <<>>
          BY <1>6, <2>1
        <5> QED BY <2>3, <4>1, <5>1, <5>2
      <4>2. CASE ~(n[1] = l /\ z = x)
        <5>1. lane'[n[1]][z] = ln[n[1]][z]
          BY <1>4, <2>3, <3>1, <4>2
        <5> QED BY <5>1
      <4> QED BY <4>1, <4>2
    <3> QED BY <2>1, <3>1 DEF PutsElsewhere
  <2>5. ASSUME n \in Dest(b.pkt) PROVE PutsThere(n, l, x, b, ln)
    <3>1. n[1] = l /\ n[2] = b.pkt.x
      BY <1>3, <2>5
    <3>2. n[2] > x
      <4>1. \A k \in 0..15 : (\A j \in 0..(x - 1) : k # j) /\ k # x => k > x
        BY <2>2
      <4> QED BY <1>2, <1>6, <3>1, <4>1, Zenon
    <3>3. n[2] >= x /\ n[2] # x
      BY <1>2, <1>4, <2>2, <3>2
    <3> QED BY <2>1, <2>3, <3>1, <3>2, <3>3 DEF PutsThere
  <2> QED BY <2>4, <2>5
<1>7. CASE b.pkt.x # x /\ ~(x < Bx - 1)
  <2>1. lane' = ln /\ port' = port
    BY <1>1, <1>7 DEF BoardAccept
  <2>2. n \notin Dest(b.pkt)
    <3>1. ASSUME n \in Dest(b.pkt) PROVE FALSE
      <4>1. n[2] = b.pkt.x
        BY <1>3, <3>1
      <4>2. x = Bx - 1
        BY <1>2, <1>7 DEF Col
      <4>3. \A k \in 0..(Bx - 1) : (\A j \in 0..(x - 1) : k # j) => k = x
        BY <1>2, <4>2
      <4> QED BY <1>4, <1>7, <4>1, <4>3, Zenon
    <3> QED BY <3>1
  <2> QED BY <2>1, <2>2 DEF PutsElsewhere
<1> QED BY <1>5, <1>6, <1>7

-----------------------------------------------------------------------------
(* What is in a slot, before and after a step.                             *)
UpOf(k, sp, s) == IF k = 0 THEN s ELSE sp[k]

LaneSlots(n, a, c) ==
    \A z \in 0..(c - 1), i \in Nat : i = c + 1 - z =>
        Slot(n, i) = Ours(n, lane[a][z]) /\ Slot(n, i)' = Ours(n, lane'[a][z])

SpineSlots(n, a, c) ==
    \A k \in 0..(a - 1), i \in Nat : i = a + c + 1 - k =>
        /\ Slot(n, i) = Seen(n, UpOf(k, spine, src))
        /\ Slot(n, i)' = Seen(n, UpOf(k, spine', src'))

LEMMA Slots ==
    ASSUME NEW n \in Node, NEW a \in Nat, NEW c \in Nat, a = n[1], c = n[2]
    PROVE  /\ SlotCount(n) = a + c + 1 /\ Slot(n, 1) = port[n] /\ Slot(n, 1)' = port'[n]
           /\ LaneSlots(n, a, c) /\ SpineSlots(n, a, c)
<1>1. \A i : /\ Slot(n, i) = SlotOf(n, i, port[n], lane[a], spine, src)
             /\ Slot(n, i)' = SlotOf(n, i, port'[n], lane'[a], spine', src')
  BY DEF Slot, SlotOf, Up, Ours, Seen, Unheaded, AsDelivered, Dest
<1>2. \A pt, ln, sp, s, i :
         SlotOf(n, i, pt, ln, sp, s) = IF i = 1 THEN pt
                                       ELSE IF i <= c + 1 THEN Ours(n, ln[c + 1 - i])
                                       ELSE Seen(n, UpOf(a + c + 1 - i, sp, s))
  BY DEF SlotOf, UpOf
<1>3. Slot(n, 1) = port[n] /\ Slot(n, 1)' = port'[n]
  BY <1>1, <1>2
<1>4. ASSUME NEW z \in 0..(c - 1), NEW i \in Nat, i = c + 1 - z
      PROVE  Slot(n, i) = Ours(n, lane[a][z]) /\ Slot(n, i)' = Ours(n, lane'[a][z])
  <2>1. i # 1 /\ i <= c + 1 /\ c + 1 - i = z
    BY <1>4
  <2>2. \A pt, ln, sp, s : SlotOf(n, i, pt, ln, sp, s) = Ours(n, ln[z])
    BY <1>2, <2>1
  <2> QED BY <1>1, <2>2, Zenon
<1>5. ASSUME NEW k \in 0..(a - 1), NEW i \in Nat, i = a + c + 1 - k
      PROVE  /\ Slot(n, i) = Seen(n, UpOf(k, spine, src))
             /\ Slot(n, i)' = Seen(n, UpOf(k, spine', src'))
  <2>1. i # 1 /\ ~(i <= c + 1) /\ a + c + 1 - i = k
    BY <1>5
  <2>2. \A pt, ln, sp, s : SlotOf(n, i, pt, ln, sp, s) = Seen(n, UpOf(k, sp, s))
    BY <1>2, <2>1
  <2>3. Slot(n, i) = Seen(n, UpOf(k, spine, src))
    BY <1>1, <2>2
  <2>4. Slot(n, i)' = Seen(n, UpOf(k, spine', src'))
    BY <1>1, <2>2
  <2> QED BY <2>3, <2>4
<1>6. SlotCount(n) = a + c + 1
  BY DEF SlotCount
<1> QED BY <1>3, <1>4, <1>5, <1>6, Zenon DEF LaneSlots, SpineSlots

(* Where port, lane, spine and host keep what is for n, so do the slots.   *)
PortKeeps(n)    == port'[n] = port[n]
LaneKeeps(n, z) == Ours(n, lane'[n[1]][z]) = Ours(n, lane[n[1]][z])
UpKeeps(n, k)   == Seen(n, UpOf(k, spine', src')) = Seen(n, UpOf(k, spine, src))

LEMMA SlotsKept ==
    ASSUME NEW n \in Node, NEW a \in Nat, NEW c \in Nat, a = n[1], c = n[2],
           NEW i \in 1..SlotCount(n)
    PROVE  \/ i = 1 /\ (PortKeeps(n) => SlotKept(n, i))
           \/ \E z \in 0..(c - 1) : i = c + 1 - z /\ (LaneKeeps(n, z) => SlotKept(n, i))
           \/ \E k \in 0..(a - 1) : i = a + c + 1 - k /\ (UpKeeps(n, k) => SlotKept(n, i))
<1>1. /\ SlotCount(n) = a + c + 1 /\ Slot(n, 1) = port[n] /\ Slot(n, 1)' = port'[n]
      /\ LaneSlots(n, a, c) /\ SpineSlots(n, a, c) /\ i \in Nat
  BY Slots
<1>2. CASE i = 1
  BY <1>1, <1>2 DEF PortKeeps, SlotKept
<1>3. CASE i \in 2..(c + 1)
  <2>1. PICK z \in 0..(c - 1) : i = c + 1 - z
    <3>1. c + 1 - i \in 0..(c - 1) /\ i = c + 1 - (c + 1 - i)
      BY <1>3
    <3> QED BY <3>1
  <2>2. LaneKeeps(n, z) => SlotKept(n, i)
    BY <1>1, <2>1, Zenon DEF LaneSlots, LaneKeeps, SlotKept
  <2> QED BY <2>1, <2>2
<1>4. CASE i \in (c + 2)..(a + c + 1)
  <2>1. PICK k \in 0..(a - 1) : i = a + c + 1 - k
    <3>1. a + c + 1 - i \in 0..(a - 1) /\ i = a + c + 1 - (a + c + 1 - i)
      BY <1>4
    <3> QED BY <3>1
  <2>2. UpKeeps(n, k) => SlotKept(n, i)
    BY <1>1, <2>1, Zenon DEF SpineSlots, UpKeeps, SlotKept
  <2> QED BY <2>1, <2>2
<1> QED BY <1>1, <1>2, <1>3, <1>4

(* Nothing that is for n moves.                                            *)
LEMMA AllKept ==
    ASSUME Shapes, Shapes', NEW n \in Node, PortKeeps(n),
           \A z \in 0..(n[2] - 1) : LaneKeeps(n, z), \A k \in 0..(n[1] - 1) : UpKeeps(n, k)
    PROVE  FlattenSeq(Path(n))' = FlattenSeq(Path(n))
<1>1. PICK a \in Nat : a = n[1]
  BY NodeTyped
<1>2. PICK c \in Nat : c = n[2]
  BY NodeTyped
<1>3. ASSUME NEW i \in 1..SlotCount(n) PROVE SlotKept(n, i)
  BY <1>1, <1>2, SlotsKept
<1> QED BY <1>3, PathRests

(* The byte after column w of board l on its way to the next column.       *)
AtColumn(l, w, b, ln) ==
    /\ w \in 0..(Bx - 2) /\ w + 1 \in Col
    /\ lane[l][w] = <<b>> /\ OnBoard(b) /\ ForLayer(b.pkt, l)
    /\ \A k \in 0..w : b.pkt.x # k
    /\ TurnOK(l, w + 1, Cur(b)) /\ BoardAccept(l, w + 1, b, ln)
    /\ ln \in LaneShape /\ ln[l][w] = <<>>
    /\ \A m \in Layer, z \in 0..(Bx - 2) : m # l \/ z # w => ln[m][z] = lane[m][z]

LEMMA LaneHopFrom ==
    ASSUME FabricInv, NEW l \in Layer, NEW w \in Col, LaneHop(l, w)
    PROVE  \E b, ln : AtColumn(l, w, b, ln)
<1>1. PICK at \in Spines : \E bt \in Boards : Flow(at, bt)
  BY DEF FabricInv
<1>2. PICK bt \in Boards : Flow(at, bt)
  BY <1>1
<1>3. PICK b : b = lane[l][w][1]
  OBVIOUS
<1>4. PICK ln : ln = [lane EXCEPT ![l][w] = <<>>]
  OBVIOUS
<1>5. PICK g \in [Col -> Cursor] : g = bt[l]
  BY DEF Boards
<1>6. w < Bx - 1 /\ lane[l][w] # <<>>
  BY DEF LaneHop
<1>7. lane \in LaneShape
  BY DEF FabricInv, Shapes, LaneShape
<1>8. w \in 0..(Bx - 2) /\ w + 1 \in Col /\ Bx \in 1..16
  BY <1>6, Addresses DEF Col
<1>9. lane[l][w] = <<b>> /\ Head(lane[l][w]) = b
  <2>1. lane[l][w] \in Reg
    BY <1>7, <1>8 DEF LaneShape
  <2> QED BY <1>3, <1>6, <2>1, Registers
<1>10. BoardFlow(l, at[l], g)
  BY <1>2, <1>5 DEF Flow
<1>11. LaneSlot(l, w, <<b>>, g[w], g[w + 1])
  BY <1>8, <1>9, <1>10 DEF BoardFlow, LaneLink
<1>12. /\ g[w + 1] = Cur(b) /\ OnBoard(b) /\ ForLayer(b.pkt, l) /\ \A k \in 0..w : b.pkt.x # k
  <2>1. <<b>> # <<>> /\ <<b>>[1] = b
    OBVIOUS
  <2> QED BY <1>11, <2>1 DEF LaneSlot, Link, LaneByte
<1>13. BoardAccept(l, w + 1, b, ln)
  BY <1>4, <1>9 DEF LaneHop
<1>14. TurnOK(l, w + 1, Cur(b))
  BY <1>8, <1>10, <1>12 DEF BoardFlow
<1>15. /\ ln \in LaneShape /\ ln[l][w] = <<>>
       /\ \A m \in Layer, z \in 0..(Bx - 2) : m # l \/ z # w => ln[m][z] = lane[m][z]
  BY <1>4, <1>7, <1>8, Registers DEF LaneShape
<1> QED BY <1>8, <1>9, <1>12, <1>13, <1>14, <1>15 DEF AtColumn

LEMMA LaneHopCarries ==
    ASSUME FabricInv, Shapes', NEW l \in Layer, NEW w \in Col, LaneHop(l, w), NEW n \in Node
    PROVE  FlattenSeq(Path(n))' = FlattenSeq(Path(n))
<1>1. PICK b, ln : AtColumn(l, w, b, ln)
  BY LaneHopFrom
<1> DEFINE x == w + 1
<1>2. /\ w \in 0..(Bx - 2) /\ x \in Col /\ x - 1 = w /\ x # w /\ w + 1 = x
      /\ lane[l][w] = <<b>> /\ OnBoard(b) /\ ForLayer(b.pkt, l)
      /\ \A k \in 0..(x - 1) : b.pkt.x # k
      /\ TurnOK(l, x, Cur(b)) /\ BoardAccept(l, x, b, ln)
      /\ ln \in LaneShape /\ ln[l][w] = <<>>
      /\ \A m \in Layer, z \in 0..(Bx - 2) : m # l \/ z # w => ln[m][z] = lane[m][z]
  BY <1>1 DEF AtColumn
<1> HIDE DEF x
<1>3. Shapes /\ port \in [Node -> Reg] /\ lane \in LaneShape /\ HoldShapes
  BY DEF FabricInv, Shapes, LaneShape, HoldShapes
<1>4. spine' = spine /\ src' = src
  BY DEF LaneHop
<1>5. Bx \in 1..16 /\ b \in Byte /\ b.pkt \in Packet
  BY Addresses, <1>2, BytesTyped DEF OnBoard
<1>6. x < Bx - 1 => ln[l][x] = lane[l][x]
  <2>1. ASSUME x < Bx - 1 PROVE x \in 0..(Bx - 2)
    BY <1>2, <1>5, <2>1 DEF Col
  <2> QED BY <1>2, <2>1
<1>7. /\ n \notin Dest(b.pkt) => PutsElsewhere(n, ln)
      /\ n \in Dest(b.pkt) => PutsThere(n, l, x, b, ln)
  BY <1>2, <1>3, <1>6, BoardPuts
<1>8. PICK a \in 1..NL : a = n[1]
  BY NodeTyped
<1>9. PICK c \in 0..(Bx - 1) : c = n[2]
  BY NodeTyped
<1>10. a \in Nat /\ c \in Nat /\ NL \in Nat /\ a >= 1 /\ a \in Layer
  BY <1>8, <1>9, <1>5, NodeTyped
<1>11. \A k \in 0..(a - 1) : UpKeeps(n, k)
  BY <1>4 DEF UpKeeps
<1>12. CASE n \notin Dest(b.pkt)
  <2>1. /\ port'[n] = port[n]
        /\ \A z \in 0..(Bx - 2) : Ours(n, lane'[n[1]][z]) = Ours(n, ln[n[1]][z])
    BY <1>7, <1>12 DEF PutsElsewhere
  <2>2. Ours(n, <<>>) = Ours(n, <<b>>)
    BY <1>5, <1>12, OursOfRegister, Registers
  <2>3. ASSUME NEW z \in 0..(c - 1) PROVE LaneKeeps(n, z)
    <3>1. z \in 0..(Bx - 2)
      BY <1>5, <1>9, <2>3
    <3>2. CASE a = l /\ z = w
      <4>1. Ours(n, ln[a][z]) = Ours(n, <<>>) /\ Ours(n, lane[a][z]) = Ours(n, <<b>>)
        BY <1>2, <3>2
      <4> QED BY <1>8, <2>1, <2>2, <3>1, <4>1, Zenon DEF LaneKeeps
    <3>3. CASE ~(a = l /\ z = w)
      <4>1. ln[a][z] = lane[a][z]
        BY <1>2, <1>10, <3>1, <3>3
      <4> QED BY <1>8, <2>1, <3>1, <4>1 DEF LaneKeeps
    <3> QED BY <3>2, <3>3
  <2>4. \A z \in 0..(n[2] - 1) : LaneKeeps(n, z)
    BY <1>9, <2>3
  <2>5. \A k \in 0..(n[1] - 1) : UpKeeps(n, k)
    BY <1>8, <1>11
  <2> QED BY <1>3, <2>1, <2>4, <2>5, AllKept DEF PortKeeps
<1>13. CASE n \in Dest(b.pkt)
  <2>1. PutsThere(n, l, x, b, ln)
    BY <1>7, <1>13
  <2>2. a = l /\ c >= x
    BY <1>8, <1>9, <2>1 DEF PutsThere
  <2>3. /\ SlotCount(n) = a + c + 1 /\ Slot(n, 1) = port[n] /\ Slot(n, 1)' = port'[n]
        /\ LaneSlots(n, a, c) /\ SpineSlots(n, a, c)
    BY <1>8, <1>9, <1>10, Slots
  <2>4. x \in 0..15 /\ x >= 1 /\ x = w + 1 /\ w \in 0..15
    BY <1>2, <1>5 DEF Col
  <2>5. PICK j \in 1..(a + c) : j = c + 1 - x
    <3>1. c + 1 - x \in 1..(a + c)
      BY <1>10, <2>2, <2>4
    <3> QED BY <3>1
  <2>6. j + 1 = c + 1 - w /\ w \in 0..(c - 1) /\ j \in Nat /\ j + 1 \in Nat
    BY <1>10, <2>2, <2>4, <2>5
  <2>7. Ours(n, <<b>>) = <<b>> /\ Ours(n, <<>>) = <<>>
    BY <1>5, <1>13, OursOfRegister, Registers
  <2>8. /\ c = x => port[n] = <<>> /\ port'[n] = <<b>>
        /\ c # x => lane[l][x] = <<>> /\ lane'[l][x] = <<b>> /\ port'[n] = port[n]
        /\ \A z \in 0..(Bx - 2) : z # x => lane'[l][z] = ln[l][z]
    <3>1. c = x \/ c > x
      BY <2>2, <2>4, <1>10
    <3>2. c > x => c # x
      BY <2>4, <1>10
    <3> QED BY <1>9, <2>1, <3>1, <3>2 DEF PutsThere
  <2>9. Slot(n, j + 1) = <<b>> /\ Slot(n, j + 1)' = <<>>
    <3>1. lane[a][w] = <<b>> /\ lane'[a][w] = <<>>
      BY <1>2, <2>2, <2>8
    <3>2. PICK i \in Nat : i = j + 1
      BY <2>6
    <3>3. Slot(n, i) = <<b>> /\ Slot(n, i)' = <<>>
      BY <2>3, <2>6, <2>7, <3>1, <3>2 DEF LaneSlots
    <3> QED BY <3>2, <3>3
  <2>10. Slot(n, j) = <<>> /\ Slot(n, j)' = <<b>>
    <3>1. CASE c = x
      <4>1. j = 1
        BY <1>10, <2>5, <3>1
      <4> QED BY <2>3, <2>8, <3>1, <4>1
    <3>2. CASE c # x
      <4>1. lane[a][x] = <<>> /\ lane'[a][x] = <<b>>
        BY <2>2, <2>8, <3>2
      <4>2. x \in 0..(c - 1)
        BY <1>10, <2>2, <2>4, <3>2
      <4> QED BY <2>3, <2>5, <2>6, <2>7, <4>1, <4>2 DEF LaneSlots
    <3> QED BY <3>1, <3>2
  <2>11. HopsTo(n, j)
    <3>1. <<b>> \o <<>> = <<b>>
      OBVIOUS
    <3> QED BY <2>9, <2>10, <3>1, Zenon DEF HopsTo
  <2>12. ASSUME NEW i \in 1..SlotCount(n), i # j, i # j + 1 PROVE SlotKept(n, i)
    <3>1. CASE i = 1 /\ (PortKeeps(n) => SlotKept(n, i))
      <4>1. c # x
        BY <1>10, <2>4, <2>5, <2>12, <3>1
      <4> QED BY <2>8, <3>1, <4>1 DEF PortKeeps
    <3>2. ASSUME NEW z \in 0..(c - 1), i = c + 1 - z, LaneKeeps(n, z) => SlotKept(n, i)
          PROVE  SlotKept(n, i)
      <4>1. z # x /\ z # w /\ z \in 0..(Bx - 2)
        <5>1. c + 1 - x # c + 1 - z
          BY <2>5, <2>12, <3>2
        <5>2. c + 1 - w # c + 1 - z
          BY <2>6, <2>12, <3>2
        <5> QED BY <1>5, <1>9, <3>2, <5>1, <5>2
      <4>2. lane'[a][z] = lane[a][z]
        BY <1>2, <1>10, <2>2, <2>8, <4>1
      <4> QED BY <1>8, <3>2, <4>2 DEF LaneKeeps
    <3>3. ASSUME NEW k \in 0..(a - 1), UpKeeps(n, k) => SlotKept(n, i)
          PROVE  SlotKept(n, i)
      BY <1>11, <3>3
    <3> QED BY <1>8, <1>9, <1>10, <2>12, <3>1, <3>2, <3>3, SlotsKept
  <2>13. j \in 1..(SlotCount(n) - 1)
    BY <1>10, <2>3, <2>5
  <2> QED BY <1>3, <2>11, <2>12, <2>13, PathHops
<1> QED BY <1>12, <1>13

(* Repeater l takes byte b, which was the oldest of those above it.        *)
UpTaken(n, l, b) ==
    Seen(n, UpOf(l - 1, spine, src)) = Seen(n, <<b>>) \o Seen(n, UpOf(l - 1, spine', src'))

RepeaterTook(l, b, sp) ==
    /\ SpineByte(b) /\ RptOK(l, Cur(b)) /\ TurnOK(l, 0, Into(l, Cur(b)))
    /\ \A k \in 1..(l - 1) : ~ForLayer(b.pkt, k)
    /\ sp \in [Layer -> Reg] /\ \A m \in Layer : m # l - 1 => sp[m] = spine[m]
    /\ l # 1 => src' = src
    /\ RepeaterAccept(l, b, sp)
    /\ \A n \in Node : UpTaken(n, l, b)

LEMMA UpsKept ==
    ASSUME FabricInv, Shapes', NEW l \in Layer, NEW b, NEW sp, RepeaterTook(l, b, sp), NEW n \in Node
    PROVE  /\ RepeaterMatch(l, b) <=> ForLayer(b.pkt, l)
           /\ \A k \in 0..NL : k # l - 1 /\ k # l => UpKeeps(n, k)
           /\ ForLayer(b.pkt, l) => UpKeeps(n, l)
           /\ Seen(n, <<b>>) = <<>> => UpKeeps(n, l - 1)
<1>1. RepeaterMatch(l, b) <=> ForLayer(b.pkt, l)
  BY RepeaterDecides DEF RepeaterTook, FabricInv, Shapes, RptShapes
<1>2. l \in 1..NL /\ NL \in 1..15
  BY Addresses DEF Layer
<1>3. spine' = sp \/ (~ForLayer(b.pkt, l) /\ spine' = [sp EXCEPT ![l] = <<b>>])
  BY <1>1 DEF RepeaterTook, RepeaterAccept
<1>4. ASSUME NEW k \in 0..NL, k # l - 1, k # l PROVE UpKeeps(n, k)
  <2>1. CASE k = 0
    <3>1. l # 1
      BY <1>2, <1>4, <2>1
    <3> QED BY <2>1, <3>1 DEF UpKeeps, UpOf, RepeaterTook
  <2>2. CASE k # 0
    <3>1. k \in Layer
      BY <1>2, <2>2 DEF Layer
    <3>2. spine'[k] = sp[k] /\ sp[k] = spine[k]
      BY <1>3, <1>4, <3>1 DEF RepeaterTook
    <3> QED BY <2>2, <3>2 DEF UpKeeps, UpOf
  <2> QED BY <2>1, <2>2
<1>5. ASSUME ForLayer(b.pkt, l) PROVE UpKeeps(n, l)
  <2>1. spine'[l] = spine[l] /\ l # 0
    BY <1>2, <1>3, <1>5 DEF RepeaterTook
  <2> QED BY <2>1 DEF UpKeeps, UpOf
<1>6. ASSUME Seen(n, <<b>>) = <<>> PROVE UpKeeps(n, l - 1)
  <2>1. PICK k \in 0..(NL - 1) : k = l - 1
    BY <1>2
  <2>2. UpOf(k, spine', src') \in Seq(Byte)
    <3>1. k # 0 => k \in Layer
      BY <1>2, <2>1 DEF Layer
    <3>2. spine' \in [Layer -> Reg] /\ src' \in Seq(Byte)
      BY PathShapes DEF OnePacket
    <3> QED BY <3>1, <3>2, RegisterSeq DEF UpOf
  <2>3. PICK t \in Seq(Byte) : t = Seen(n, UpOf(k, spine', src'))
    BY <2>2, SeenTyped
  <2>4. Seen(n, UpOf(k, spine, src)) = <<>> \o t
    BY <1>6, <2>1, <2>3 DEF RepeaterTook, UpTaken
  <2>5. <<>> \o t = t
    OBVIOUS
  <2> QED BY <2>1, <2>3, <2>4, <2>5 DEF UpKeeps
<1> QED BY <1>1, <1>4, <1>5, <1>6

(* The head of a packet for board l is swallowed: no node is to see it.    *)
LEMMA Swallows ==
    ASSUME FabricInv, Shapes', NEW l \in Layer, NEW b, NEW sp, RepeaterTook(l, b, sp), NEW n \in Node,
           ForLayer(b.pkt, l), b.sop
    PROVE  FlattenSeq(Path(n))' = FlattenSeq(Path(n))
<1>1. /\ RepeaterMatch(l, b)
      /\ \A k \in 0..NL : k # l - 1 /\ k # l => UpKeeps(n, k)
      /\ UpKeeps(n, l) /\ (Seen(n, <<b>>) = <<>> => UpKeeps(n, l - 1))
  BY UpsKept
<1>2. Seen(n, <<b>>) = <<>>
  <2>1. b \in Byte /\ ~(n \in Dest(b.pkt) /\ b.pos # 1)
    BY DEF RepeaterTook, SpineByte
  <2> QED BY <2>1, SeenOfByte, Zenon
<1>3. port' = port /\ lane' = lane
  BY <1>1 DEF RepeaterTook, RepeaterAccept, board
<1>4. \A k \in 0..(n[1] - 1) : UpKeeps(n, k)
  <2>1. PICK a \in 1..NL : a = n[1]
    BY NodeTyped
  <2>2. \A k \in 0..(a - 1) : k \in 0..NL
    BY Addresses
  <2> QED BY <1>1, <1>2, <2>1, <2>2
<1>5. PortKeeps(n) /\ \A z \in 0..(n[2] - 1) : LaneKeeps(n, z)
  BY <1>3 DEF PortKeeps, LaneKeeps
<1>6. Shapes
  BY DEF FabricInv
<1> QED BY <1>4, <1>5, <1>6, AllKept

(* A byte for another board goes down the spine.                           *)
LEMMA PassesDown ==
    ASSUME FabricInv, Shapes', NEW l \in Layer, NEW b, NEW sp, RepeaterTook(l, b, sp), NEW n \in Node,
           ~ForLayer(b.pkt, l)
    PROVE  FlattenSeq(Path(n))' = FlattenSeq(Path(n))
<1>1. /\ ~RepeaterMatch(l, b)
      /\ \A k \in 0..NL : k # l - 1 /\ k # l => UpKeeps(n, k)
      /\ (Seen(n, <<b>>) = <<>> => UpKeeps(n, l - 1))
  BY UpsKept
<1>2. port' = port /\ lane' = lane /\ spine[l] = <<>> /\ spine' = [sp EXCEPT ![l] = <<b>>]
  BY <1>1 DEF RepeaterTook, RepeaterAccept, board
<1>3. PortKeeps(n) /\ \A z : LaneKeeps(n, z)
  BY <1>2 DEF PortKeeps, LaneKeeps
<1>4. Shapes /\ b \in Byte /\ b.pkt \in Packet /\ NL \in 1..15 /\ l \in 1..NL
  BY BytesTyped, Addresses DEF FabricInv, RepeaterTook, SpineByte, Layer
<1>5. PICK a \in 1..NL : a = n[1]
  BY NodeTyped
<1>6. PICK c \in Nat : c = n[2]
  BY NodeTyped
<1>7. CASE a <= l
  <2>1. n \notin Dest(b.pkt)
    <3>1. ~ForLayer(b.pkt, a)
      <4>1. a = l \/ a \in 1..(l - 1)
        BY <1>4, <1>7
      <4> QED BY <4>1 DEF RepeaterTook
    <3> QED BY <1>4, <1>5, <3>1, DestIs
  <2>2. Seen(n, <<b>>) = <<>>
    <3>1. ~(n \in Dest(b.pkt) /\ b.pos # 1)
      BY <2>1
    <3> QED BY <1>4, <3>1, SeenOfByte, Zenon
  <2>3. \A k \in 0..(a - 1) : UpKeeps(n, k)
    <3>1. \A k \in 0..(a - 1) : k \in 0..NL /\ k # l
      BY <1>4, <1>7
    <3> QED BY <1>1, <2>2, <3>1
  <2> QED BY <1>3, <1>4, <1>5, <2>3, AllKept
<1>8. CASE a > l
  <2>1. /\ SlotCount(n) = a + c + 1 /\ SpineSlots(n, a, c)
    BY <1>4, <1>5, <1>6, Slots
  <2>2. PICK j \in 1..(a + c) : j = a + c + 1 - l
    <3>1. a + c + 1 - l \in 1..(a + c)
      BY <1>4, <1>8
    <3> QED BY <3>1
  <2>3. PICK h \in 0..(a - 1) : h = l - 1
    BY <1>4, <1>8
  <2>4. j + 1 = a + c + 1 - h /\ l \in 0..(a - 1) /\ j + 1 \in Nat /\ l # 0
    BY <1>4, <1>8, <2>2, <2>3
  <2>5. UpOf(l, spine, src) = <<>> /\ UpOf(l, spine', src') = <<b>>
    BY <1>2, <2>4 DEF UpOf, RepeaterTook
  <2>6. Slot(n, j) = <<>> /\ Slot(n, j)' = Seen(n, <<b>>)
    BY <2>1, <2>2, <2>4, <2>5, SeenOfNone DEF SpineSlots
  <2>7. /\ Slot(n, j + 1) = Seen(n, UpOf(h, spine, src))
        /\ Slot(n, j + 1)' = Seen(n, UpOf(h, spine', src'))
    <3>1. PICK i \in Nat : i = j + 1
      BY <2>4
    <3> QED BY <2>1, <2>3, <2>4, <3>1 DEF SpineSlots
  <2>8. HopsTo(n, j)
    BY <2>3, <2>6, <2>7 DEF HopsTo, RepeaterTook, UpTaken
  <2>9. ASSUME NEW i \in 1..SlotCount(n), i # j, i # j + 1 PROVE SlotKept(n, i)
    <3>1. ASSUME NEW k \in 0..(a - 1), i = a + c + 1 - k, UpKeeps(n, k) => SlotKept(n, i)
          PROVE  SlotKept(n, i)
      <4>1. k # l /\ k # l - 1 /\ k \in 0..NL
        <5>1. a + c + 1 - k # a + c + 1 - l
          BY <2>2, <2>9, <3>1
        <5>2. a + c + 1 - k # a + c + 1 - h
          BY <2>4, <2>9, <3>1
        <5> QED BY <1>4, <2>3, <5>1, <5>2
      <4> QED BY <1>1, <3>1, <4>1
    <3>2. a \in Nat
      BY <1>4
    <3> QED BY <1>3, <1>5, <1>6, <2>9, <3>1, <3>2, SlotsKept
  <2>10. j \in 1..(SlotCount(n) - 1)
    BY <1>4, <2>1, <2>2
  <2> QED BY <1>4, <2>8, <2>9, <2>10, PathHops
<1> QED BY <1>4, <1>5, <1>7, <1>8

(* What the repeater hands its board is the byte as the node must see it.  *)
LEMMA HandsDelivered ==
    ASSUME NEW l \in Layer, NEW b, SpineByte(b), ~b.sop, ForLayer(b.pkt, l), RptOK(l, Cur(b)), RptShapes
    PROVE  BoardByte(l, b) = AsDelivered(b)
<1>1. b.pkt \in Packet /\ b.pos \in Nat
  BY BytesTyped DEF SpineByte
<1>2. Cur(b) = <<b.pkt, b.pos>>
  BY DEF Cur
<1>3. rptHold[l] /\ (rptStrip[l] <=> b.pos = 2)
  BY <1>2, NotIdle DEF RptOK
<1>4. PICK s \in BOOLEAN : s = rptStrip[l]
  BY DEF RptShapes
<1>5. PICK t \in BOOLEAN : t = (b.pos = 2)
  OBVIOUS
<1>6. s = t
  BY <1>3, <1>4, <1>5
<1>7. BoardByte(l, b) = [b EXCEPT !.sop = s, !.vc = VcOnboard]
  BY <1>4 DEF BoardByte
<1>8. AsDelivered(b) = [b EXCEPT !.sop = t, !.vc = VcOnboard]
  BY <1>5 DEF AsDelivered
<1> QED BY <1>6, <1>7, <1>8

LEMMA HandsOn ==
    ASSUME FabricInv, Shapes', NEW l \in Layer, NEW b, NEW sp, RepeaterTook(l, b, sp), NEW n \in Node,
           ForLayer(b.pkt, l), ~b.sop
    PROVE  FlattenSeq(Path(n))' = FlattenSeq(Path(n))
<1>1. /\ RepeaterMatch(l, b) /\ UpKeeps(n, l)
      /\ \A k \in 0..NL : k # l - 1 /\ k # l => UpKeeps(n, k)
      /\ Seen(n, <<b>>) = <<>> => UpKeeps(n, l - 1)
  BY UpsKept
<1>2. /\ Shapes /\ RptShapes /\ port \in [Node -> Reg] /\ lane \in LaneShape /\ HoldShapes
      /\ SpineByte(b) /\ RptOK(l, Cur(b)) /\ b \in Byte /\ b.pkt \in Packet
      /\ NL \in 1..15 /\ Bx \in 1..16 /\ l \in 1..NL /\ l \in Nat
  <2>1. Shapes /\ RptShapes /\ port \in [Node -> Reg] /\ lane \in LaneShape /\ HoldShapes
    BY DEF FabricInv, Shapes, RptShapes, LaneShape, HoldShapes
  <2>2. SpineByte(b) /\ RptOK(l, Cur(b)) /\ b \in Byte /\ b.pkt \in Packet
    BY BytesTyped DEF RepeaterTook, SpineByte
  <2>3. NL \in 1..15 /\ Bx \in 1..16 /\ l \in 1..NL /\ l \in Nat
    BY Addresses DEF Layer
  <2> QED BY <2>1, <2>2, <2>3
<1>3. PICK e : e = BoardByte(l, b)
  OBVIOUS
<1>4. OnBoard(e) /\ e.pkt = b.pkt /\ Cur(e) = Into(l, Cur(b)) /\ e = AsDelivered(b) /\ e \in Byte
  BY <1>2, <1>3, HandsOver, HandsDelivered, Delivered
<1>5. 0 \in Col /\ (\A k \in 0..(0 - 1) : e.pkt.x # k) /\ ForLayer(e.pkt, l)
      /\ TurnOK(l, 0, Cur(e)) /\ BoardAccept(l, 0, e, lane)
  BY <1>1, <1>2, <1>3, <1>4 DEF Col, RepeaterTook, RepeaterAccept
<1>6. /\ n \notin Dest(b.pkt) => PutsElsewhere(n, lane)
      /\ n \in Dest(b.pkt) => PutsThere(n, l, 0, e, lane)
  <2>1. PICK x \in Col : x = 0
    BY <1>5
  <2>2. /\ n \notin Dest(e.pkt) => PutsElsewhere(n, lane)
        /\ n \in Dest(e.pkt) => PutsThere(n, l, x, e, lane)
    BY <1>2, <1>4, <1>5, <2>1, BoardPuts
  <2> QED BY <1>4, <2>1, <2>2
<1>7. PICK a \in 1..NL : a = n[1]
  BY NodeTyped
<1>8. PICK c \in 0..(Bx - 1) : c = n[2]
  BY NodeTyped
<1>9. a \in Nat /\ c \in Nat /\ a >= 1 /\ \A k \in 0..(a - 1) : k \in 0..NL
  BY <1>2
<1>10. CASE n \notin Dest(b.pkt)
  <2>1. PortKeeps(n) /\ \A z \in 0..(Bx - 2) : LaneKeeps(n, z)
    BY <1>6, <1>10 DEF PutsElsewhere, PortKeeps, LaneKeeps
  <2>2. \A z \in 0..(n[2] - 1) : LaneKeeps(n, z)
    <3>1. \A z \in 0..(c - 1) : z \in 0..(Bx - 2)
      BY <1>2
    <3> QED BY <1>8, <2>1, <3>1
  <2>3. Seen(n, <<b>>) = <<>>
    <3>1. ~(n \in Dest(b.pkt) /\ b.pos # 1)
      BY <1>10
    <3> QED BY <1>2, <3>1, SeenOfByte, Zenon
  <2>4. \A k \in 0..(n[1] - 1) : UpKeeps(n, k)
    BY <1>1, <1>7, <1>9, <2>3
  <2> QED BY <1>2, <2>1, <2>2, <2>4, AllKept
<1>11. CASE n \in Dest(b.pkt)
  <2>1. PutsThere(n, l, 0, e, lane)
    BY <1>6, <1>11
  <2>2. a = l
    BY <1>7, <2>1 DEF PutsThere
  <2>3. /\ SlotCount(n) = a + c + 1 /\ Slot(n, 1) = port[n] /\ Slot(n, 1)' = port'[n]
        /\ LaneSlots(n, a, c) /\ SpineSlots(n, a, c)
    BY <1>7, <1>8, <1>9, Slots
  <2>4. /\ c = 0 => port[n] = <<>> /\ port'[n] = <<e>> /\ \A z \in 0..(Bx - 2) : lane'[l][z] = lane[l][z]
        /\ c # 0 => /\ lane[l][0] = <<>> /\ lane'[l][0] = <<e>> /\ port'[n] = port[n]
                    /\ \A z \in 0..(Bx - 2) : z # 0 => lane'[l][z] = lane[l][z]
    <3>1. c = 0 \/ c > 0
      BY <1>9
    <3>2. c > 0 => c # 0
      BY <1>9
    <3> QED BY <1>8, <2>1, <3>1, <3>2 DEF PutsThere
  <2>5. PICK j \in 1..(a + c) : j = c + 1
    <3>1. c + 1 \in 1..(a + c)
      BY <1>9
    <3> QED BY <3>1
  <2>6. PICK h \in 0..(a - 1) : h = l - 1
    BY <1>2, <2>2
  <2>7. j + 1 = a + c + 1 - h /\ j + 1 \in Nat /\ j = c + 1 - 0 /\ j \in Nat
    BY <1>9, <2>2, <2>5, <2>6
  <2>8. Ours(n, <<e>>) = <<e>> /\ Ours(n, <<>>) = <<>> /\ Seen(n, <<b>>) = <<e>>
    <3>1. n \in Dest(e.pkt) /\ <<>> \in Reg
      BY <1>4, <1>11, Registers
    <3>2. n \in Dest(b.pkt) /\ b.pos # 1
      BY <1>2, <1>11 DEF SpineByte
    <3>3. Ours(n, <<e>>) = <<e>> /\ Ours(n, <<>>) = <<>>
      BY <1>4, <3>1, OursOfRegister
    <3>4. Seen(n, <<b>>) = <<e>>
      BY <1>2, <1>4, <3>2, SeenOfByte
    <3> QED BY <3>3, <3>4
  <2>9. Slot(n, j) = <<>> /\ Slot(n, j)' = <<e>>
    <3>1. CASE c = 0
      <4>1. j = 1
        BY <2>5, <3>1
      <4> QED BY <2>3, <2>4, <3>1, <4>1
    <3>2. CASE c # 0
      <4>1. lane[a][0] = <<>> /\ lane'[a][0] = <<e>> /\ 0 \in 0..(c - 1)
        BY <1>9, <2>2, <2>4, <3>2
      <4> QED BY <2>3, <2>7, <2>8, <4>1 DEF LaneSlots
    <3> QED BY <3>1, <3>2
  <2>10. /\ Slot(n, j + 1) = Seen(n, UpOf(h, spine, src))
         /\ Slot(n, j + 1)' = Seen(n, UpOf(h, spine', src'))
    <3>1. PICK i \in Nat : i = j + 1
      BY <2>7
    <3> QED BY <2>3, <2>7, <3>1 DEF SpineSlots
  <2>11. HopsTo(n, j)
    BY <2>6, <2>8, <2>9, <2>10 DEF HopsTo, RepeaterTook, UpTaken
  <2>12. ASSUME NEW i \in 1..SlotCount(n), i # j, i # j + 1 PROVE SlotKept(n, i)
    <3>1. CASE i = 1 /\ (PortKeeps(n) => SlotKept(n, i))
      <4>1. c # 0
        BY <2>5, <2>12, <3>1
      <4> QED BY <2>4, <3>1, <4>1 DEF PortKeeps
    <3>2. ASSUME NEW z \in 0..(c - 1), i = c + 1 - z, LaneKeeps(n, z) => SlotKept(n, i)
          PROVE  SlotKept(n, i)
      <4>1. z # 0 /\ z \in 0..(Bx - 2) /\ c # 0
        BY <1>2, <1>9, <2>5, <2>12, <3>2
      <4>2. lane'[a][z] = lane[a][z]
        BY <2>2, <2>4, <4>1
      <4> QED BY <1>7, <3>2, <4>2 DEF LaneKeeps
    <3>3. ASSUME NEW k \in 0..(a - 1), i = a + c + 1 - k, UpKeeps(n, k) => SlotKept(n, i)
          PROVE  SlotKept(n, i)
      <4>1. k # l /\ k # l - 1 /\ k \in 0..NL
        <5>1. a + c + 1 - k # a + c + 1 - h
          BY <2>7, <2>12, <3>3
        <5> QED BY <1>9, <2>2, <2>6, <5>1
      <4> QED BY <1>1, <3>3, <4>1
    <3> QED BY <1>7, <1>8, <1>9, <2>12, <3>1, <3>2, <3>3, SlotsKept
  <2>13. j \in 1..(SlotCount(n) - 1)
    BY <1>9, <2>3, <2>5
  <2> QED BY <1>2, <2>11, <2>12, <2>13, PathHops
<1> QED BY <1>10, <1>11

LEMMA RepeaterCarries ==
    ASSUME FabricInv, Shapes', NEW l \in Layer, NEW b, NEW sp, RepeaterTook(l, b, sp), NEW n \in Node
    PROVE  FlattenSeq(Path(n))' = FlattenSeq(Path(n))
BY Swallows, HandsOn, PassesDown

LEMMA InjectCarries ==
    ASSUME FabricInv, Shapes', Inject, NEW n \in Node
    PROVE  FlattenSeq(Path(n))' = FlattenSeq(Path(n))
<1>1. PICK at \in Spines : \E bt \in Boards : Flow(at, bt)
  BY DEF FabricInv
<1>2. PICK bt \in Boards : Flow(at, bt)
  BY <1>1
<1>3. PICK b : b = src[1]
  OBVIOUS
<1>4. PICK sp : sp = spine
  OBVIOUS
<1>5. SrcOK /\ src # <<>> /\ src' = Tail(src)
  BY DEF FabricInv, Shapes, Inject
<1>6. SpineByte(b) /\ Head(src) = b
  BY <1>3, <1>5, SourceTaken
<1>7. RepeaterAccept(1, b, sp)
  BY <1>4, <1>6 DEF Inject
<1>8. 1 \in Layer
  BY Addresses DEF Layer
<1>9. at[1] = Cur(b) /\ RptOK(1, at[1]) /\ BoardFlow(1, at[1], bt[1])
  BY <1>2, <1>3, <1>5, <1>8 DEF Flow, SpineFlow, SourceOK
<1>10. TurnOK(1, 0, Into(1, Cur(b)))
  <2>1. 0 \in Col
    BY Addresses DEF Col
  <2> QED BY <1>9, <2>1 DEF BoardFlow
<1>11. ASSUME NEW m \in Node PROVE UpTaken(m, 1, b)
  <2>1. PICK s : s = src
    OBVIOUS
  <2>2. OnePacket(s) /\ s # <<>> /\ Head(s) = b /\ src' = Tail(s)
    BY <1>5, <1>6, <2>1, SourcePacket DEF SrcOK
  <2>3. Seen(m, s) = Seen(m, <<b>>) \o Seen(m, Tail(s))
    BY <2>2, SeenSplits
  <2>4. UpOf(1 - 1, spine, src) = s /\ UpOf(1 - 1, spine', src') = Tail(s)
    BY <2>1, <2>2 DEF UpOf
  <2> QED BY <2>3, <2>4 DEF UpTaken
<1>12. sp \in [Layer -> Reg] /\ (\A m \in Layer : m # 1 - 1 => sp[m] = spine[m])
       /\ \A k \in 1..(1 - 1) : ~ForLayer(b.pkt, k)
  BY <1>4 DEF FabricInv, Shapes
<1>13. RepeaterTook(1, b, sp)
  BY <1>6, <1>7, <1>9, <1>10, <1>11, <1>12 DEF RepeaterTook
<1> QED BY <1>8, <1>13, RepeaterCarries

LEMMA SpineHopCarries ==
    ASSUME FabricInv, Shapes', NEW l \in Layer, SpineHop(l), NEW n \in Node
    PROVE  FlattenSeq(Path(n))' = FlattenSeq(Path(n))
<1>1. PICK at \in Spines : \E bt \in Boards : Flow(at, bt)
  BY DEF FabricInv
<1>2. PICK bt \in Boards : Flow(at, bt)
  BY <1>1
<1>3. PICK b : b = spine[l][1]
  OBVIOUS
<1>4. PICK sp : sp = [spine EXCEPT ![l] = <<>>]
  OBVIOUS
<1>5. l < NL /\ spine[l] # <<>> /\ src' = src
  BY DEF SpineHop
<1>6. spine \in [Layer -> Reg]
  BY DEF FabricInv, Shapes
<1>7. spine[l] = <<b>> /\ Head(spine[l]) = b /\ b \in Byte
  <2>1. spine[l] \in Reg
    BY <1>6
  <2> QED BY <1>3, <1>5, <2>1, Registers
<1>8. SpineSlot(l, <<b>>, at[l], at[l + 1])
  BY <1>2, <1>7 DEF Flow, SpineFlow, SpineLink
<1>9. SpineByte(b) /\ at[l + 1] = Cur(b) /\ \A k \in 1..l : ~ForLayer(b.pkt, k)
  <2>1. <<b>> # <<>> /\ <<b>>[1] = b
    OBVIOUS
  <2> QED BY <1>8, <2>1 DEF SpineSlot, Link
<1>10. PICK m : m = l + 1
  OBVIOUS
<1>11. m \in Layer /\ m - 1 = l /\ m # 1 /\ l # 0 /\ m # l
  BY <1>5, <1>10, Addresses DEF Layer
<1>12. RepeaterAccept(m, b, sp)
  BY <1>4, <1>7, <1>10 DEF SpineHop
<1>13. RptOK(m, Cur(b)) /\ BoardFlow(m, Cur(b), bt[m])
  BY <1>2, <1>9, <1>10, <1>11 DEF Flow, SpineFlow
<1>14. TurnOK(m, 0, Into(m, Cur(b)))
  <2>1. 0 \in Col
    BY Addresses DEF Col
  <2> QED BY <1>13, <2>1 DEF BoardFlow
<1>15. sp \in [Layer -> Reg] /\ (\A k \in Layer : k # m - 1 => sp[k] = spine[k]) /\ sp[l] = <<>>
  BY <1>4, <1>6, <1>11, Registers
<1>16. spine'[l] = <<>>
  <2>1. spine' = sp \/ spine' = [sp EXCEPT ![m] = <<b>>]
    BY <1>12 DEF RepeaterAccept
  <2> QED BY <1>11, <1>15, <2>1
<1>17. ASSUME NEW k \in Node PROVE UpTaken(k, m, b)
  <2>1. UpOf(m - 1, spine, src) = <<b>> /\ UpOf(m - 1, spine', src') = <<>>
    BY <1>7, <1>11, <1>16 DEF UpOf
  <2>2. Seen(k, <<>>) = <<>>
    BY SeenOfNone
  <2>3. PICK t \in Seq(Byte) : t = Seen(k, <<b>>)
    <3>1. <<b>> \in Seq(Byte)
      BY <1>7
    <3> QED BY <3>1, SeenTyped
  <2>4. t = t \o <<>>
    OBVIOUS
  <2> QED BY <2>1, <2>2, <2>3, <2>4, Zenon DEF UpTaken
<1>18. \A k \in 1..(m - 1) : ~ForLayer(b.pkt, k)
  BY <1>9, <1>11
<1>19. RepeaterTook(m, b, sp)
  BY <1>5, <1>9, <1>12, <1>13, <1>14, <1>15, <1>17, <1>18 DEF RepeaterTook
<1> QED BY <1>11, <1>19, RepeaterCarries

LEMMA TailCarries ==
    ASSUME FabricInv, Shapes', TailDrain, NEW n \in Node
    PROVE  FlattenSeq(Path(n))' = FlattenSeq(Path(n))
<1>1. /\ spine \in [Layer -> Reg] /\ Shapes
      /\ spine' = [spine EXCEPT ![NL] = <<>>] /\ src' = src /\ lane' = lane /\ port' = port
  BY DEF FabricInv, Shapes, TailDrain
<1>2. PICK a \in 1..NL : a = n[1]
  BY NodeTyped
<1>3. ASSUME NEW k \in 0..(a - 1) PROVE UpKeeps(n, k)
  <2>1. k # 0 => k \in Layer /\ k # NL
    BY Addresses, <1>3 DEF Layer
  <2>2. k # 0 => spine'[k] = spine[k]
    BY <1>1, <2>1
  <2> QED BY <1>1, <2>2 DEF UpKeeps, UpOf
<1>4. PortKeeps(n) /\ \A z \in 0..(n[2] - 1) : LaneKeeps(n, z)
  BY <1>1 DEF PortKeeps, LaneKeeps
<1> QED BY <1>1, <1>2, <1>3, <1>4, AllKept

(* The host starts packet p.                                               *)
LEMMA StartFeeds ==
    ASSUME FabricInv, Shapes', NEW p \in Packet, StartPacket(p), NEW n \in Node
    PROVE  /\ n \in Dest(p) => FlattenSeq(Path(n))' = FlattenSeq(Path(n)) \o DeliveredBytes(p)
           /\ n \notin Dest(p) => FlattenSeq(Path(n))' = FlattenSeq(Path(n))
<1>1. Shapes /\ src = <<>> /\ src' = Bytes(p) /\ spine' = spine /\ lane' = lane /\ port' = port
  BY DEF FabricInv, StartPacket, board
<1>2. PICK a \in 1..NL : a = n[1]
  BY NodeTyped
<1>3. PICK c \in Nat : c = n[2]
  BY NodeTyped
<1>4. a \in Nat /\ a >= 1 /\ 0 \in 0..(a - 1)
  BY Addresses
<1>5. PortKeeps(n) /\ (\A z \in 0..(c - 1) : LaneKeeps(n, z)) /\ \A k \in 0..(a - 1) : k # 0 => UpKeeps(n, k)
  BY <1>1 DEF PortKeeps, LaneKeeps, UpKeeps, UpOf
<1>6. Seen(n, src) = <<>> /\ Seen(n, src') = IF n \in Dest(p) THEN DeliveredBytes(p) ELSE <<>>
  BY <1>1, SeenOfNone, SeenOfPacket
<1>7. ASSUME n \notin Dest(p) PROVE FlattenSeq(Path(n))' = FlattenSeq(Path(n))
  <2>1. UpKeeps(n, 0)
    BY <1>6, <1>7 DEF UpKeeps, UpOf
  <2> QED BY <1>1, <1>2, <1>3, <1>5, <2>1, AllKept
<1>8. ASSUME n \in Dest(p) PROVE FlattenSeq(Path(n))' = FlattenSeq(Path(n)) \o DeliveredBytes(p)
  <2>1. PICK d \in Seq(Byte) : d = DeliveredBytes(p)
    <3>1. Bytes(p) \in Seq(Byte)
      BY SeenOfPacket DEF OnePacket
    <3> QED BY <1>1, <1>6, <1>8, <3>1, SeenTyped
  <2>2. SlotCount(n) = a + c + 1 /\ SpineSlots(n, a, c)
    BY <1>2, <1>3, <1>4, Slots
  <2>3. PICK i \in Nat : i = a + c + 1 /\ i = a + c + 1 - 0
    BY <1>4
  <2>4. Slot(n, i) = <<>> /\ Slot(n, i)' = d
    <3>1. UpOf(0, spine, src) = src /\ UpOf(0, spine', src') = src'
      BY DEF UpOf
    <3> QED BY <1>4, <1>6, <1>8, <2>1, <2>2, <2>3, <3>1 DEF SpineSlots
  <2>5. ASSUME NEW j \in 1..(SlotCount(n) - 1) PROVE SlotKept(n, j)
    <3>1. j \in 1..SlotCount(n) /\ j # a + c + 1 - 0
      BY <1>4, <2>2, <2>5
    <3>2. ASSUME NEW k \in 0..(a - 1), j = a + c + 1 - k, UpKeeps(n, k) => SlotKept(n, j)
          PROVE  SlotKept(n, j)
      BY <1>5, <3>1, <3>2
    <3>3. j \in 1..SlotCount(n) /\ PortKeeps(n) /\ \A z \in 0..(c - 1) : LaneKeeps(n, z)
      BY <1>5, <3>1
    <3>4. ASSUME NEW z \in 0..(c - 1), LaneKeeps(n, z) => SlotKept(n, j) PROVE SlotKept(n, j)
      BY <3>3, <3>4
    <3>5. PICK h \in 1..SlotCount(n) : h = j
      BY <3>3
    <3>6. \/ h = 1 /\ (PortKeeps(n) => SlotKept(n, h))
          \/ \E z \in 0..(c - 1) : h = c + 1 - z /\ (LaneKeeps(n, z) => SlotKept(n, h))
          \/ \E k \in 0..(a - 1) : h = a + c + 1 - k /\ (UpKeeps(n, k) => SlotKept(n, h))
      BY <1>2, <1>3, <1>4, SlotsKept
    <3> QED BY <3>2, <3>3, <3>4, <3>5, <3>6
  <2> QED BY <1>1, <2>1, <2>2, <2>3, <2>4, <2>5, PathFed
<1> QED BY <1>7, <1>8

(* Node m takes the byte on its port.                                      *)
LEMMA NodeTakes ==
    ASSUME FabricInv, Shapes', NEW m \in Node, NodeTake(m), NEW n \in Node
    PROVE  /\ n = m => /\ FlattenSeq(Path(n)) = port[n] \o FlattenSeq(Path(n))'
                       /\ FlattenSeq(Path(n))' \in Seq(Byte)
           /\ n # m => FlattenSeq(Path(n))' = FlattenSeq(Path(n))
<1>1. /\ Shapes /\ port \in [Node -> Reg] /\ port[m] # <<>>
      /\ spine' = spine /\ src' = src /\ lane' = lane /\ port' = [port EXCEPT ![m] = <<>>]
  BY DEF FabricInv, Shapes, NodeTake
<1>2. \A k, z : UpKeeps(n, k) /\ LaneKeeps(n, z)
  BY <1>1 DEF UpKeeps, LaneKeeps
<1>3. ASSUME n # m PROVE FlattenSeq(Path(n))' = FlattenSeq(Path(n))
  <2>1. PortKeeps(n)
    BY <1>1, <1>3 DEF PortKeeps
  <2> QED BY <1>1, <1>2, <2>1, AllKept
<1>4. ASSUME n = m PROVE /\ FlattenSeq(Path(n)) = port[n] \o FlattenSeq(Path(n))'
                         /\ FlattenSeq(Path(n))' \in Seq(Byte)
  <2>1. PICK a \in Nat : a = n[1]
    BY NodeTyped
  <2>2. PICK c \in Nat : c = n[2]
    BY NodeTyped
  <2>3. PICK b \in Byte : port[n] = <<b>>
    <3>1. port[n] \in Reg /\ port[n] # <<>>
      BY <1>1, <1>4
    <3> QED BY <3>1, Registers
  <2>4. Slot(n, 1) = <<b>> /\ Slot(n, 1)' = <<>>
    BY <1>1, <1>4, <2>1, <2>2, <2>3, Slots
  <2>5. ASSUME NEW i \in 2..SlotCount(n) PROVE SlotKept(n, i)
    <3>1. SlotCount(n) = a + c + 1
      BY <2>1, <2>2, Slots
    <3>2. i \in 1..SlotCount(n) /\ i # 1
      BY <2>5, <3>1
    <3> QED BY <1>2, <2>1, <2>2, <3>2, SlotsKept
  <2> QED BY <1>1, <2>3, <2>4, <2>5, PathLeft
<1> QED BY <1>3, <1>4

-----------------------------------------------------------------------------
(* At first there is nothing on any path.                                  *)
LEMMA NothingYet ==
    ASSUME Init, NEW n \in Node
    PROVE  FlattenSeq(Path(n)) = <<>>
<1>1. PICK a \in 1..NL : a = n[1]
  BY NodeTyped
<1>2. PICK c \in 0..(Bx - 1) : c = n[2]
  BY NodeTyped
<1>3. PICK m \in Nat : m = a + c + 1 /\ m = n[1] + n[2] + 1
  BY <1>1, <1>2, Addresses
<1>4. PICK ln : ln = [z \in 0..(Bx - 2) |-> <<>>]
  OBVIOUS
<1>5. PICK sp : sp = [k \in Layer |-> <<>>]
  OBVIOUS
<1>6. PICK r : r = <<>> /\ r \in Reg /\ r \in Seq(Byte)
  <2>1. <<>> \in Reg /\ <<>> \in Seq(Byte)
    BY Registers, RegisterSeq
  <2> QED BY <2>1, Zenon
<1>7. ln \in [0..(Bx - 2) -> Reg] /\ sp \in [Layer -> Reg]
  BY <1>4, <1>5, <1>6
<1>8. PICK t : t = PathOf(n, r, ln, sp, r)
  OBVIOUS
<1>9. IsRouteOf(t, n, r, ln, sp, r)
  BY <1>6, <1>7, <1>8, RouteOf
<1>10. Path(n) = t
  <2>1. port[n] = r /\ lane[n[1]] = ln /\ spine = sp /\ src = r
    BY <1>4, <1>5, <1>6, NodeTyped DEF Init
  <2>2. Path(n) = PathOf(n, port[n], lane[n[1]], spine, src)
    BY DEF Path, PathOf
  <2> QED BY <1>8, <2>1, <2>2
<1>11. t \in [1..m -> Seq(Byte)] /\ \A i \in 1..m : t[i] = SlotOf(n, i, r, ln, sp, r)
  BY <1>3, <1>9 DEF IsRouteOf
<1>12. ASSUME NEW i \in 1..m PROVE t[i] = <<>>
  <2>1. \A z \in 0..(Bx - 2) : Ours(n, ln[z]) = <<>>
    BY <1>4, <1>6, OursOfRegister
  <2>2. \A k \in 0..(a - 1) : Seen(n, UpOf(k, sp, r)) = <<>>
    <3>1. \A k \in 0..(a - 1) : k # 0 => k \in Layer
      BY Addresses DEF Layer
    <3>2. \A k \in 0..(a - 1) : UpOf(k, sp, r) = <<>>
      BY <1>5, <1>6, <3>1 DEF UpOf
    <3> QED BY <3>2, SeenOfNone
  <2>3. t[i] = IF i = 1 THEN r ELSE IF i <= c + 1 THEN Ours(n, ln[c + 1 - i])
               ELSE Seen(n, UpOf(a + c + 1 - i, sp, r))
    BY <1>1, <1>2, <1>11, <1>12 DEF SlotOf, UpOf
  <2>4. CASE i = 1
    BY <1>6, <2>3, <2>4
  <2>5. CASE i # 1 /\ i <= c + 1
    <3>1. c + 1 - i \in 0..(Bx - 2)
      BY <1>3, <1>12, <2>5, Addresses
    <3> QED BY <2>1, <2>3, <2>5, <3>1
  <2>6. CASE i # 1 /\ ~(i <= c + 1)
    <3>1. a + c + 1 - i \in 0..(a - 1)
      BY <1>3, <1>12, <2>6, Addresses
    <3> QED BY <2>2, <2>3, <2>6, <3>1
  <2> QED BY <2>4, <2>5, <2>6
<1>13. \A i \in 1..m : Len(t[i]) <= 0
  <2>1. Len(<<>>) = 0
    OBVIOUS
  <2> QED BY <1>12, <2>1
<1>14. FlattenSeq(t) \in Seq(Byte) /\ Len(FlattenSeq(t)) <= IF 0 = 0 THEN 0 ELSE m
  <2>1. 0 \in 0..1
    OBVIOUS
  <2> QED BY <1>11, <1>13, <2>1, FlattenShort, Zenon
<1>15. Len(FlattenSeq(t)) = 0
  BY <1>14
<1> QED BY <1>10, <1>14, <1>15, EmptySeq

(* A step that moves nothing onto a path or off it is none of the FIFOs'.  *)
Resting == got' = got /\ \A n \in Node : FlattenSeq(Path(n))' = FlattenSeq(Path(n))

LEMMA RestingStutters == Resting => UNCHANGED <<InFlight, got>>
<1> SUFFICES ASSUME Resting PROVE InFlight' = InFlight /\ got' = got
  OBVIOUS
<1>1. InFlight = [n \in Node |-> FlattenSeq(Path(n))]
  BY DEF InFlight
<1>2. InFlight' = [n \in Node |-> FlattenSeq(Path(n))']
  BY DEF InFlight, Node, Layer, Col, Row
<1>3. [n \in Node |-> FlattenSeq(Path(n))'] = [n \in Node |-> FlattenSeq(Path(n))]
  BY DEF Resting
<1> QED BY <1>1, <1>2, <1>3 DEF Resting

LEMMA FlightIs ==
    /\ InFlight = [n \in Node |-> FlattenSeq(Path(n))]
    /\ InFlight' = [n \in Node |-> FlattenSeq(Path(n))']
BY DEF InFlight, Node, Layer, Col, Row

LEMMA StartLaunches ==
    ASSUME FabricInv, Shapes', NEW p \in Packet, StartPacket(p)
    PROVE  [Ordered!Next]_<<InFlight, got>>
<1>1. got' = got
  BY DEF StartPacket
<1>2. CASE Dest(p) = {}
  <2>1. Resting
    BY <1>1, <1>2, StartFeeds DEF Resting
  <2> QED BY <2>1, RestingStutters
<1>3. CASE Dest(p) # {}
  <2>1. PICK n \in Node : n \in Dest(p)
    BY <1>3 DEF Dest
  <2>2. ASSUME NEW m \in Node, m # n PROVE m \notin Dest(p)
    BY <2>1, <2>2 DEF Dest
  <2>3. PICK d : d = DeliveredBytes(p)
    OBVIOUS
  <2>4. /\ FlattenSeq(Path(n))' = FlattenSeq(Path(n)) \o d
        /\ \A m \in Node : m # n => FlattenSeq(Path(m))' = FlattenSeq(Path(m))
    BY <2>1, <2>2, <2>3, StartFeeds
  <2>5. InFlight' = [InFlight EXCEPT ![n] = InFlight[n] \o d]
    <3>1. PICK f : f = InFlight
      OBVIOUS
    <3>2. PICK g : g = InFlight'
      OBVIOUS
    <3>3. /\ f = [m \in Node |-> FlattenSeq(Path(m))]
          /\ g = [m \in Node |-> FlattenSeq(Path(m))']
      BY <3>1, <3>2, FlightIs
    <3>4. g = [f EXCEPT ![n] = f[n] \o d]
      BY <2>4, <3>3
    <3> QED BY <3>1, <3>2, <3>4
  <2>6. Ordered!Send(n, d)
    BY <1>1, <2>5 DEF Ordered!Send
  <2>7. PICK u : u = <<n, d>>
    OBVIOUS
  <2>8. u \in UNION {{<<m, DeliveredBytes(q)>> : m \in Dest(q)} : q \in Packet}
    <3>1. <<n, DeliveredBytes(p)>> \in {<<m, DeliveredBytes(p)>> : m \in Dest(p)}
      BY <2>1
    <3> QED BY <2>3, <2>7, <3>1
  <2>9. Ordered!Send(u[1], u[2])
    <3>1. u[1] = n /\ u[2] = d
      BY <2>7
    <3> QED BY <2>6, <3>1
  <2> QED BY <2>8, <2>9, Zenon DEF Ordered!Next
<1> QED BY <1>2, <1>3

LEMMA NodeDelivers ==
    ASSUME FabricInv, Shapes', NEW n \in Node, NodeTake(n)
    PROVE  Ordered!Next
<1>1. PICK b \in Byte : port[n] = <<b>> /\ Head(port[n]) = b
  <2>1. port[n] \in Reg /\ port[n] # <<>>
    BY DEF FabricInv, Shapes, NodeTake
  <2> QED BY <2>1, Registers
<1>2. PICK t \in Seq(Byte) : t = FlattenSeq(Path(n))'
  BY NodeTakes
<1>3. FlattenSeq(Path(n)) = <<b>> \o t
  BY <1>1, <1>2, NodeTakes
<1>4. PICK s \in Seq(Byte) : s = <<b>> \o t
  <2>1. <<b>> \in Seq(Byte)
    OBVIOUS
  <2>2. <<b>> \o t \in Seq(Byte)
    BY <2>1, ConcatProperties
  <2> QED BY <2>2
<1>5. s # <<>> /\ Head(s) = b /\ Tail(s) = t
  <2>1. s # <<>> /\ s[1] = b /\ Len(s) = Len(t) + 1 /\ \A i \in 1..Len(t) : s[i + 1] = t[i]
    <3>1. <<b>> \in Seq(Byte) /\ Len(<<b>>) = 1 /\ <<b>>[1] = b
      OBVIOUS
    <3>2. /\ Len(s) = 1 + Len(t) /\ Len(t) \in Nat
          /\ \A i \in 1..(1 + Len(t)) : s[i] = IF i <= 1 THEN <<b>>[i] ELSE t[i - 1]
      BY <1>4, <3>1, ConcatProperties
    <3>3. s # <<>>
      <4>1. Len(<<>>) = 0
        OBVIOUS
      <4> QED BY <3>2, <4>1
    <3> QED BY <3>1, <3>2, <3>3
  <2>2. Head(s) = b
    BY <2>1, TailBytes
  <2>3. PICK r \in Seq(Byte) : r = Tail(s)
    BY <2>1, TailBytes
  <2>4. Len(r) = Len(t) /\ \A i \in 1..Len(t) : r[i] = t[i]
    <3>1. Len(r) = Len(s) - 1 /\ \A i \in 1..(Len(s) - 1) : r[i] = s[i + 1]
      BY <2>1, <2>3, TailBytes
    <3> QED BY <2>1, <3>1
  <2>5. r = t
    BY <2>4, SeqEqual
  <2> QED BY <2>1, <2>2, <2>3, <2>5
<1>6. PICK f : f = InFlight
  OBVIOUS
<1>7. PICK g : g = InFlight'
  OBVIOUS
<1>8. f = [m \in Node |-> FlattenSeq(Path(m))] /\ g = [m \in Node |-> FlattenSeq(Path(m))']
  BY <1>6, <1>7, FlightIs
<1>9. f[n] = s
  BY <1>3, <1>4, <1>8
<1>10. g = [f EXCEPT ![n] = t]
  <2>1. \A m \in Node : m # n => FlattenSeq(Path(m))' = FlattenSeq(Path(m))
    BY NodeTakes
  <2> QED BY <1>2, <1>8, <2>1
<1>11. got' = [got EXCEPT ![n] = Append(got[n], Head(f[n]))]
  BY <1>1, <1>5, <1>9 DEF NodeTake
<1>12. f[n] # <<>> /\ g = [f EXCEPT ![n] = Tail(f[n])]
  BY <1>5, <1>9, <1>10
<1>13. Ordered!Deliver(n)
  BY <1>6, <1>7, <1>11, <1>12 DEF Ordered!Deliver
<1> QED BY <1>13 DEF Ordered!Next

LEMMA FabricStep ==
    FabricInv /\ FabricInv' /\ [Next]_vars => [Ordered!Next]_<<InFlight, got>>
<1> SUFFICES ASSUME FabricInv, FabricInv', [Next]_vars PROVE [Ordered!Next]_<<InFlight, got>>
  OBVIOUS
<1>0. Shapes'
  BY DEF FabricInv
<1>1. ASSUME NEW p \in Packet, StartPacket(p) PROVE [Ordered!Next]_<<InFlight, got>>
  BY <1>0, <1>1, StartLaunches
<1>2. CASE Inject
  <2>1. Resting
    BY <1>0, <1>2, InjectCarries DEF Resting, Inject
  <2> QED BY <2>1, RestingStutters
<1>3. ASSUME NEW l \in Layer, SpineHop(l) PROVE [Ordered!Next]_<<InFlight, got>>
  <2>1. Resting
    BY <1>0, <1>3, SpineHopCarries DEF Resting, SpineHop
  <2> QED BY <2>1, RestingStutters
<1>4. CASE TailDrain
  <2>1. Resting
    BY <1>0, <1>4, TailCarries DEF Resting, TailDrain
  <2> QED BY <2>1, RestingStutters
<1>5. ASSUME NEW l \in Layer, NEW x \in Col, LaneHop(l, x) PROVE [Ordered!Next]_<<InFlight, got>>
  <2>1. Resting
    BY <1>0, <1>5, LaneHopCarries DEF Resting, LaneHop
  <2> QED BY <2>1, RestingStutters
<1>6. ASSUME NEW n \in Node, NodeTake(n) PROVE [Ordered!Next]_<<InFlight, got>>
  BY <1>0, <1>6, NodeDelivers
<1>7. CASE UNCHANGED vars
  <2>1. /\ port' = port /\ lane' = lane /\ spine' = spine /\ src' = src /\ got' = got /\ Shapes
    BY <1>7 DEF vars, FabricInv
  <2>2. ASSUME NEW n \in Node PROVE FlattenSeq(Path(n))' = FlattenSeq(Path(n))
    <3>1. PortKeeps(n) /\ \A k, z : LaneKeeps(n, z) /\ UpKeeps(n, k)
      BY <2>1 DEF PortKeeps, LaneKeeps, UpKeeps
    <3> QED BY <1>0, <2>1, <3>1, AllKept
  <2>3. Resting
    BY <2>1, <2>2 DEF Resting
  <2> QED BY <2>3, RestingStutters
<1> QED BY <1>1, <1>2, <1>3, <1>4, <1>5, <1>6, <1>7 DEF Next

(* The gates and registers deliver byte-exactly, for chassis of any size,  *)
(* any set of packets and any way the nodes stall: every step of the       *)
(* fabric is a step of one lossless FIFO per node or none of them, what    *)
(* is between host and node being the FIFO.                                *)
THEOREM DeliversByteExact == Spec => ByteExactDelivery
<1>1. Init => Ordered!Init
  <2> SUFFICES ASSUME Init PROVE Ordered!Init
    OBVIOUS
  <2>1. InFlight = [n \in Node |-> <<>>]
    BY NothingYet, FlightIs
  <2> QED BY <2>1 DEF Init, Ordered!Init
<1> QED BY <1>1, FabricStep, FabricInvariant, PTL
        DEF Spec, ByteExactDelivery, Ordered!Spec, Ordered!vars

=============================================================================
