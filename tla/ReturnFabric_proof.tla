------------------------- MODULE ReturnFabric_proof -------------------------
(***************************************************************************)
(* Theorems about the return fabric (ReturnFabric), for every number of    *)
(* layers, columns and rows, every length of the echoes and every number   *)
(* of them.                                                                *)
(*                                                                         *)
(* The wires and the readies of a cycle are recursive functions over the   *)
(* tree of merges.  The first half shows that every port leads into one    *)
(* merge, that the two functions satisfy their equations, and an induction *)
(* over the tree (PortInduction).  The second half is the invariant: whose *)
(* packet each port is in the middle of (Cursors), whose turn it is at a   *)
(* merge (BypassOK), and which bytes the spine holds (SpineOK, Exact).     *)
(***************************************************************************)
EXTENDS ReturnFabric, SequenceLemmas, TLAPS


(***************************************************************************)
(* The wiring                                                              *)
(***************************************************************************)
(* Division: the remainder of a number written with its quotient.          *)
LEMMA ModUnique ==
    ASSUME NEW L \in Nat \ {0}, NEW q \in Nat, NEW r \in 0..(L - 1)
    PROVE  (q * L + r) % L = r
  OBVIOUS

Row == 0..(By - 1)
Col == 0..(Bx - 1)

TxOf(n) == <<"tx", n[1], n[2], n[3]>>

(* The name of a node's port and the node are each other's tails.          *)
LEMMA TxOfNode ==
    ASSUME NEW n \in Node
    PROVE  /\ TxOf(n) \in TxPort /\ TxOf(n)[1] = "tx"
           /\ Tail(TxOf(n)) = n /\ <<"tx">> \o n = TxOf(n)
<1>1. PICK l \in Layer, x \in Col, y \in Row : n = <<l, x, y>>
  BY DEF Node, Col, Row
<1>2. TxOf(n) = <<"tx", l, x, y>>
  BY <1>1 DEF TxOf
<1>3. Tail(<<"tx", l, x, y>>) = <<l, x, y>> 
  OBVIOUS
<1>4. <<"tx">> \o <<l, x, y>> = <<"tx", l, x, y>>
  <2> DEFINE B == {"tx", l, x, y}
             s == <<"tx">>
             t == <<l, x, y>>
             u == <<"tx", l, x, y>>
  <2>1. s \in Seq(B) /\ t \in Seq(B) /\ u \in Seq(B) /\ Len(s) = 1 /\ Len(t) = 3 /\ Len(u) = 4
    OBVIOUS
  <2>2. s[1] = u[1] /\ t[1] = u[2] /\ t[2] = u[3] /\ t[3] = u[4]
    OBVIOUS
  <2> HIDE DEF s, t, u, B
  <2>3. /\ s \o t \in Seq(B) /\ Len(s \o t) = 4
        /\ \A i \in 1..4 : (s \o t)[i] = IF i <= 1 THEN s[i] ELSE t[i - 1]
    <3>1. /\ s \o t \in Seq(B) /\ Len(s \o t) = Len(s) + Len(t)
          /\ \A i \in 1..(Len(s) + Len(t)) :
                (s \o t)[i] = IF i <= Len(s) THEN s[i] ELSE t[i - Len(s)]
      BY <2>1, ConcatProperties
    <3>2. Len(s) + Len(t) = 4
      BY <2>1
    <3> QED BY <2>1, <3>1, <3>2
  <2>4. \A i \in 1..4 : (s \o t)[i] = u[i]
    BY <2>2, <2>3
  <2>5. s \o t = u
    BY <2>1, <2>3, <2>4, SeqEqual
  <2> QED BY <2>5 DEF s, t, u
<1>5. TxOf(n) \in TxPort
  BY DEF TxPort, TxOf
<1>6. TxOf(n)[1] = "tx"
  BY <1>2
<1>7. Tail(TxOf(n)) = n
  BY <1>1, <1>2, <1>3, Zenon
<1>8. <<"tx">> \o n = TxOf(n)
  BY <1>1, <1>2, <1>4, Zenon
<1> QED BY <1>5, <1>6, <1>7, <1>8

LEMMA PortKinds ==
    /\ \A l \in Layer, x \in Col, y \in Row : <<"tx", l, x, y>> \in TxPort
    /\ \A l \in Layer : <<"hfr", l>> \in HfrPort /\ <<"up", l>> \in UpMerge
    /\ \A l \in Layer, x \in Col, y \in 0..(By - 2) : <<"y", l, x, y>> \in YMerge
    /\ \A l \in Layer, x \in 0..(Bx - 2) : <<"x", l, x>> \in XMerge
<1>1. ASSUME NEW l \in Layer, NEW x \in Col, NEW y \in Row
      PROVE  <<"tx", l, x, y>> \in TxPort
  <2>1. <<l, x, y>> \in Node
    BY DEF Node, Col, Row
  <2> QED BY <2>1 DEF TxPort
<1>2. \A l \in Layer : <<"hfr", l>> \in HfrPort /\ <<"up", l>> \in UpMerge
  BY DEF HfrPort, UpMerge
<1>3. \A l \in Layer, x \in Col, y \in 0..(By - 2) : <<"y", l, x, y>> \in YMerge
  BY DEF YMerge, Col
<1>4. \A l \in Layer, x \in 0..(Bx - 2) : <<"x", l, x>> \in XMerge
  BY DEF XMerge
<1> QED BY <1>1, <1>2, <1>3, <1>4

(* Conversely, what a port of each kind looks like.                        *)
LEMMA KindsOfPort ==
    /\ \A p \in TxPort : \E l \in Layer, x \in Col, y \in Row : p = <<"tx", l, x, y>>
    /\ \A p \in HfrPort : \E l \in Layer : p = <<"hfr", l>>
    /\ \A p \in YMerge : \E l \in Layer, x \in Col, y \in 0..(By - 2) : p = <<"y", l, x, y>>
    /\ \A p \in XMerge : \E l \in Layer, x \in 0..(Bx - 2) : p = <<"x", l, x>>
    /\ \A p \in UpMerge : \E l \in Layer : p = <<"up", l>>
<1>1. \A p \in TxPort : \E l \in Layer, x \in Col, y \in Row : p = <<"tx", l, x, y>>
  BY DEF TxPort, Node, Col, Row
<1>2. \A p \in HfrPort : \E l \in Layer : p = <<"hfr", l>>
  BY DEF HfrPort
<1>3. \A p \in YMerge : \E l \in Layer, x \in Col, y \in 0..(By - 2) : p = <<"y", l, x, y>>
  BY DEF YMerge, Col
<1>4. \A p \in XMerge : \E l \in Layer, x \in 0..(Bx - 2) : p = <<"x", l, x>>
  BY DEF XMerge
<1>5. \A p \in UpMerge : \E l \in Layer : p = <<"up", l>>
  BY DEF UpMerge
<1> QED BY <1>1, <1>2, <1>3, <1>4, <1>5

(* The merge that a port leads into, read off its name.                    *)
AboveColumn(l, x) ==
    IF Bx > 1 THEN <<"x", l, IF x = 0 THEN 0 ELSE x - 1>> ELSE <<"up", l>>

Above(p) ==
    CASE p[1] = "tx"  -> IF By > 1 THEN <<"y", p[2], p[3], IF p[4] = 0 THEN 0 ELSE p[4] - 1>>
                                   ELSE AboveColumn(p[2], p[3])
      [] p[1] = "y"   -> IF p[4] < By - 2 THEN <<"y", p[2], p[3], p[4] + 1>>
                                          ELSE AboveColumn(p[2], p[3])
      [] p[1] = "x"   -> IF p[3] < Bx - 2 THEN <<"x", p[2], p[3] + 1>> ELSE <<"up", p[2]>>
      [] p[1] = "hfr" -> <<"up", p[2]>>

(* The three kinds of merges with what they are fed by.                    *)
LEMMA YInputs ==
    ASSUME NEW l \in Layer, NEW x \in Col, NEW y \in 0..(By - 2)
    PROVE  /\ y = 0 => InA(<<"y", l, x, y>>) = <<"tx", l, x, 0>>
           /\ y # 0 => InA(<<"y", l, x, y>>) = <<"y", l, x, y - 1>>
           /\ InB(<<"y", l, x, y>>) = <<"tx", l, x, y + 1>>
  BY DEF InA, InB

LEMMA XInputs ==
    ASSUME NEW l \in Layer, NEW x \in 0..(Bx - 2)
    PROVE  /\ x = 0 => InA(<<"x", l, x>>) = Column(l, 0)
           /\ x # 0 => InA(<<"x", l, x>>) = <<"x", l, x - 1>>
           /\ InB(<<"x", l, x>>) = Column(l, x + 1)
  BY DEF InA, InB

LEMMA UpInputs ==
    ASSUME NEW l \in Layer
    PROVE  InA(<<"up", l>>) = Board(l) /\ InB(<<"up", l>>) = <<"hfr", l>>
  BY DEF InA, InB

Below == Port \ UpMerge

LEMMA Kinds ==
    /\ \A p \in UpMerge : p[1] = "up"
    /\ \A p \in XMerge : p[1] = "x"
    /\ \A p \in YMerge : p[1] = "y"
    /\ \A p \in TxPort : p[1] = "tx"
    /\ \A p \in HfrPort : p[1] = "hfr"
  BY DEF UpMerge, XMerge, YMerge, TxPort, HfrPort

LEMMA BelowKinds == Below = TxPort \cup HfrPort \cup YMerge \cup XMerge
<1>1. \A p \in TxPort \cup HfrPort \cup YMerge \cup XMerge : p \notin UpMerge
  BY Kinds
<1> QED BY <1>1 DEF Below, Port, Merge

LEMMA ColumnPort ==
    ASSUME NEW l \in Layer, NEW x \in Col
    PROVE  /\ Column(l, x) \in Below
           /\ Above(Column(l, x)) = AboveColumn(l, x)
<1>1. CASE By > 1
  <2>1. Column(l, x) = <<"y", l, x, By - 2>> /\ By - 2 \in 0..(By - 2)
    BY <1>1, ReturnAssumption DEF Column
  <2>2. Column(l, x) \in YMerge
    BY <2>1, PortKinds
  <2>3. Above(<<"y", l, x, By - 2>>) = AboveColumn(l, x)
    BY ReturnAssumption DEF Above
  <2> QED BY <2>1, <2>2, <2>3, BelowKinds
<1>2. CASE ~(By > 1)
  <2>1. Column(l, x) = <<"tx", l, x, 0>> /\ 0 \in Row
    BY <1>2, ReturnAssumption DEF Column, Row
  <2>2. Column(l, x) \in TxPort
    BY <2>1, PortKinds
  <2>3. Above(<<"tx", l, x, 0>>) = AboveColumn(l, x)
    BY <1>2 DEF Above
  <2> QED BY <2>1, <2>2, <2>3, BelowKinds
<1> QED BY <1>1, <1>2

LEMMA BoardPort ==
    ASSUME NEW l \in Layer
    PROVE  /\ Board(l) \in Below /\ Board(l) # <<"hfr", l>>
           /\ Above(Board(l)) = <<"up", l>>
<1>1. CASE Bx > 1
  <2>1. Board(l) = <<"x", l, Bx - 2>> /\ Bx - 2 \in 0..(Bx - 2)
    BY <1>1, ReturnAssumption DEF Board
  <2>2. Board(l) \in XMerge
    BY <2>1, PortKinds
  <2>3. Above(<<"x", l, Bx - 2>>) = <<"up", l>>
    BY ReturnAssumption DEF Above
  <2>4. <<"x", l, Bx - 2>> # <<"hfr", l>>
    OBVIOUS
  <2> QED BY <2>1, <2>2, <2>3, <2>4, BelowKinds
<1>2. CASE ~(Bx > 1)
  <2>1. Board(l) = Column(l, 0) /\ 0 \in Col
    BY <1>2, ReturnAssumption DEF Board, Col
  <2>2. AboveColumn(l, 0) = <<"up", l>>
    BY <1>2 DEF AboveColumn
  <2>3. Column(l, 0)[1] \in {"tx", "y"}
    BY DEF Column
  <2>4. <<"hfr", l>>[1] = "hfr"
    OBVIOUS
  <2> QED BY <2>1, <2>2, <2>3, <2>4, ColumnPort
<1> QED BY <1>1, <1>2

(* Every merge has two inputs, and no port is an input of two merges.      *)
Feeds(m) == /\ InA(m) \in Below /\ InB(m) \in Below /\ InA(m) # InB(m)
            /\ Above(InA(m)) = m /\ Above(InB(m)) = m

LEMMA MergeInputs == \A m \in Merge : Feeds(m)
<1>1. ASSUME NEW l \in Layer, NEW x \in Col, NEW y \in 0..(By - 2)
      PROVE  Feeds(<<"y", l, x, y>>)
  <2> DEFINE m == <<"y", l, x, y>>
  <2>0. By \in Nat /\ By > 1 /\ y \in Nat
    BY ReturnAssumption
  <2>a. y + 1 \in Row /\ y + 1 # 0 /\ (y + 1) - 1 = y
    BY <2>0 DEF Row
  <2>1. InB(m) = <<"tx", l, x, y + 1>> /\ y + 1 \in Row /\ y + 1 # 0 /\ (y + 1) - 1 = y
    BY YInputs, <2>a
  <2>2. InB(m) \in Below
    BY <2>1, PortKinds, BelowKinds
  <2>3. Above(<<"tx", l, x, y + 1>>) = m
    BY <2>0, <2>1 DEF Above
  <2>4. CASE y = 0
    <3>a. 0 \in Row
      BY <2>0 DEF Row
    <3>1. InA(m) = <<"tx", l, x, 0>> /\ 0 \in Row
      BY <2>4, YInputs, <3>a
    <3>2. InA(m) \in Below
      BY <3>1, PortKinds, BelowKinds
    <3>3. Above(<<"tx", l, x, 0>>) = m
      BY <2>0, <2>4 DEF Above
    <3>4. <<"tx", l, x, 0>> # <<"tx", l, x, y + 1>>
      BY <2>1
    <3> QED BY <2>1, <2>2, <2>3, <3>1, <3>2, <3>3, <3>4 DEF Feeds
  <2>5. CASE y # 0
    <3>a. y - 1 \in 0..(By - 2) /\ (y - 1) + 1 = y /\ y - 1 < By - 2
      BY <2>0, <2>5
    <3>1. InA(m) = <<"y", l, x, y - 1>> /\ y - 1 \in 0..(By - 2) /\ (y - 1) + 1 = y /\ y - 1 < By - 2
      BY <2>5, YInputs, <3>a
    <3>2. InA(m) \in Below
      BY <3>1, PortKinds, BelowKinds
    <3>3. Above(<<"y", l, x, y - 1>>) = m
      BY <2>0, <3>1 DEF Above
    <3>4. <<"y", l, x, y - 1>> # <<"tx", l, x, y + 1>>
      OBVIOUS
    <3> QED BY <2>1, <2>2, <2>3, <3>1, <3>2, <3>3, <3>4 DEF Feeds
  <2> QED BY <2>4, <2>5
<1>2. ASSUME NEW l \in Layer, NEW x \in 0..(Bx - 2)
      PROVE  Feeds(<<"x", l, x>>)
  <2> DEFINE m == <<"x", l, x>>
  <2>0. Bx \in Nat /\ Bx > 1 /\ x \in Nat
    BY ReturnAssumption
  <2>a. x + 1 \in Col /\ x + 1 # 0 /\ (x + 1) - 1 = x
    BY <2>0 DEF Col
  <2>1. InB(m) = Column(l, x + 1) /\ x + 1 \in Col /\ x + 1 # 0 /\ (x + 1) - 1 = x
    BY XInputs, <2>a
  <2>2. InB(m) \in Below /\ Above(InB(m)) = AboveColumn(l, x + 1)
    BY <2>1, ColumnPort
  <2>3. AboveColumn(l, x + 1) = m
    BY <2>0, <2>1 DEF AboveColumn
  <2>4. CASE x = 0
    <3>a. 0 \in Col
      BY <2>0 DEF Col
    <3>1. InA(m) = Column(l, 0) /\ 0 \in Col
      BY <2>4, XInputs, <3>a
    <3>2. InA(m) \in Below /\ Above(InA(m)) = AboveColumn(l, 0)
      BY <3>1, ColumnPort
    <3>3. AboveColumn(l, 0) = m
      BY <2>0, <2>4 DEF AboveColumn
    <3>4. Column(l, 0)[3] = 0 /\ Column(l, x + 1)[3] = x + 1
      BY DEF Column
    <3> QED BY <2>1, <2>2, <2>3, <3>1, <3>2, <3>3, <3>4 DEF Feeds
  <2>5. CASE x # 0
    <3>a. x - 1 \in 0..(Bx - 2) /\ (x - 1) + 1 = x /\ x - 1 < Bx - 2
      BY <2>0, <2>5
    <3>1. InA(m) = <<"x", l, x - 1>> /\ x - 1 \in 0..(Bx - 2) /\ (x - 1) + 1 = x /\ x - 1 < Bx - 2
      BY <2>5, XInputs, <3>a
    <3>2. InA(m) \in Below
      BY <3>1, PortKinds, BelowKinds
    <3>3. Above(<<"x", l, x - 1>>) = m
      BY <2>0, <3>1 DEF Above
    <3>4. Column(l, x + 1)[1] # "x" /\ <<"x", l, x - 1>>[1] = "x"
      BY DEF Column
    <3> QED BY <2>1, <2>2, <2>3, <3>1, <3>2, <3>3, <3>4 DEF Feeds
  <2> QED BY <2>4, <2>5
<1>3. ASSUME NEW l \in Layer PROVE Feeds(<<"up", l>>)
  <2>1. InB(<<"up", l>>) \in Below
    BY UpInputs, PortKinds, BelowKinds
  <2>2. Above(<<"hfr", l>>) = <<"up", l>>
    BY DEF Above
  <2> QED BY <2>1, <2>2, UpInputs, BoardPort DEF Feeds
<1> QED BY <1>1, <1>2, <1>3, KindsOfPort DEF Merge

LEMMA AboveColumnMerge ==
    ASSUME NEW l \in Layer, NEW x \in Col
    PROVE  /\ AboveColumn(l, x) \in Merge
           /\ Column(l, x) \in {InA(AboveColumn(l, x)), InB(AboveColumn(l, x))}
<1>0. Bx \in Nat \ {0} /\ x \in Nat /\ x < Bx
  BY ReturnAssumption DEF Col
<1>1. CASE Bx > 1 /\ x = 0
  <2>1. AboveColumn(l, x) = <<"x", l, 0>> /\ 0 \in 0..(Bx - 2)
    BY <1>0, <1>1 DEF AboveColumn
  <2> QED BY <1>1, <2>1, PortKinds, XInputs DEF Merge
<1>2. CASE Bx > 1 /\ x # 0
  <2>1. AboveColumn(l, x) = <<"x", l, x - 1>> /\ x - 1 \in 0..(Bx - 2) /\ (x - 1) + 1 = x
    BY <1>0, <1>2 DEF AboveColumn
  <2>2. InB(<<"x", l, x - 1>>) = Column(l, (x - 1) + 1)
    BY <2>1, XInputs
  <2> QED BY <2>1, <2>2, PortKinds DEF Merge
<1>3. CASE ~(Bx > 1)
  <2>1. AboveColumn(l, x) = <<"up", l>> /\ x = 0 /\ Board(l) = Column(l, 0)
    BY <1>0, <1>3 DEF AboveColumn, Board
  <2> QED BY <2>1, PortKinds, UpInputs DEF Merge
<1> QED BY <1>0, <1>1, <1>2, <1>3

Leads(p) == Above(p) \in Merge /\ p \in {InA(Above(p)), InB(Above(p))}

LEMMA PortLeads == \A p \in Below : Leads(p)
<1>0. By \in Nat \ {0} /\ Bx \in Nat \ {0}
  BY ReturnAssumption
<1>1. ASSUME NEW l \in Layer, NEW x \in Col, NEW y \in Row
      PROVE  Leads(<<"tx", l, x, y>>)
  <2> DEFINE p == <<"tx", l, x, y>>
  <2>0. y \in Nat /\ y < By
    BY <1>0 DEF Row
  <2>1. CASE By > 1 /\ y = 0
    <3>1. Above(p) = <<"y", l, x, 0>> /\ 0 \in 0..(By - 2)
      BY <1>0, <2>1 DEF Above
    <3> QED BY <2>1, <3>1, PortKinds, YInputs DEF Merge, Leads
  <2>2. CASE By > 1 /\ y # 0
    <3>1. Above(p) = <<"y", l, x, y - 1>> /\ y - 1 \in 0..(By - 2) /\ (y - 1) + 1 = y
      BY <1>0, <2>0, <2>2 DEF Above
    <3>2. InB(<<"y", l, x, y - 1>>) = <<"tx", l, x, (y - 1) + 1>>
      BY <3>1, YInputs
    <3> QED BY <3>1, <3>2, PortKinds DEF Merge, Leads
  <2>3. CASE ~(By > 1)
    <3>1. y = 0 /\ Column(l, x) = <<"tx", l, x, 0>> /\ Above(p) = AboveColumn(l, x)
      BY <1>0, <2>0, <2>3 DEF Above, Column
    <3> QED BY <3>1, AboveColumnMerge DEF Leads
  <2> QED BY <2>1, <2>2, <2>3
<1>2. ASSUME NEW l \in Layer, NEW x \in Col, NEW y \in 0..(By - 2)
      PROVE  Leads(<<"y", l, x, y>>)
  <2> DEFINE p == <<"y", l, x, y>>
  <2>1. CASE y < By - 2
    <3>1. Above(p) = <<"y", l, x, y + 1>> /\ y + 1 \in 0..(By - 2) /\ (y + 1) - 1 = y /\ y + 1 # 0
      BY <1>0, <2>1 DEF Above
    <3>2. InA(<<"y", l, x, y + 1>>) = <<"y", l, x, (y + 1) - 1>>
      BY <3>1, YInputs
    <3> QED BY <3>1, <3>2, PortKinds DEF Merge, Leads
  <2>2. CASE ~(y < By - 2)
    <3>1. y = By - 2 /\ Column(l, x) = <<"y", l, x, By - 2>> /\ Above(p) = AboveColumn(l, x)
      BY <1>0, <2>2 DEF Above, Column
    <3> QED BY <3>1, AboveColumnMerge DEF Leads
  <2> QED BY <2>1, <2>2
<1>3. ASSUME NEW l \in Layer, NEW x \in 0..(Bx - 2)
      PROVE  Leads(<<"x", l, x>>)
  <2> DEFINE p == <<"x", l, x>>
  <2>1. CASE x < Bx - 2
    <3>1. Above(p) = <<"x", l, x + 1>> /\ x + 1 \in 0..(Bx - 2) /\ (x + 1) - 1 = x /\ x + 1 # 0
      BY <1>0, <2>1 DEF Above
    <3>2. InA(<<"x", l, x + 1>>) = <<"x", l, (x + 1) - 1>>
      BY <3>1, XInputs
    <3> QED BY <3>1, <3>2, PortKinds DEF Merge, Leads
  <2>2. CASE ~(x < Bx - 2)
    <3>1. x = Bx - 2 /\ Board(l) = <<"x", l, Bx - 2>> /\ Above(p) = <<"up", l>>
      BY <1>0, <2>2 DEF Above, Board
    <3> QED BY <3>1, PortKinds, UpInputs DEF Merge, Leads
  <2> QED BY <2>1, <2>2
<1>4. ASSUME NEW l \in Layer PROVE Leads(<<"hfr", l>>)
  <2>1. Above(<<"hfr", l>>) = <<"up", l>>
    BY DEF Above
  <2> QED BY <2>1, PortKinds, UpInputs DEF Merge, Leads
<1> QED BY <1>1, <1>2, <1>3, <1>4, KindsOfPort, BelowKinds

(* So Into and Side are what they are meant to be.                         *)
LEMMA IntoSide ==
    /\ \A p \in Below : Into[p] = Above(p)
    /\ \A m \in Merge : /\ Into[InA(m)] = m /\ Side[InA(m)] = "A"
                        /\ Into[InB(m)] = m /\ Side[InB(m)] = "B"
<1>1. ASSUME NEW p \in Below PROVE Into[p] = Above(p)
  <2>1. Into[p] = CHOOSE m \in Merge : p \in {InA(m), InB(m)}
    BY DEF Into, Below
  <2>2. Above(p) \in Merge /\ p \in {InA(Above(p)), InB(Above(p))}
    BY PortLeads DEF Leads
  <2>3. \A m \in Merge : p \in {InA(m), InB(m)} => m = Above(p)
    BY MergeInputs DEF Feeds
  <2> QED BY <2>1, <2>2, <2>3
<1>2. ASSUME NEW m \in Merge
      PROVE  /\ Into[InA(m)] = m /\ Side[InA(m)] = "A"
             /\ Into[InB(m)] = m /\ Side[InB(m)] = "B"
  <2>1. Feeds(m)
    BY MergeInputs
  <2>2. Into[InA(m)] = m /\ Into[InB(m)] = m
    BY <1>1, <2>1 DEF Feeds
  <2> QED BY <2>1, <2>2 DEF Feeds, Side, Below
<1> QED BY <1>1, <1>2

(* How many merges lie on the longest way up to a port on its board: an    *)
(* induction on it goes through the tree of merges from the leaves up.     *)
Rank(p) == CASE p[1] = "y"  -> p[4] + 1
             [] p[1] = "x"  -> By + p[3] + 1
             [] p[1] = "up" -> By + Bx + 1
             [] OTHER -> 0

LEMMA RankOfColumn ==
    ASSUME NEW l \in Layer, NEW x \in Col
    PROVE  Rank(Column(l, x)) \in 0..By
<1>1. CASE By > 1
  <2>1. Column(l, x) = <<"y", l, x, By - 2>>
    BY <1>1 DEF Column
  <2>2. Rank(<<"y", l, x, By - 2>>) = By - 2 + 1
    BY DEF Rank
  <2> QED BY <1>1, <2>1, <2>2, ReturnAssumption
<1>2. CASE ~(By > 1)
  <2>1. Column(l, x) = <<"tx", l, x, 0>>
    BY <1>2 DEF Column
  <2>2. Rank(<<"tx", l, x, 0>>) = 0
    BY DEF Rank
  <2> QED BY <2>1, <2>2, ReturnAssumption
<1> QED BY <1>1, <1>2

RankDescends(m) == /\ Rank(m) \in 1..(By + Bx + 1)
                   /\ Rank(InA(m)) \in 0..(Rank(m) - 1)
                   /\ Rank(InB(m)) \in 0..(Rank(m) - 1)

LEMMA RanksDescend == \A m \in Merge : RankDescends(m)
<1>0. By \in Nat \ {0} /\ Bx \in Nat \ {0}
  BY ReturnAssumption
<1>1. ASSUME NEW l \in Layer, NEW x \in Col, NEW y \in 0..(By - 2)
      PROVE  RankDescends(<<"y", l, x, y>>)
  <2> DEFINE m == <<"y", l, x, y>>
  <2> SUFFICES RankDescends(m)
    OBVIOUS
  <2>1. y \in Nat /\ y + 1 \in 1..(By + Bx + 1)
    BY <1>0
  <2>2. Rank(m) = y + 1
    BY DEF Rank
  <2>3. Rank(<<"tx", l, x, y + 1>>) = 0 /\ Rank(<<"tx", l, x, 0>>) = 0
    BY DEF Rank
  <2>4. Rank(<<"y", l, x, y - 1>>) = y - 1 + 1
    BY DEF Rank
  <2>5. InB(m) = <<"tx", l, x, y + 1>>
    BY YInputs
  <2>6. CASE y = 0
    <3>1. InA(m) = <<"tx", l, x, 0>>
      BY <2>6, YInputs
    <3> HIDE DEF m
    <3> QED BY <2>1, <2>2, <2>3, <2>5, <3>1 DEF RankDescends
  <2>7. CASE y # 0
    <3>1. InA(m) = <<"y", l, x, y - 1>>
      BY <2>7, YInputs
    <3> HIDE DEF m
    <3> QED BY <2>1, <2>2, <2>3, <2>4, <2>5, <2>7, <3>1 DEF RankDescends
  <2> QED BY <2>6, <2>7
<1>2. ASSUME NEW l \in Layer, NEW x \in 0..(Bx - 2)
      PROVE  RankDescends(<<"x", l, x>>)
  <2> DEFINE m == <<"x", l, x>>
  <2> SUFFICES RankDescends(m)
    OBVIOUS
  <2>1. x \in Nat /\ x + 1 \in Col /\ 0 \in Col /\ By + x + 1 \in 1..(By + Bx + 1)
    BY <1>0 DEF Col
  <2>2. Rank(m) = By + x + 1
    BY DEF Rank
  <2>3. Rank(Column(l, x + 1)) \in 0..By /\ Rank(Column(l, 0)) \in 0..By
    BY <2>1, RankOfColumn
  <2>4. Rank(<<"x", l, x - 1>>) = By + (x - 1) + 1
    BY DEF Rank
  <2>5. InB(m) = Column(l, x + 1)
    BY XInputs
  <2>6. CASE x = 0
    <3>1. InA(m) = Column(l, 0)
      BY <2>6, XInputs
    <3> HIDE DEF m
    <3> QED BY <1>0, <2>1, <2>2, <2>3, <2>5, <3>1 DEF RankDescends
  <2>7. CASE x # 0
    <3>1. InA(m) = <<"x", l, x - 1>>
      BY <2>7, XInputs
    <3> HIDE DEF m
    <3>2. Rank(InA(m)) \in 0..(Rank(m) - 1)
      BY <1>0, <2>1, <2>2, <2>4, <2>7, <3>1
    <3>3. Rank(InB(m)) \in 0..(Rank(m) - 1)
      BY <1>0, <2>1, <2>2, <2>3, <2>5
    <3> QED BY <2>1, <2>2, <3>2, <3>3 DEF RankDescends
  <2> QED BY <2>6, <2>7
<1>3. ASSUME NEW l \in Layer PROVE RankDescends(<<"up", l>>)
  <2> DEFINE m == <<"up", l>>
  <2> SUFFICES RankDescends(m)
    OBVIOUS
  <2>1. Rank(m) = By + Bx + 1
    BY DEF Rank
  <2>2. Rank(<<"hfr", l>>) = 0
    BY DEF Rank
  <2>3. Rank(Board(l)) \in 0..(By + Bx)
    <3>1. CASE Bx > 1
      <4>1. Board(l) = <<"x", l, Bx - 2>>
        BY <3>1 DEF Board
      <4>2. Rank(<<"x", l, Bx - 2>>) = By + (Bx - 2) + 1
        BY DEF Rank
      <4> QED BY <1>0, <3>1, <4>1, <4>2
    <3>2. CASE ~(Bx > 1)
      <4>1. Board(l) = Column(l, 0) /\ 0 \in Col
        BY <1>0, <3>2 DEF Board, Col
      <4>2. Rank(Board(l)) \in 0..By
        BY <4>1, RankOfColumn
      <4> QED BY <1>0, <4>2
    <3> QED BY <3>1, <3>2
  <2>4. InA(m) = Board(l) /\ InB(m) = <<"hfr", l>>
    BY UpInputs
  <2> HIDE DEF m
  <2> QED BY <1>0, <2>1, <2>2, <2>3, <2>4 DEF RankDescends
<1> QED BY <1>1, <1>2, <1>3, KindsOfPort DEF Merge

LEMMA LeafRank == \A p \in TxPort \cup HfrPort : Rank(p) = 0
  BY Kinds DEF Rank

LEMMA RankBound == \A p \in Port : Rank(p) \in 0..(By + Bx + 1)
<1>1. 0 \in 0..(By + Bx + 1)
  BY ReturnAssumption
<1>2. \A m \in Merge : Rank(m) \in 0..(By + Bx + 1)
  BY RanksDescend, ReturnAssumption DEF RankDescends
<1> QED BY <1>1, <1>2, LeafRank DEF Port

(* What holds of the ports that drive a board's tree and passes from the   *)
(* inputs of a merge to its output holds of every port.                    *)
LEMMA PortInduction ==
    ASSUME NEW S, TxPort \subseteq S, HfrPort \subseteq S,
           \A m \in Merge : InA(m) \in S /\ InB(m) \in S => m \in S
    PROVE  Port \subseteq S
<1> DEFINE K == {k \in Nat : \A p \in Port : Rank(p) < k => p \in S}
<1>0. By \in Nat /\ Bx \in Nat
  BY ReturnAssumption
<1>1. 0 \in K
  BY RankBound, <1>0
<1>2. ASSUME NEW k \in Nat, k \in K PROVE k + 1 \in K
  <2>1. ASSUME NEW p \in Port, Rank(p) < k + 1 PROVE p \in S
    <3>1. CASE p \in TxPort \cup HfrPort
      BY <3>1
    <3>2. CASE p \in Merge
      <4>1. /\ Rank(p) \in 1..(By + Bx + 1)
            /\ Rank(InA(p)) \in 0..(Rank(p) - 1)
            /\ Rank(InB(p)) \in 0..(Rank(p) - 1)
        BY <3>2, RanksDescend DEF RankDescends
      <4>2. Rank(InA(p)) < k /\ Rank(InB(p)) < k
        BY <2>1, <4>1, <1>0
      <4>3. InA(p) \in Port /\ InB(p) \in Port
        BY <3>2, MergeInputs DEF Feeds, Below
      <4>4. InA(p) \in S /\ InB(p) \in S
        BY <1>2, <4>2, <4>3
      <4> QED BY <3>2, <4>4
    <3> QED BY <3>1, <3>2 DEF Port
  <2> QED BY <2>1
<1>3. Nat \subseteq K
  <2> HIDE DEF K
  <2> QED BY <1>1, <1>2, SetInduction
<1>4. ASSUME NEW p \in Port PROVE p \in S
  <2>1. Rank(p) + 1 \in K /\ Rank(p) < Rank(p) + 1
    BY <1>3, RankBound, <1>0
  <2> QED BY <2>1
<1> QED BY <1>4

(***************************************************************************)
(* The recursive functions Wire and Ready satisfy their equations          *)
(***************************************************************************)
WireStep(w, p) ==
    CASE p[1] = "tx"  -> LET n == Tail(p) IN
                         IF pos[n] = 0 THEN <<>> ELSE <<Byte(n, Sent(n) + 1)>>
      [] p[1] = "hfr" -> IF p[2] < NL THEN up[p[2]] ELSE <<>>
      [] OTHER        -> LET a == w[InA(p)]
                             b == w[InB(p)]
                         IN  IF \/ state[p] = "A"
                                \/ state[p] = "IDLE" /\ Enter(p, a, b) = "A"
                             THEN a ELSE b

WireSolves(w, k) == /\ w = [p \in Port |-> w[p]]
                    /\ \A p \in Port : Rank(p) < k => w[p] = WireStep(w, p)

LEMMA WireStepLocal ==
    ASSUME NEW w, NEW v, NEW p \in Port,
           p \in Merge => w[InA(p)] = v[InA(p)] /\ w[InB(p)] = v[InB(p)]
    PROVE  WireStep(w, p) = WireStep(v, p)
<1>1. CASE p \in Merge
  BY <1>1, Kinds DEF WireStep, Merge
<1>2. CASE p \in TxPort
  BY <1>2, Kinds DEF WireStep
<1>3. CASE p \in HfrPort
  BY <1>3, Kinds DEF WireStep
<1> QED BY <1>1, <1>2, <1>3 DEF Port

LEMMA WireEquation == Wire = [p \in Port |-> WireStep(Wire, p)]
<1> DEFINE K == {k \in Nat : \E w : WireSolves(w, k)}
<1>0. By \in Nat /\ Bx \in Nat
  BY ReturnAssumption
<1>1. 0 \in K
  <2>1. \A p \in Port : ~(Rank(p) < 0)
    BY RankBound, <1>0
  <2>2. WireSolves([p \in Port |-> <<>>], 0)
    BY <2>1 DEF WireSolves
  <2> QED BY <2>2
<1>2. ASSUME NEW k \in Nat, k \in K PROVE k + 1 \in K
  <2>1. PICK w : WireSolves(w, k)
    BY <1>2
  <2> DEFINE v == [p \in Port |-> WireStep(w, p)]
  <2>2. ASSUME NEW p \in Port, Rank(p) < k + 1 PROVE v[p] = WireStep(v, p)
    <3>1. p \in Merge => w[InA(p)] = v[InA(p)] /\ w[InB(p)] = v[InB(p)]
      <4> SUFFICES ASSUME p \in Merge
                   PROVE  w[InA(p)] = v[InA(p)] /\ w[InB(p)] = v[InB(p)]
        OBVIOUS
      <4>1. /\ Rank(p) \in 1..(By + Bx + 1)
            /\ Rank(InA(p)) \in 0..(Rank(p) - 1)
            /\ Rank(InB(p)) \in 0..(Rank(p) - 1)
        BY RanksDescend DEF RankDescends
      <4>2. Rank(InA(p)) < k /\ Rank(InB(p)) < k
        BY <2>2, <4>1, <1>0
      <4>3. InA(p) \in Port /\ InB(p) \in Port
        BY MergeInputs DEF Feeds, Below
      <4> QED BY <2>1, <4>2, <4>3 DEF WireSolves
    <3>2. WireStep(w, p) = WireStep(v, p)
      <4> HIDE DEF v
      <4> QED BY <3>1, WireStepLocal
    <3> QED BY <3>2
  <2>3. v = [p \in Port |-> v[p]]
    OBVIOUS
  <2>4. WireSolves(v, k + 1)
    <3> HIDE DEF v
    <3> QED BY <2>2, <2>3 DEF WireSolves
  <2> QED BY <2>4
<1>3. Nat \subseteq K
  <2> HIDE DEF K
  <2> QED BY <1>1, <1>2, SetInduction
<1>4. PICK w : WireSolves(w, By + Bx + 2)
  <2>1. By + Bx + 2 \in K
    BY <1>3, <1>0
  <2> QED BY <2>1
<1>5. w = [p \in Port |-> WireStep(w, p)]
  <2>1. \A p \in Port : Rank(p) < By + Bx + 2
    BY RankBound, <1>0
  <2>2. \A p \in Port : w[p] = WireStep(w, p)
    BY <1>4, <2>1 DEF WireSolves
  <2>3. w = [p \in Port |-> w[p]]
    BY <1>4 DEF WireSolves
  <2> QED BY <2>2, <2>3
<1>6. Wire = CHOOSE f : f = [p \in Port |-> WireStep(f, p)]
  BY DEF Wire, WireStep
<1> QED BY <1>5, <1>6, Zenon

(* The readies come from the root: how far a port is from it.              *)
Away(p) == CASE p[1] = "up"  -> 2 * p[2] - 2
             [] p[1] = "hfr" -> 2 * p[2] - 1
             [] p[1] = "x"   -> 2 * NL + Bx - 2 - p[3]
             [] p[1] = "y"   -> 2 * NL + Bx + By - 2 - p[4]
             [] OTHER        -> 2 * NL + Bx + By

Farthest == 2 * NL + Bx + By

LEMMA AwayOfAboveColumn ==
    ASSUME NEW l \in Layer, NEW x \in Col
    PROVE  Away(AboveColumn(l, x)) \in 0..(2 * NL + Bx - 1)
<1>0. Bx \in Nat \ {0} /\ NL \in Nat \ {0} /\ l \in 1..NL /\ x \in 0..(Bx - 1)
  BY ReturnAssumption DEF Layer, Col
<1>1. CASE Bx > 1
  <2> DEFINE z == IF x = 0 THEN 0 ELSE x - 1
  <2>1. AboveColumn(l, x) = <<"x", l, z>> /\ z \in 0..(Bx - 2)
    BY <1>0, <1>1 DEF AboveColumn
  <2> HIDE DEF z
  <2>2. Away(<<"x", l, z>>) = 2 * NL + Bx - 2 - z
    BY DEF Away
  <2> QED BY <1>0, <1>1, <2>1, <2>2
<1>2. CASE ~(Bx > 1)
  <2>1. AboveColumn(l, x) = <<"up", l>>
    BY <1>2 DEF AboveColumn
  <2>2. Away(<<"up", l>>) = 2 * l - 2
    BY DEF Away
  <2> QED BY <1>0, <2>1, <2>2
<1> QED BY <1>1, <1>2

Nearer(p, q) == Away(p) \in 0..Farthest /\ Away(q) \in 0..(Away(p) - 1)

LEMMA AboveIsNearer == \A p \in Below : Nearer(p, Above(p))
<1>0. By \in Nat \ {0} /\ Bx \in Nat \ {0} /\ NL \in Nat \ {0}
  BY ReturnAssumption
<1>1. ASSUME NEW l \in Layer, NEW x \in Col, NEW y \in Row
      PROVE  Nearer(<<"tx", l, x, y>>, Above(<<"tx", l, x, y>>))
  <2> DEFINE p == <<"tx", l, x, y>>
  <2> SUFFICES Nearer(p, Above(p))
    OBVIOUS
  <2>1. Away(p) = 2 * NL + Bx + By
    BY DEF Away
  <2>2. CASE By > 1
    <3> DEFINE z == IF y = 0 THEN 0 ELSE y - 1
    <3>1. Above(p) = <<"y", l, x, z>> /\ z \in 0..(By - 2)
      BY <1>0, <2>2 DEF Above, Row
    <3> HIDE DEF z
    <3>2. Away(<<"y", l, x, z>>) = 2 * NL + Bx + By - 2 - z
      BY DEF Away
    <3> HIDE DEF p
    <3> QED BY <1>0, <2>1, <2>2, <3>1, <3>2 DEF Nearer, Farthest
  <2>3. CASE ~(By > 1)
    <3>1. Above(p) = AboveColumn(l, x)
      BY <2>3 DEF Above
    <3>2. Away(Above(p)) \in 0..(2 * NL + Bx - 1)
      BY <3>1, AwayOfAboveColumn
    <3> HIDE DEF p
    <3> QED BY <1>0, <2>1, <3>2 DEF Nearer, Farthest
  <2> QED BY <2>2, <2>3
<1>2. ASSUME NEW l \in Layer, NEW x \in Col, NEW y \in 0..(By - 2)
      PROVE  Nearer(<<"y", l, x, y>>, Above(<<"y", l, x, y>>))
  <2> DEFINE p == <<"y", l, x, y>>
  <2> SUFFICES Nearer(p, Above(p))
    OBVIOUS
  <2>1. Away(p) = 2 * NL + Bx + By - 2 - y
    BY DEF Away
  <2>2. CASE y < By - 2
    <3> DEFINE z == y + 1
    <3>1. Above(p) = <<"y", l, x, z>>
      BY <2>2 DEF Above
    <3>2. Away(<<"y", l, x, z>>) = 2 * NL + Bx + By - 2 - z
      BY DEF Away
    <3> HIDE DEF p
    <3> QED BY <1>0, <2>1, <2>2, <3>1, <3>2 DEF Nearer, Farthest
  <2>3. CASE ~(y < By - 2)
    <3>1. Above(p) = AboveColumn(l, x)
      BY <2>3 DEF Above
    <3>2. Away(Above(p)) \in 0..(2 * NL + Bx - 1)
      BY <3>1, AwayOfAboveColumn
    <3> HIDE DEF p
    <3> QED BY <1>0, <2>1, <2>3, <3>2 DEF Nearer, Farthest
  <2> QED BY <2>2, <2>3
<1>3. ASSUME NEW l \in Layer, NEW x \in 0..(Bx - 2)
      PROVE  Nearer(<<"x", l, x>>, Above(<<"x", l, x>>))
  <2> DEFINE p == <<"x", l, x>>
  <2> SUFFICES Nearer(p, Above(p))
    OBVIOUS
  <2>1. Away(p) = 2 * NL + Bx - 2 - x
    BY DEF Away
  <2>2. CASE x < Bx - 2
    <3> DEFINE z == x + 1
    <3>1. Above(p) = <<"x", l, z>>
      BY <2>2 DEF Above
    <3>2. Away(<<"x", l, z>>) = 2 * NL + Bx - 2 - z
      BY DEF Away
    <3> HIDE DEF p
    <3> QED BY <1>0, <2>1, <2>2, <3>1, <3>2 DEF Nearer, Farthest
  <2>3. CASE ~(x < Bx - 2)
    <3>1. Above(p) = <<"up", l>>
      BY <2>3 DEF Above
    <3>2. Away(<<"up", l>>) = 2 * l - 2
      BY DEF Away
    <3> HIDE DEF p
    <3>3. l \in 1..NL
      BY DEF Layer
    <3> QED BY <1>0, <2>1, <2>3, <3>1, <3>2, <3>3 DEF Nearer, Farthest
  <2> QED BY <2>2, <2>3
<1>4. ASSUME NEW l \in Layer PROVE Nearer(<<"hfr", l>>, Above(<<"hfr", l>>))
  <2>1. Above(<<"hfr", l>>) = <<"up", l>>
    BY DEF Above
  <2>2. Away(<<"up", l>>) = 2 * l - 2 /\ Away(<<"hfr", l>>) = 2 * l - 1
    BY DEF Away
  <2>3. l \in 1..NL
    BY DEF Layer
  <2> QED BY <1>0, <2>1, <2>2, <2>3 DEF Nearer, Farthest
<1> QED BY <1>1, <1>2, <1>3, <1>4, KindsOfPort, BelowKinds

(* The merge of the layer below hands its ready to the register above it.  *)
SpineNext(p) == <<"hfr", p[2] - 1>>

LEMMA SpineIsNearer ==
    ASSUME NEW l \in Layer
    PROVE  /\ Away(<<"up", l>>) \in 0..Farthest
           /\ l > 1 => /\ SpineNext(<<"up", l>>) \in HfrPort
                       /\ Nearer(<<"up", l>>, SpineNext(<<"up", l>>))
<1>0. By \in Nat \ {0} /\ Bx \in Nat \ {0} /\ NL \in Nat \ {0} /\ l \in 1..NL
  BY ReturnAssumption DEF Layer
<1>1. Away(<<"up", l>>) = 2 * l - 2 /\ Away(<<"hfr", l - 1>>) = 2 * (l - 1) - 1
  BY DEF Away
<1>2. SpineNext(<<"up", l>>) = <<"hfr", l - 1>>
  BY DEF SpineNext
<1>3. l > 1 => l - 1 \in Layer
  BY <1>0 DEF Layer
<1>4. l > 1 => <<"hfr", l - 1>> \in HfrPort
  BY <1>3, PortKinds
<1> QED BY <1>0, <1>1, <1>2, <1>4 DEF Nearer, Farthest

ReadyStep(r, p) ==
    CASE p = <<"up", 1>> -> TRUE
      [] p[1] = "up" /\ p[2] > 1 -> HfrReady(p[2] - 1, r[<<"hfr", p[2] - 1>>])
      [] OTHER -> LET m == Into[p] IN
                  /\ r[m] \/ Wire[m] = <<>>
                  /\ Granted(m) = Side[p]

ReadySolves(r, k) == /\ r = [p \in Port |-> r[p]]
                     /\ \A p \in Port : Away(p) < k => r[p] = ReadyStep(r, p)

(* What Ready[p] looks at.                                                 *)
Follows(p, q) == \/ p \in Below /\ q = Above(p)
                 \/ p \in UpMerge /\ p[2] > 1 /\ q = SpineNext(p)

LEMMA ReadyStepLocal ==
    ASSUME NEW r, NEW s, NEW p \in Port,
           \A q \in Port : Follows(p, q) => r[q] = s[q]
    PROVE  ReadyStep(r, p) = ReadyStep(s, p)
<1>1. CASE p \in Below
  <2>1. p[1] # "up"
    BY <1>1, BelowKinds, Kinds
  <2>2. p # <<"up", 1>>
    BY <2>1
  <2>3. Into[p] = Above(p) /\ Above(p) \in Port
    BY <1>1, IntoSide, PortLeads DEF Leads, Port
  <2>4. r[Above(p)] = s[Above(p)]
    BY <1>1, <2>3 DEF Follows
  <2> QED BY <2>1, <2>2, <2>3, <2>4 DEF ReadyStep
<1>2. CASE p \in UpMerge
  <2>1. PICK l \in Layer : p = <<"up", l>>
    BY <1>2, KindsOfPort
  <2>0. l \in Nat \ {0}
    BY ReturnAssumption DEF Layer
  <2>2. CASE l = 1
    BY <2>1, <2>2 DEF ReadyStep
  <2>3. CASE l > 1
    <3>1. SpineNext(p) \in Port /\ SpineNext(p) = <<"hfr", l - 1>> /\ p[2] = l
      BY <2>1, <2>3, SpineIsNearer DEF Port, SpineNext
    <3>2. r[<<"hfr", l - 1>>] = s[<<"hfr", l - 1>>]
      BY <1>2, <2>3, <3>1 DEF Follows
    <3>3. p # <<"up", 1>> /\ p[1] = "up" /\ p[2] > 1
      BY <2>1, <2>3
    <3> QED BY <3>1, <3>2, <3>3 DEF ReadyStep
  <2> QED BY <2>0, <2>2, <2>3
<1> QED BY <1>1, <1>2 DEF Below

LEMMA FollowsIsNearer ==
    ASSUME NEW p \in Port, NEW q \in Port, Follows(p, q)
    PROVE  Nearer(p, q)
<1>1. CASE p \in Below /\ q = Above(p)
  BY <1>1, AboveIsNearer
<1>2. CASE p \in UpMerge /\ p[2] > 1 /\ q = SpineNext(p)
  <2>1. PICK l \in Layer : p = <<"up", l>>
    BY <1>2, KindsOfPort
  <2>2. p[2] = l
    BY <2>1
  <2> QED BY <1>2, <2>1, <2>2, SpineIsNearer
<1> QED BY <1>1, <1>2 DEF Follows

LEMMA AwayBound == \A p \in Port : Away(p) \in 0..Farthest
<1>1. \A p \in Below : Away(p) \in 0..Farthest
  BY AboveIsNearer DEF Nearer
<1>2. \A p \in UpMerge : Away(p) \in 0..Farthest
  BY SpineIsNearer, KindsOfPort
<1> QED BY <1>1, <1>2 DEF Below

LEMMA ReadyEquation == Ready = [p \in Port |-> ReadyStep(Ready, p)]
<1> DEFINE K == {k \in Nat : \E r : ReadySolves(r, k)}
<1>0. Farthest \in Nat
  BY ReturnAssumption DEF Farthest
<1>1. 0 \in K
  <2>1. \A p \in Port : ~(Away(p) < 0)
    BY AwayBound, <1>0
  <2>2. ReadySolves([p \in Port |-> TRUE], 0)
    BY <2>1 DEF ReadySolves
  <2> QED BY <2>2
<1>2. ASSUME NEW k \in Nat, k \in K PROVE k + 1 \in K
  <2>1. PICK r : ReadySolves(r, k)
    BY <1>2
  <2> DEFINE s == [p \in Port |-> ReadyStep(r, p)]
  <2>2. ASSUME NEW p \in Port, Away(p) < k + 1 PROVE s[p] = ReadyStep(s, p)
    <3>1. ASSUME NEW q \in Port, Follows(p, q) PROVE r[q] = s[q]
      <4>1. Nearer(p, q)
        BY <3>1, FollowsIsNearer
      <4>2. Away(q) < k
        BY <2>2, <4>1, <1>0 DEF Nearer
      <4> QED BY <2>1, <4>2 DEF ReadySolves
    <3>2. ReadyStep(r, p) = ReadyStep(s, p)
      <4> HIDE DEF s
      <4> QED BY <3>1, ReadyStepLocal
    <3> QED BY <3>2
  <2>3. s = [p \in Port |-> s[p]]
    OBVIOUS
  <2>4. ReadySolves(s, k + 1)
    <3> HIDE DEF s
    <3> QED BY <2>2, <2>3 DEF ReadySolves
  <2> QED BY <2>4
<1>3. Nat \subseteq K
  <2> HIDE DEF K
  <2> QED BY <1>1, <1>2, SetInduction
<1>4. PICK r : ReadySolves(r, Farthest + 1)
  <2>1. Farthest + 1 \in K
    BY <1>3, <1>0
  <2> QED BY <2>1
<1>5. r = [p \in Port |-> ReadyStep(r, p)]
  <2>1. \A p \in Port : Away(p) < Farthest + 1
    BY AwayBound, <1>0
  <2>2. \A p \in Port : r[p] = ReadyStep(r, p)
    BY <1>4, <2>1 DEF ReadySolves
  <2>3. r = [p \in Port |-> r[p]]
    BY <1>4 DEF ReadySolves
  <2> QED BY <2>2, <2>3
<1>6. Ready = CHOOSE f : f = [p \in Port |-> ReadyStep(f, p)]
  BY DEF Ready, ReadyStep
<1> QED BY <1>5, <1>6, Zenon

(***************************************************************************)
(* Types                                                                   *)
(***************************************************************************)
RetByte == [node : Node, k : Nat]
Slot    == {<<>>} \cup {<<b>> : b \in RetByte}

StateOK ==
    /\ pos \in [Node -> 0..EchoLen]
    /\ echo \in [Node -> Nat]
    /\ \A n \in Node : echo[n] <= Echoes[n] /\ (pos[n] # 0 => echo[n] >= 1)
    /\ state \in [Merge -> {"IDLE", "A", "B"}]
    /\ pri \in [Merge -> {"A", "B"}]
    /\ up \in [1..(NL - 1) -> Slot]
    /\ last \in Slot
    /\ host \in [Node -> Nat]

LEMMA SlotFacts ==
    /\ <<>> \in Slot
    /\ \A b \in RetByte : <<b>> \in Slot /\ <<b>> # <<>>
    /\ \A w \in Slot : w # <<>> => w[1] \in RetByte /\ w = <<w[1]>> /\ Len(w) = 1
    /\ \A w \in Slot : w \in Seq(RetByte) /\ Len(w) <= 1
<1>1. \A b \in RetByte : <<b>> # <<>> /\ Len(<<b>>) = 1 /\ <<b>>[1] = b /\ <<b>> \in Seq(RetByte)
  OBVIOUS
<1>2. Len(<<>>) = 0 /\ <<>> \in Seq(RetByte)
  OBVIOUS
<1>3. <<>> \in Slot /\ \A b \in RetByte : <<b>> \in Slot
  BY DEF Slot
<1>4. ASSUME NEW w \in Slot
      PROVE  /\ w # <<>> => w[1] \in RetByte /\ w = <<w[1]>> /\ Len(w) = 1
             /\ w \in Seq(RetByte) /\ Len(w) <= 1
  <2>1. CASE w = <<>>
    BY <1>2, <2>1
  <2>2. CASE w # <<>>
    <3>1. PICK b \in RetByte : w = <<b>>
      BY <2>2 DEF Slot
    <3> QED BY <1>1, <3>1
  <2> QED BY <2>1, <2>2
<1> QED BY <1>1, <1>3, <1>4

LEMMA ByteType == \A n \in Node, j \in Nat : Byte(n, j) \in RetByte /\ Byte(n, j).node = n /\ Byte(n, j).k = j
  BY DEF Byte, RetByte

(* Where in its echo a byte stands.                                        *)
LEMMA ByteEnds ==
    ASSUME NEW n \in Node, NEW q \in Nat, NEW j \in 1..EchoLen
    PROVE  /\ sop(Byte(n, q * EchoLen + j)) <=> j = 1
           /\ eop(Byte(n, q * EchoLen + j)) <=> j = EchoLen
<1>0. EchoLen \in Nat \ {0} /\ EchoLen >= 2 /\ j \in Nat
  BY ReturnAssumption
<1>1. CASE j < EchoLen
  <2>1. j \in 0..(EchoLen - 1)
    BY <1>0, <1>1
  <2>2. (q * EchoLen + j) % EchoLen = j
    BY <1>0, <2>1, ModUnique
  <2>3. Byte(n, q * EchoLen + j).k % EchoLen = j
    BY <2>2 DEF Byte
  <2> QED BY <1>0, <1>1, <2>3 DEF sop, eop
<1>2. CASE j = EchoLen
  <2>1. q * EchoLen + EchoLen = (q + 1) * EchoLen + 0 /\ q + 1 \in Nat /\ 0 \in 0..(EchoLen - 1)
    BY <1>0
  <2>2. ((q + 1) * EchoLen + 0) % EchoLen = 0
    BY <1>0, <2>1, ModUnique
  <2>3. Byte(n, q * EchoLen + j).k % EchoLen = 0
    BY <1>2, <2>1, <2>2 DEF Byte
  <2> QED BY <1>0, <1>2, <2>3 DEF sop, eop
<1> QED BY <1>0, <1>1, <1>2

(* The byte on a node's port.                                              *)
TxByte(n) == Byte(n, Sent(n) + 1)

LEMMA TxByteEnds ==
    ASSUME StateOK, NEW n \in Node, pos[n] # 0
    PROVE  /\ TxByte(n) = Byte(n, (echo[n] - 1) * EchoLen + pos[n])
           /\ TxByte(n) \in RetByte /\ TxByte(n).node = n
           /\ sop(TxByte(n)) <=> pos[n] = 1
           /\ eop(TxByte(n)) <=> pos[n] = EchoLen
<1>0. EchoLen \in Nat \ {0} /\ echo[n] - 1 \in Nat /\ pos[n] \in 1..EchoLen /\ pos[n] \in Nat
  BY ReturnAssumption DEF StateOK
<1>1. PICK q \in Nat : q = echo[n] - 1
  BY <1>0
<1>2. PICK j \in 1..EchoLen : j = pos[n]
  BY <1>0
<1>3. q * EchoLen \in Nat
  BY <1>0
<1>4. Sent(n) = q * EchoLen + j - 1
  BY <1>1, <1>2 DEF Sent
<1>5. Sent(n) + 1 = q * EchoLen + j /\ Sent(n) + 1 \in Nat
  BY <1>0, <1>3, <1>4
<1>6. TxByte(n) = Byte(n, q * EchoLen + j)
  BY <1>5 DEF TxByte
<1>7. TxByte(n) \in RetByte /\ TxByte(n).node = n
  BY <1>5, ByteType DEF TxByte
<1> QED BY <1>1, <1>2, <1>6, <1>7, ByteEnds

(***************************************************************************)
(* What the wires and the readies are                                      *)
(***************************************************************************)
LEMMA WireTx ==
    ASSUME NEW n \in Node
    PROVE  Wire[TxOf(n)] = IF pos[n] = 0 THEN <<>> ELSE <<TxByte(n)>>
<1>1. TxOf(n) \in Port /\ TxOf(n)[1] = "tx" /\ Tail(TxOf(n)) = n
  BY TxOfNode DEF Port
<1>2. Wire[TxOf(n)] = WireStep(Wire, TxOf(n))
  BY <1>1, WireEquation
<1>3. WireStep(Wire, TxOf(n)) = IF pos[n] = 0 THEN <<>> ELSE <<Byte(n, Sent(n) + 1)>>
  BY <1>1 DEF WireStep
<1> QED BY <1>2, <1>3 DEF TxByte

LEMMA WireHfr ==
    ASSUME NEW l \in Layer
    PROVE  Wire[<<"hfr", l>>] = IF l < NL THEN up[l] ELSE <<>>
<1>1. <<"hfr", l>> \in Port
  BY PortKinds DEF Port
<1>2. Wire[<<"hfr", l>>] = WireStep(Wire, <<"hfr", l>>)
  BY <1>1, WireEquation
<1>3. WireStep(Wire, <<"hfr", l>>) = IF l < NL THEN up[l] ELSE <<>>
  BY DEF WireStep
<1> QED BY <1>2, <1>3

(* A merge puts the byte of the granted input on its output.               *)
Serves(m) ==
    /\ Granted(m) \in {"IDLE", "A", "B"}
    /\ Granted(m) = "A" => Wire[m] = Wire[InA(m)]
    /\ Granted(m) = "B" => Wire[m] = Wire[InB(m)]
    /\ Granted(m) = "IDLE" => /\ state[m] = "IDLE"
                              /\ Wire[m] = <<>> /\ Wire[InA(m)] = <<>> /\ Wire[InB(m)] = <<>>
    /\ state[m] # "IDLE" => Granted(m) = state[m]
    /\ state[m] = "IDLE" /\ Granted(m) = "A" => Wire[InA(m)] # <<>>
    /\ state[m] = "IDLE" /\ Granted(m) = "B" => Wire[InB(m)] # <<>>

LEMMA MergeServes ==
    ASSUME StateOK
    PROVE  \A m \in Merge : Serves(m)
<1> SUFFICES ASSUME NEW m \in Merge PROVE Serves(m)
  OBVIOUS
<1>0. state[m] \in {"IDLE", "A", "B"} /\ pri[m] \in {"A", "B"}
  BY DEF StateOK
<1>1. PICK a : a = Wire[InA(m)]
  OBVIOUS
<1>2. PICK b : b = Wire[InB(m)]
  OBVIOUS
<1>3. m[1] \notin {"tx", "hfr"} /\ m \in Port
  BY Kinds DEF Merge, Port
<1>4. Wire[m] = WireStep(Wire, m)
  BY <1>3, WireEquation
<1>5. WireStep(Wire, m) = IF state[m] = "A" \/ (state[m] = "IDLE" /\ Enter(m, a, b) = "A")
                          THEN a ELSE b
  BY <1>1, <1>2, <1>3 DEF WireStep
<1>6. Granted(m) = IF state[m] = "IDLE" THEN Enter(m, a, b) ELSE state[m]
  BY <1>1, <1>2 DEF Granted
<1>7. /\ Enter(m, a, b) \in {"IDLE", "A", "B"}
      /\ Enter(m, a, b) = "A" => a # <<>>
      /\ Enter(m, a, b) = "B" => b # <<>>
      /\ Enter(m, a, b) = "IDLE" => a = <<>> /\ b = <<>>
  BY <1>0 DEF Enter
<1>8. CASE state[m] = "IDLE"
  BY <1>1, <1>2, <1>4, <1>5, <1>6, <1>7, <1>8 DEF Serves
<1>9. CASE state[m] = "A"
  BY <1>1, <1>2, <1>4, <1>5, <1>6, <1>9 DEF Serves
<1>10. CASE state[m] = "B"
  BY <1>1, <1>2, <1>4, <1>5, <1>6, <1>10 DEF Serves
<1> QED BY <1>0, <1>8, <1>9, <1>10

LEMMA WireType ==
    ASSUME StateOK
    PROVE  \A p \in Port : Wire[p] \in Slot
<1> DEFINE S == {p \in Port : Wire[p] \in Slot}
<1>1. ASSUME NEW p \in TxPort PROVE p \in S
  <2>1. PICK n \in Node : p = TxOf(n)
    BY DEF TxPort, TxOf
  <2>2. p \in Port
    BY DEF Port
  <2> QED BY <2>1, <2>2, WireTx, TxByteEnds, SlotFacts
<1>2. ASSUME NEW p \in HfrPort PROVE p \in S
  <2>1. PICK l \in Layer : p = <<"hfr", l>>
    BY KindsOfPort
  <2>2. p \in Port
    BY DEF Port
  <2>3. l < NL => up[l] \in Slot
    BY ReturnAssumption DEF StateOK, Layer
  <2> QED BY <2>1, <2>2, <2>3, WireHfr, SlotFacts
<1>3. ASSUME NEW m \in Merge, InA(m) \in S, InB(m) \in S PROVE m \in S
  <2>1. Serves(m) /\ m \in Port
    BY MergeServes DEF Port
  <2> QED BY <1>3, <2>1, SlotFacts DEF Serves
<1>4. Port \subseteq S
  <2> HIDE DEF S
  <2> QED BY <1>1, <1>2, <1>3, PortInduction
<1> QED BY <1>4

(* A port below a merge is ready when the merge is and has granted it.     *)
LEMMA ReadyBelow ==
    ASSUME NEW m \in Merge
    PROVE  /\ Ready[InA(m)] <=> Advance(m) /\ Granted(m) = "A"
           /\ Ready[InB(m)] <=> Advance(m) /\ Granted(m) = "B"
<1>1. ASSUME NEW p \in Below, Above(p) = m
      PROVE  Ready[p] <=> Advance(m) /\ Granted(m) = Side[p]
  <2>1. p \in Port /\ p[1] # "up" /\ Into[p] = m
    BY <1>1, BelowKinds, Kinds, IntoSide DEF Below
  <2>2. p # <<"up", 1>>
    BY <2>1
  <2>3. Ready[p] = ReadyStep(Ready, p)
    BY <2>1, ReadyEquation
  <2>4. ReadyStep(Ready, p) = ((Ready[m] \/ Wire[m] = <<>>) /\ Granted(m) = Side[p])
    BY <2>1, <2>2 DEF ReadyStep
  <2> QED BY <2>3, <2>4 DEF Advance
<1>2. Feeds(m) /\ Side[InA(m)] = "A" /\ Side[InB(m)] = "B"
  BY MergeInputs, IntoSide
<1> QED BY <1>1, <1>2 DEF Feeds

LEMMA ReadyUp ==
    /\ Ready[<<"up", 1>>]
    /\ \A l \in 1..(NL - 1) : Ready[<<"up", l + 1>>] <=> HfrReady(l, Ready[<<"hfr", l>>])
<1>0. NL \in Nat \ {0}
  BY ReturnAssumption
<1>1. <<"up", 1>> \in Port
  <2>1. 1 \in Layer
    BY <1>0 DEF Layer
  <2> QED BY <2>1, PortKinds DEF Port, Merge
<1>2. Ready[<<"up", 1>>]
  BY <1>1, ReadyEquation DEF ReadyStep
<1>3. ASSUME NEW l \in 1..(NL - 1)
      PROVE  Ready[<<"up", l + 1>>] <=> HfrReady(l, Ready[<<"hfr", l>>])
  <2> DEFINE p == <<"up", l + 1>>
  <2>1. l + 1 \in Layer /\ l + 1 > 1 /\ l + 1 # 1 /\ (l + 1) - 1 = l
    BY <1>0 DEF Layer
  <2>2. p \in Port
    BY <2>1, PortKinds DEF Port, Merge
  <2>3. Ready[p] = ReadyStep(Ready, p)
    BY <2>2, ReadyEquation
  <2>4. p # <<"up", 1>> /\ p[1] = "up" /\ p[2] = l + 1
    BY <2>1
  <2>5. ReadyStep(Ready, p) = HfrReady(p[2] - 1, Ready[<<"hfr", p[2] - 1>>])
    BY <2>1, <2>4 DEF ReadyStep
  <2>6. p[2] - 1 = l
    BY <2>1, <2>4
  <2> QED BY <2>3, <2>5, <2>6
<1> QED BY <1>2, <1>3

(* A byte moves from a port in this cycle.                                 *)
Moves(p) == Wire[p] # <<>> /\ Ready[p]

MovesThrough(m) ==
    /\ ~Advance(m) => ~Moves(InA(m)) /\ ~Moves(InB(m)) /\ ~Moves(m)
    /\ Advance(m) => /\ Moves(InA(m)) <=> Granted(m) = "A" /\ Wire[InA(m)] # <<>>
                     /\ Moves(InB(m)) <=> Granted(m) = "B" /\ Wire[InB(m)] # <<>>
                     /\ Moves(m) <=> Wire[m] # <<>>

LEMMA MergeMoves == \A m \in Merge : MovesThrough(m)
  BY ReadyBelow DEF MovesThrough, Moves, Advance

(***************************************************************************)
(* A step keeps the types                                                  *)
(***************************************************************************)
MayStart == {n \in Node : pos[n] = 0 /\ echo[n] < Echoes[n]}

LEMMA StepTx ==
    ASSUME StateOK, NEW S \in SUBSET MayStart, Clock(S), NEW n \in Node
    PROVE  /\ n \in S => pos[n] = 0 /\ pos'[n] = 1 /\ echo'[n] = echo[n] + 1
           /\ n \notin S => echo'[n] = echo[n]
           /\ n \notin S /\ ~Moves(TxOf(n)) => pos'[n] = pos[n]
           /\ n \notin S /\ Moves(TxOf(n)) =>
                /\ pos[n] # 0
                /\ pos'[n] = IF pos[n] = EchoLen THEN 0 ELSE pos[n] + 1
           /\ Moves(TxOf(n)) => n \notin S
           /\ pos'[n] \in 0..EchoLen
<1>1. /\ pos'[n] = IF n \in S THEN 1 ELSE NextPos(n)
      /\ echo'[n] = IF n \in S THEN echo[n] + 1 ELSE echo[n]
  BY DEF Clock
<1>2. n \in S => pos[n] = 0
  BY DEF MayStart
<1>3. Wire[TxOf(n)] # <<>> <=> pos[n] # 0
  <2>1. <<TxByte(n)>> # <<>>
    OBVIOUS
  <2> QED BY <2>1, WireTx
<1>4. NextPos(n) = IF pos[n] = 0 \/ ~Ready[TxOf(n)] THEN pos[n]
                   ELSE IF pos[n] = EchoLen THEN 0 ELSE pos[n] + 1
  BY TxOfNode DEF NextPos
<1>5. pos[n] \in 0..EchoLen /\ EchoLen \in Nat /\ EchoLen >= 2
  BY ReturnAssumption DEF StateOK
<1>6. CASE n \in S
  BY <1>1, <1>2, <1>3, <1>5, <1>6 DEF Moves
<1>7. CASE n \notin S
  BY <1>1, <1>3, <1>4, <1>5, <1>7 DEF Moves
<1> QED BY <1>6, <1>7

LEMMA StepUp ==
    ASSUME NEW S, Clock(S), NEW l \in 1..(NL - 1)
    PROVE  up'[l] = IF Ready[<<"up", l + 1>>] THEN Wire[<<"up", l + 1>>] ELSE up[l]
<1>1. up'[l] = IF HfrReady(l, Ready[<<"hfr", l>>]) THEN Wire[<<"up", l + 1>>] ELSE up[l]
  BY DEF Clock
<1> QED BY <1>1, ReadyUp

LEMMA StepMerge ==
    ASSUME NEW S, Clock(S), NEW m \in Merge
    PROVE  /\ state'[m] = IF Advance(m) THEN NextState(m) ELSE state[m]
           /\ pri'[m] = IF Advance(m) THEN NextPri(m) ELSE pri[m]
  BY DEF Clock

LEMMA UpPorts ==
    /\ <<"up", 1>> \in Port
    /\ \A l \in 1..(NL - 1) : <<"up", l + 1>> \in Port /\ <<"hfr", l>> \in Port
<1>1. 1 \in Layer /\ \A l \in 1..(NL - 1) : l + 1 \in Layer /\ l \in Layer
  BY ReturnAssumption DEF Layer
<1> QED BY <1>1, PortKinds DEF Port, Merge

LEMMA StepRoot ==
    ASSUME StateOK, NEW S, Clock(S)
    PROVE  /\ Wire[<<"up", 1>>] = <<>> => last' = last /\ host' = host
           /\ Wire[<<"up", 1>>] # <<>> =>
                /\ last' = Wire[<<"up", 1>>]
                /\ Wire[<<"up", 1>>][1] \in RetByte
                /\ host' = [host EXCEPT ![Wire[<<"up", 1>>][1].node] = @ + 1]
<1>1. Wire[<<"up", 1>>] \in Slot
  BY UpPorts, WireType
<1>2. CASE Wire[<<"up", 1>>] = <<>>
  BY <1>2 DEF Clock
<1>3. CASE Wire[<<"up", 1>>] # <<>>
  <2>1. last' = Wire[<<"up", 1>>] /\ host' = [host EXCEPT ![last'[1].node] = @ + 1]
    BY <1>3 DEF Clock
  <2> QED BY <1>1, <1>3, <2>1, SlotFacts
<1> QED BY <1>2, <1>3

LEMMA StepTypes ==
    ASSUME StateOK, NEW S \in SUBSET MayStart, Clock(S)
    PROVE  StateOK'
<1>1. pos' \in [Node -> 0..EchoLen]
  BY StepTx DEF Clock
<1>2. /\ echo' \in [Node -> Nat]
      /\ \A n \in Node : echo'[n] <= Echoes[n] /\ (pos'[n] # 0 => echo'[n] >= 1)
  <2>1. echo' = [n \in Node |-> echo'[n]]
    BY DEF Clock
  <2>2. ASSUME NEW n \in Node
        PROVE  echo'[n] \in Nat /\ echo'[n] <= Echoes[n] /\ (pos'[n] # 0 => echo'[n] >= 1)
    <3>1. /\ echo[n] \in Nat /\ Echoes[n] \in Nat /\ echo[n] <= Echoes[n]
          /\ pos[n] # 0 => echo[n] >= 1
      BY ReturnAssumption DEF StateOK
    <3>2. CASE n \in S
      <4>1. echo[n] < Echoes[n]
        BY <3>2 DEF MayStart
      <4> QED BY <3>1, <3>2, <4>1, StepTx
    <3>3. CASE n \notin S
      BY <3>1, <3>3, StepTx
    <3> QED BY <3>2, <3>3
  <2> QED BY <2>1, <2>2
<1>3. state' \in [Merge -> {"IDLE", "A", "B"}]
  <2>1. \A m \in Merge : NextState(m) \in {"IDLE", "A", "B"}
    BY MergeServes DEF NextState, Serves, StateOK
  <2> QED BY <2>1 DEF Clock, StateOK
<1>4. pri' \in [Merge -> {"A", "B"}]
  <2>1. \A m \in Merge : NextPri(m) \in {"A", "B"}
    BY DEF NextPri, StateOK
  <2> QED BY <2>1 DEF Clock, StateOK
<1>5. up' \in [1..(NL - 1) -> Slot]
  <2>1. \A l \in 1..(NL - 1) : up'[l] \in Slot
    BY StepUp, UpPorts, WireType DEF StateOK
  <2>2. up' = [l \in 1..(NL - 1) |-> up'[l]]
    BY DEF Clock
  <2> QED BY <2>1, <2>2
<1>6. last' \in Slot
  BY StepRoot, UpPorts, WireType DEF StateOK
<1>7. host' \in [Node -> Nat]
  <2>1. CASE Wire[<<"up", 1>>] = <<>>
    BY <2>1, StepRoot DEF StateOK
  <2>2. CASE Wire[<<"up", 1>>] # <<>>
    <3>1. PICK n \in Node : n = Wire[<<"up", 1>>][1].node
      BY <2>2, StepRoot DEF RetByte
    <3>2. host' = [host EXCEPT ![n] = @ + 1]
      BY <2>2, <3>1, StepRoot
    <3> QED BY <3>2 DEF StateOK
  <2> QED BY <2>1, <2>2
<1> QED BY <1>1, <1>2, <1>3, <1>4, <1>5, <1>6, <1>7 DEF StateOK

(***************************************************************************)
(* Whose turn it is                                                        *)
(*                                                                         *)
(* at[p] is what port p must carry next: the byte that continues the       *)
(* packet it is in the middle of, or, between packets, <<>>: a head.       *)
(***************************************************************************)
After(w) == IF eop(w[1]) THEN <<>> ELSE <<Byte(w[1].node, w[1].k + 1)>>

Fits(w, c) == w # <<>> => IF c = <<>> THEN sop(w[1]) ELSE w = c

Owed(n) == IF pos[n] \in {0, 1} THEN <<>> ELSE <<TxByte(n)>>

(* A register with w in it, between the port that fills it, which must     *)
(* carry d next, and the port it drives, which must carry c next.          *)
Linked(w, c, d) == IF w = <<>> THEN d = c ELSE Fits(w, c) /\ d = After(w)

(* A merge in state s: only the input it serves can be inside a packet.    *)
TurnOK(s, a, b, c) == /\ s = "IDLE" => a = <<>> /\ b = <<>> /\ c = <<>>
                      /\ s = "A" => b = <<>> /\ c = a
                      /\ s = "B" => a = <<>> /\ c = b

Cursors(at) ==
    /\ at \in [Port -> Slot]
    /\ \A n \in Node : at[TxOf(n)] = Owed(n)
    /\ \A l \in 1..(NL - 1) : Linked(up[l], at[<<"hfr", l>>], at[<<"up", l + 1>>])
    /\ at[<<"hfr", NL>>] = <<>>
    /\ \A m \in Merge : TurnOK(state[m], at[InA(m)], at[InB(m)], at[m])
    /\ at[<<"up", 1>>] = IF last = <<>> THEN <<>> ELSE After(last)

LEMMA AfterType ==
    ASSUME NEW w \in Slot, w # <<>>
    PROVE  After(w) \in Slot
<1>1. w[1] \in RetByte
  BY SlotFacts
<1>2. w[1].node \in Node /\ w[1].k + 1 \in Nat
  BY <1>1 DEF RetByte
<1> QED BY <1>2, ByteType, SlotFacts DEF After

LEMMA HeadNotTail == \A b \in RetByte : sop(b) => ~eop(b)
  BY DEF sop, eop

(* Every byte on a wire is the one its port must carry next.               *)
LEMMA AllFit ==
    ASSUME StateOK, NEW at, Cursors(at)
    PROVE  \A p \in Port : Fits(Wire[p], at[p])
<1> DEFINE F == {p \in Port : Fits(Wire[p], at[p])}
<1>1. ASSUME NEW p \in TxPort PROVE p \in F
  <2>1. PICK n \in Node : p = TxOf(n)
    BY DEF TxPort, TxOf
  <2>2. p \in Port
    BY DEF Port
  <2>3. at[p] = Owed(n) /\ Wire[p] = IF pos[n] = 0 THEN <<>> ELSE <<TxByte(n)>>
    BY <2>1, WireTx DEF Cursors
  <2>4. CASE pos[n] = 0
    BY <2>2, <2>3, <2>4 DEF Fits
  <2>5. CASE pos[n] = 1
    <3>1. sop(TxByte(n)) /\ Wire[p][1] = TxByte(n) /\ at[p] = <<>>
      BY <2>3, <2>5, TxByteEnds DEF Owed
    <3> QED BY <2>2, <3>1 DEF Fits
  <2>6. CASE pos[n] \notin {0, 1}
    <3>1. Wire[p] = <<TxByte(n)>> /\ at[p] = <<TxByte(n)>> /\ <<TxByte(n)>> # <<>>
      BY <2>3, <2>6 DEF Owed
    <3> QED BY <2>2, <3>1 DEF Fits
  <2> QED BY <2>4, <2>5, <2>6
<1>2. ASSUME NEW p \in HfrPort PROVE p \in F
  <2>1. PICK l \in Layer : p = <<"hfr", l>>
    BY KindsOfPort
  <2>2. p \in Port
    BY DEF Port
  <2>3. Wire[p] = IF l < NL THEN up[l] ELSE <<>>
    BY <2>1, WireHfr
  <2>4. CASE l < NL
    <3>1. l \in 1..(NL - 1)
      BY <2>4, ReturnAssumption DEF Layer
    <3>2. Linked(up[l], at[p], at[<<"up", l + 1>>])
      BY <2>1, <3>1 DEF Cursors
    <3> QED BY <2>2, <2>3, <2>4, <3>2 DEF Linked, Fits
  <2>5. CASE ~(l < NL)
    BY <2>2, <2>3, <2>5 DEF Fits
  <2> QED BY <2>4, <2>5
<1>3. ASSUME NEW m \in Merge, InA(m) \in F, InB(m) \in F PROVE m \in F
  <2>1. Serves(m) /\ m \in Port
    BY MergeServes DEF Port
  <2>2. TurnOK(state[m], at[InA(m)], at[InB(m)], at[m])
    BY DEF Cursors
  <2>3. state[m] \in {"IDLE", "A", "B"}
    BY DEF StateOK
  <2>4. CASE Granted(m) = "A"
    <3>1. Wire[m] = Wire[InA(m)] /\ at[m] = at[InA(m)]
      BY <2>1, <2>2, <2>3, <2>4 DEF Serves, TurnOK
    <3> QED BY <1>3, <2>1, <3>1
  <2>5. CASE Granted(m) = "B"
    <3>1. Wire[m] = Wire[InB(m)] /\ at[m] = at[InB(m)]
      BY <2>1, <2>2, <2>3, <2>5 DEF Serves, TurnOK
    <3> QED BY <1>3, <2>1, <3>1
  <2>6. CASE Granted(m) = "IDLE"
    BY <2>1, <2>6 DEF Serves, Fits
  <2> QED BY <2>1, <2>4, <2>5, <2>6 DEF Serves
<1>4. Port \subseteq F
  <2> HIDE DEF F
  <2> QED BY <1>1, <1>2, <1>3, PortInduction
<1> QED BY <1>4

(* A byte that moves turns its port to what follows it.                    *)
Turned(at) == [p \in Port |-> IF Moves(p) THEN After(Wire[p]) ELSE at[p]]

(* Nodes: the echo goes on with the byte after the one that moved.         *)
LEMMA TurnTx ==
    ASSUME StateOK, NEW S \in SUBSET MayStart, Clock(S), NEW at, Cursors(at),
           NEW nt, nt = Turned(at), NEW n \in Node
    PROVE  nt[TxOf(n)] = Owed(n)'
<1> DEFINE p == TxOf(n)
<1>1. p \in Port
  BY TxOfNode DEF Port
<1>2. nt[p] = IF Moves(p) THEN After(Wire[p]) ELSE at[p]
  BY <1>1 DEF Turned
<1>3. at[p] = Owed(n)
  BY DEF Cursors
<1>4. Owed(n)' = IF pos'[n] \in {0, 1} THEN <<>> ELSE <<TxByte(n)'>>
  BY DEF Owed
<1>5. CASE n \in S
  <2>1. ~Moves(p) /\ pos[n] = 0 /\ pos'[n] = 1
    BY <1>5, StepTx
  <2> QED BY <1>2, <1>3, <1>4, <2>1 DEF Owed
<1>6. CASE n \notin S /\ ~Moves(p)
  <2>1. pos'[n] = pos[n] /\ echo'[n] = echo[n]
    BY <1>6, StepTx
  <2>2. TxByte(n)' = TxByte(n)
    BY <2>1 DEF TxByte, Sent, Byte
  <2> QED BY <1>2, <1>3, <1>4, <1>6, <2>1, <2>2 DEF Owed
<1>7. CASE n \notin S /\ Moves(p)
  <2>1. /\ pos[n] # 0 /\ echo'[n] = echo[n]
        /\ pos'[n] = IF pos[n] = EchoLen THEN 0 ELSE pos[n] + 1
    BY <1>7, StepTx
  <2>a. Wire[p] = <<TxByte(n)>>
    BY <2>1, WireTx
  <2>2. Wire[p] = <<TxByte(n)>> /\ Wire[p][1] = TxByte(n)
    <3> HIDE DEF p
    <3> QED BY <2>a
  <2>3. eop(TxByte(n)) <=> pos[n] = EchoLen
    BY <2>1, TxByteEnds
  <2>4. CASE pos[n] = EchoLen
    BY <1>2, <1>4, <1>7, <2>1, <2>2, <2>3, <2>4 DEF After
  <2>5. CASE pos[n] # EchoLen
    <3>0. pos[n] \in Nat /\ echo[n] \in Nat /\ EchoLen \in Nat /\ echo[n] - 1 \in Nat
      BY <2>1, ReturnAssumption DEF StateOK
    <3>1. pos'[n] = pos[n] + 1 /\ pos'[n] \notin {0, 1}
      BY <2>1, <2>5, <3>0
    <3>2. PICK q \in Nat : q = (echo[n] - 1) * EchoLen
      BY <3>0
    <3>3. Sent(n) = q + pos[n] - 1
      BY <2>1, <3>2 DEF Sent
    <3>4. Sent(n)' = q + pos'[n] - 1
      BY <2>1, <3>0, <3>1, <3>2 DEF Sent
    <3>5. Sent(n)' + 1 = Sent(n) + 1 + 1
      BY <3>0, <3>1, <3>3, <3>4
    <3>6. TxByte(n)' = Byte(n, Sent(n)' + 1)
      BY DEF TxByte, Byte
    <3>7. TxByte(n).node = n /\ TxByte(n).k = Sent(n) + 1
      BY DEF TxByte, Byte
    <3>8. After(Wire[p]) = <<Byte(n, Sent(n) + 1 + 1)>>
      BY <2>2, <2>3, <2>5, <3>7 DEF After
    <3>9. TxByte(n)' = Byte(n, Sent(n) + 1 + 1)
      BY <3>5, <3>6
    <3> QED BY <1>2, <1>4, <1>7, <3>1, <3>8, <3>9
  <2> QED BY <2>4, <2>5
<1> QED BY <1>5, <1>6, <1>7

(* Spine registers: what goes in is what comes out.                        *)
LEMMA TurnHfr ==
    ASSUME StateOK, NEW S \in SUBSET MayStart, Clock(S), NEW at, Cursors(at),
           NEW nt, nt = Turned(at), NEW l \in 1..(NL - 1)
    PROVE  Linked(up'[l], nt[<<"hfr", l>>], nt[<<"up", l + 1>>])
<1> DEFINE p == <<"hfr", l>>
           u == <<"up", l + 1>>
<1> SUFFICES Linked(up'[l], nt[p], nt[u])
  OBVIOUS
<1>0. l \in Layer /\ l < NL
  BY ReturnAssumption DEF Layer
<1>1. p \in Port /\ u \in Port
  BY UpPorts
<1>2. Wire[p] = up[l]
  BY <1>0, WireHfr
<1>3. /\ nt[p] = IF Moves(p) THEN After(Wire[p]) ELSE at[p]
      /\ nt[u] = IF Moves(u) THEN After(Wire[u]) ELSE at[u]
  <2> HIDE DEF p, u
  <2> QED BY <1>1 DEF Turned
<1>4. up'[l] = IF Ready[u] THEN Wire[u] ELSE up[l]
  BY StepUp
<1>5. Ready[u] <=> up[l] = <<>> \/ Ready[p]
  BY ReadyUp DEF HfrReady
<1>6. Linked(up[l], at[p], at[u])
  BY DEF Cursors
<1>7. Fits(Wire[u], at[u])
  BY <1>1, AllFit
<1> HIDE DEF p, u
<1>8. CASE ~Ready[u]
  <2>1. nt[p] = at[p] /\ nt[u] = at[u] /\ up'[l] = up[l]
    BY <1>3, <1>4, <1>5, <1>8 DEF Moves
  <2> QED BY <1>6, <2>1
<1>9. CASE Ready[u]
  <2>1. nt[p] = at[u]
    <3>1. CASE up[l] = <<>>
      BY <1>2, <1>3, <1>6, <3>1 DEF Moves, Linked
    <3>2. CASE up[l] # <<>>
      BY <1>2, <1>3, <1>5, <1>6, <1>9, <3>2 DEF Moves, Linked
    <3> QED BY <3>1, <3>2
  <2>2. up'[l] = Wire[u]
    BY <1>4, <1>9
  <2>3. CASE Wire[u] = <<>>
    BY <1>3, <2>1, <2>2, <2>3 DEF Moves, Linked
  <2>4. CASE Wire[u] # <<>>
    <3>1. nt[u] = After(Wire[u])
      BY <1>3, <1>9, <2>4 DEF Moves
    <3> QED BY <1>7, <2>1, <2>2, <2>4, <3>1 DEF Linked
  <2> QED BY <2>3, <2>4
<1> QED BY <1>8, <1>9

(* Merges: only the granted input moves, its output with it, and the grant *)
(* changes when the byte that moves ends a packet.                         *)
LEMMA TurnMerge ==
    ASSUME StateOK, NEW S \in SUBSET MayStart, Clock(S), NEW at, Cursors(at),
           NEW nt, nt = Turned(at), NEW m \in Merge
    PROVE  TurnOK(state'[m], nt[InA(m)], nt[InB(m)], nt[m])
<1> DEFINE a == InA(m)
           b == InB(m)
<1> SUFFICES TurnOK(state'[m], nt[a], nt[b], nt[m])
  OBVIOUS
<1>1. a \in Port /\ b \in Port /\ m \in Port
  BY MergeInputs DEF Feeds, Below, Port
<1>2. /\ nt[a] = IF Moves(a) THEN After(Wire[a]) ELSE at[a]
      /\ nt[b] = IF Moves(b) THEN After(Wire[b]) ELSE at[b]
      /\ nt[m] = IF Moves(m) THEN After(Wire[m]) ELSE at[m]
  <2> HIDE DEF a, b
  <2> QED BY <1>1 DEF Turned
<1>3. /\ ~Advance(m) => ~Moves(a) /\ ~Moves(b) /\ ~Moves(m)
      /\ Advance(m) => /\ Moves(a) <=> Granted(m) = "A" /\ Wire[a] # <<>>
                       /\ Moves(b) <=> Granted(m) = "B" /\ Wire[b] # <<>>
                       /\ Moves(m) <=> Wire[m] # <<>>
  BY MergeMoves DEF MovesThrough
<1>4. TurnOK(state[m], at[a], at[b], at[m])
  BY DEF Cursors
<1>5. /\ Granted(m) \in {"IDLE", "A", "B"}
      /\ Granted(m) = "A" => Wire[m] = Wire[a]
      /\ Granted(m) = "B" => Wire[m] = Wire[b]
      /\ Granted(m) = "IDLE" => state[m] = "IDLE" /\ Wire[m] = <<>> /\ Wire[a] = <<>> /\ Wire[b] = <<>>
      /\ state[m] # "IDLE" => Granted(m) = state[m]
  BY MergeServes DEF Serves
<1>6. state'[m] = IF Advance(m) THEN NextState(m) ELSE state[m]
  BY StepMerge
<1>7. /\ state[m] = "IDLE" => NextState(m) = Granted(m)
      /\ state[m] = "A" => NextState(m) = IF ~Ends(a) THEN "A"
                                          ELSE IF Wire[b] # <<>> THEN "B" ELSE "IDLE"
      /\ state[m] = "B" => NextState(m) = IF ~Ends(b) THEN "B"
                                          ELSE IF Wire[a] # <<>> THEN "A" ELSE "IDLE"
  BY DEF NextState
<1>8. /\ Ends(a) <=> Wire[a] # <<>> /\ eop(Wire[a][1])
      /\ Ends(b) <=> Wire[b] # <<>> /\ eop(Wire[b][1])
  BY DEF Ends
<1>9. state[m] \in {"IDLE", "A", "B"}
  BY DEF StateOK
<1> HIDE DEF a, b
<1>10. CASE ~Advance(m)
  BY <1>2, <1>3, <1>4, <1>6, <1>10
<1>11. CASE Advance(m) /\ Granted(m) = "IDLE"
  <2>1. state[m] = "IDLE" /\ state'[m] = "IDLE"
    BY <1>5, <1>6, <1>7, <1>11
  <2>2. nt[a] = at[a] /\ nt[b] = at[b] /\ nt[m] = at[m]
    BY <1>2, <1>3, <1>5, <1>11
  <2> QED BY <1>4, <2>1, <2>2
<1>12. CASE Advance(m) /\ Granted(m) = "A"
  <2>1. at[m] = at[a] /\ at[b] = <<>> /\ state[m] \in {"IDLE", "A"}
    BY <1>4, <1>5, <1>9, <1>12 DEF TurnOK
  <2>2. nt[b] = <<>> /\ nt[m] = nt[a]
    BY <1>2, <1>3, <1>5, <1>12, <2>1
  <2>3. CASE state[m] = "IDLE"
    BY <1>6, <1>7, <1>12, <2>2, <2>3 DEF TurnOK
  <2>4. CASE state[m] = "A" /\ ~Ends(a)
    BY <1>6, <1>7, <1>12, <2>2, <2>4 DEF TurnOK
  <2>5. CASE state[m] = "A" /\ Ends(a)
    <3>1. nt[a] = <<>>
      BY <1>2, <1>3, <1>8, <1>12, <2>5 DEF After
    <3>2. state'[m] \in {"B", "IDLE"}
      BY <1>6, <1>7, <1>12, <2>5
    <3> QED BY <2>2, <3>1, <3>2 DEF TurnOK
  <2> QED BY <2>1, <2>3, <2>4, <2>5
<1>13. CASE Advance(m) /\ Granted(m) = "B"
  <2>1. at[m] = at[b] /\ at[a] = <<>> /\ state[m] \in {"IDLE", "B"}
    BY <1>4, <1>5, <1>9, <1>13 DEF TurnOK
  <2>2. nt[a] = <<>> /\ nt[m] = nt[b]
    BY <1>2, <1>3, <1>5, <1>13, <2>1
  <2>3. CASE state[m] = "IDLE"
    BY <1>6, <1>7, <1>13, <2>2, <2>3 DEF TurnOK
  <2>4. CASE state[m] = "B" /\ ~Ends(b)
    BY <1>6, <1>7, <1>13, <2>2, <2>4 DEF TurnOK
  <2>5. CASE state[m] = "B" /\ Ends(b)
    <3>1. nt[b] = <<>>
      BY <1>2, <1>3, <1>8, <1>13, <2>5 DEF After
    <3>2. state'[m] \in {"A", "IDLE"}
      BY <1>6, <1>7, <1>13, <2>5
    <3> QED BY <2>2, <3>1, <3>2 DEF TurnOK
  <2> QED BY <2>1, <2>3, <2>4, <2>5
<1> QED BY <1>5, <1>10, <1>11, <1>12, <1>13

LEMMA StepCursors ==
    ASSUME StateOK, NEW S \in SUBSET MayStart, Clock(S), NEW at, Cursors(at),
           NEW nt, nt = Turned(at)
    PROVE  Cursors(nt)'
<1>1. nt \in [Port -> Slot]
  <2>1. \A p \in Port : Moves(p) => After(Wire[p]) \in Slot
    BY WireType, AfterType DEF Moves
  <2>2. \A p \in Port : at[p] \in Slot
    BY DEF Cursors
  <2> QED BY <2>1, <2>2 DEF Turned
<1>2. \A n \in Node : nt[TxOf(n)] = Owed(n)'
  BY TurnTx
<1>3. \A l \in 1..(NL - 1) : Linked(up'[l], nt[<<"hfr", l>>], nt[<<"up", l + 1>>])
  BY TurnHfr
<1>4. nt[<<"hfr", NL>>] = <<>>
  <2>1. NL \in Layer /\ ~(NL < NL)
    BY ReturnAssumption DEF Layer
  <2>2. <<"hfr", NL>> \in Port /\ Wire[<<"hfr", NL>>] = <<>>
    BY <2>1, PortKinds, WireHfr DEF Port
  <2>3. at[<<"hfr", NL>>] = <<>> /\ ~Moves(<<"hfr", NL>>)
    BY <2>2 DEF Cursors, Moves
  <2> QED BY <2>2, <2>3 DEF Turned
<1>5. \A m \in Merge : TurnOK(state'[m], nt[InA(m)], nt[InB(m)], nt[m])
  BY TurnMerge
<1>6. nt[<<"up", 1>>] = IF last' = <<>> THEN <<>> ELSE After(last')
  <2> DEFINE r == <<"up", 1>>
  <2>1. nt[r] = IF Moves(r) THEN After(Wire[r]) ELSE at[r]
    BY UpPorts DEF Turned
  <2>2. Moves(r) <=> Wire[r] # <<>>
    BY ReadyUp DEF Moves
  <2>3. at[r] = IF last = <<>> THEN <<>> ELSE After(last)
    BY DEF Cursors
  <2>4. /\ Wire[r] = <<>> => last' = last
        /\ Wire[r] # <<>> => last' = Wire[r]
    BY StepRoot
  <2> HIDE DEF r
  <2>5. nt[r] = IF last' = <<>> THEN <<>> ELSE After(last')
    BY <2>1, <2>2, <2>3, <2>4
  <2> QED BY <2>5 DEF r
<1>7. Cursors(nt)' <=>
         /\ nt \in [Port -> Slot]
         /\ \A n \in Node : nt[TxOf(n)] = Owed(n)'
         /\ \A l \in 1..(NL - 1) : Linked(up'[l], nt[<<"hfr", l>>], nt[<<"up", l + 1>>])
         /\ nt[<<"hfr", NL>>] = <<>>
         /\ \A m \in Merge : TurnOK(state'[m], nt[InA(m)], nt[InB(m)], nt[m])
         /\ nt[<<"up", 1>>] = IF last' = <<>> THEN <<>> ELSE After(last')
  BY DEF Cursors
<1> QED BY <1>1, <1>2, <1>3, <1>4, <1>5, <1>6, <1>7

(***************************************************************************)
(* Round robin                                                             *)
(***************************************************************************)
(* A head that has been passed once is at a merge that has granted it.     *)
BypassOK ==
    /\ bypass \in [Below -> Nat]
    /\ \A p \in Below : bypass[p] = 0 \/ (bypass[p] = 1 /\ state[Into[p]] = Side[p])

Other(p) == IF Side[p] = "A" THEN InB(Into[p]) ELSE InA(Into[p])

(* No packet ends on an input that an idle merge has just granted.         *)
LEMMA IdleServesHead ==
    ASSUME StateOK, NEW at, Cursors(at), NEW m \in Merge, state[m] = "IDLE"
    PROVE  ~Ends(InA(m)) /\ ~Ends(InB(m))
<1>1. ASSUME NEW p \in Port, at[p] = <<>> PROVE ~Ends(p)
  <2>1. Wire[p] # <<>> => Wire[p][1] \in RetByte /\ sop(Wire[p][1])
    BY <1>1, AllFit, WireType, SlotFacts DEF Fits
  <2> QED BY <2>1, HeadNotTail DEF Ends
<1>2. TurnOK(state[m], at[InA(m)], at[InB(m)], at[m])
  BY DEF Cursors
<1>3. InA(m) \in Port /\ InB(m) \in Port
  BY MergeInputs DEF Feeds, Below
<1> QED BY <1>1, <1>2, <1>3 DEF TurnOK

LEMMA StepBypass ==
    ASSUME StateOK, BypassOK, NEW S \in SUBSET MayStart, Clock(S), NEW at, Cursors(at)
    PROVE  BypassOK'
<1>1. bypass' = [p \in Below |-> NextBypass(p)]
  BY DEF Clock, Below
<1>2. ASSUME NEW p \in Below
      PROVE  /\ NextBypass(p) \in Nat
             /\ NextBypass(p) = 0 \/ (NextBypass(p) = 1 /\ state'[Into[p]] = Side[p])
  <2> DEFINE m == Into[p]
             q == Other(p)
             g == Side[p]
             h == IF g = "A" THEN "B" ELSE "A"
  <2>1. m \in Merge /\ p \in {InA(m), InB(m)}
    BY IntoSide, PortLeads DEF Leads
  <2>2. \/ p = InA(m) /\ q = InB(m) /\ g = "A" /\ h = "B"
        \/ p = InB(m) /\ q = InA(m) /\ g = "B" /\ h = "A"
    BY <2>1, IntoSide DEF Other
  <2>3. /\ Ready[p] <=> Advance(m) /\ Granted(m) = g
        /\ Ready[q] <=> Advance(m) /\ Granted(m) = h
    BY <2>1, <2>2, ReadyBelow
  <2>4. NextBypass(p) = IF Wire[p] = <<>> \/ Ready[p] THEN 0
                        ELSE IF Ends(q) /\ Ready[q] THEN bypass[p] + 1 ELSE bypass[p]
    BY DEF NextBypass, Other
  <2>5. bypass[p] = 0 \/ (bypass[p] = 1 /\ state[m] = g)
    BY DEF BypassOK
  <2>6. state'[m] = IF Advance(m) THEN NextState(m) ELSE state[m]
    BY <2>1, StepMerge
  <2>7. state[m] \in {"IDLE", g, h} /\ g # h /\ (state[m] # "IDLE" => Granted(m) = state[m])
    BY <2>1, <2>2, MergeServes DEF StateOK, Serves
  <2>8. state[m] = h /\ Ends(q) /\ Wire[p] # <<>> => NextState(m) = g
    BY <2>2 DEF NextState
  <2>9. state[m] = "IDLE" => ~Ends(q)
    BY <2>1, <2>2, IdleServesHead
  <2> HIDE DEF q, g, h
  <2>10. CASE Wire[p] = <<>> \/ Ready[p]
    BY <2>4, <2>10
  <2>11. CASE ~(Wire[p] = <<>> \/ Ready[p]) /\ Ends(q) /\ Ready[q]
    <3>1. Advance(m) /\ Granted(m) = h /\ state[m] = h
      BY <2>3, <2>7, <2>9, <2>11
    <3>2. state'[m] = g /\ bypass[p] = 0
      BY <2>5, <2>6, <2>7, <2>8, <2>11, <3>1
    <3>3. NextBypass(p) = 1
      BY <2>4, <2>11, <3>2
    <3> QED BY <3>2, <3>3 DEF g
  <2>12. CASE ~(Wire[p] = <<>> \/ Ready[p]) /\ ~(Ends(q) /\ Ready[q])
    <3>1. NextBypass(p) = bypass[p]
      BY <2>4, <2>12
    <3>2. state[m] = g => state'[m] = g
      BY <2>3, <2>6, <2>7, <2>12, <2>2
    <3> QED BY <2>5, <3>1, <3>2 DEF g
  <2> QED BY <2>10, <2>11, <2>12
<1> QED BY <1>1, <1>2 DEF BypassOK

(***************************************************************************)
(* No echo byte is lost, duplicated or reordered                           *)
(***************************************************************************)
(* Two rows of sequences, p and then r, where the first k places hand on   *)
(* to the place before them: place i gives c[i] and is given c[i + 1].     *)
HandsOn(c, p, r, i) == c[i] \o r[i] = p[i] \o c[i + 1]

Crossing(c, g, h, i) == c[1] \o h[i] = g[i] \o c[i + 1]

HandedOn(c, p, r, k) == c[1] \o FlattenSeq(r) = FlattenSeq(p) \o c[k + 1]

LEMMA FlattenThrough ==
    ASSUME NEW B, NEW n \in Nat, NEW p, NEW r, IsRow(p, n, B), IsRow(r, n, B),
           NEW k \in 0..n, NEW c \in [1..(k + 1) -> Seq(B)],
           \A i \in 1..k : HandsOn(c, p, r, i),
           \A i \in (k + 1)..n : p[i] = <<>> /\ r[i] = <<>>
    PROVE  HandedOn(c, p, r, k)
<1>1. PICK g : IsFlatten(g, p, n, B)
  BY FlattenPrefixes DEF IsRow
<1>2. PICK h : IsFlatten(h, r, n, B)
  BY FlattenPrefixes DEF IsRow
<1>3. \A i \in 0..n : g[i] \in Seq(B) /\ h[i] \in Seq(B)
  BY <1>1, <1>2 DEF IsFlatten
<1>4. \A i \in 1..n : p[i] \in Seq(B) /\ r[i] \in Seq(B)
  BY DEF IsRow
<1>5. \A i \in 1..n : Longer(g, p, i) /\ Longer(h, r, i)
  BY <1>1, <1>2, FlattenLonger
<1> DEFINE S == {i \in Nat : i <= k => Crossing(c, g, h, i)}
<1>6. 0 \in S
  <2>1. g[0] = <<>> /\ h[0] = <<>> /\ c[1] \in Seq(B) /\ 0 + 1 = 1
    BY <1>1, <1>2 DEF IsFlatten
  <2>2. c[1] \o <<>> = c[1] /\ <<>> \o c[1] = c[1]
    BY <2>1, ConcatEmptySeq
  <2> QED BY <2>1, <2>2 DEF Crossing
<1>7. ASSUME NEW i \in Nat, i \in S PROVE i + 1 \in S
  <2> SUFFICES ASSUME i + 1 <= k PROVE Crossing(c, g, h, i + 1)
    OBVIOUS
  <2>1. PICK j \in Nat : j = i + 1
    OBVIOUS
  <2>2. j \in 1..n /\ j \in 1..k /\ j - 1 = i /\ i <= k /\ j \in 1..(k + 1) /\ j + 1 \in 1..(k + 1) /\ i \in 0..n
    BY <2>1
  <2>3. g[j] = g[i] \o p[j] /\ h[j] = h[i] \o r[j]
    BY <1>5, <2>2 DEF Longer
  <2>4. c[1] \o h[i] = g[i] \o c[j]
    BY <1>7, <2>1, <2>2 DEF Crossing
  <2>5. c[j] \o r[j] = p[j] \o c[j + 1]
    BY <2>2 DEF HandsOn
  <2>6. /\ c[1] \in Seq(B) /\ c[j] \in Seq(B) /\ c[j + 1] \in Seq(B)
        /\ g[i] \in Seq(B) /\ h[i] \in Seq(B) /\ p[j] \in Seq(B) /\ r[j] \in Seq(B)
    BY <1>3, <1>4, <2>2
  <2>7. /\ Regrouped(c[1], h[i], r[j]) /\ Regrouped(g[i], c[j], r[j])
        /\ Regrouped(g[i], p[j], c[j + 1])
    BY <2>6, Regrouping
  <2>8. c[1] \o h[j] = g[j] \o c[j + 1]
    BY <2>3, <2>4, <2>5, <2>7, Zenon DEF Regrouped
  <2> QED BY <2>1, <2>8 DEF Crossing
<1>8. Nat \subseteq S
  <2> HIDE DEF S
  <2> QED BY <1>6, <1>7, SetInduction
<1>9. Crossing(c, g, h, k)
  BY <1>8
<1> DEFINE T == {i \in Nat : k + i <= n => g[k + i] = g[k] /\ h[k + i] = h[k]}
<1>10. 0 \in T
  OBVIOUS
<1>11. ASSUME NEW i \in Nat, i \in T PROVE i + 1 \in T
  <2> SUFFICES ASSUME k + (i + 1) <= n PROVE g[k + (i + 1)] = g[k] /\ h[k + (i + 1)] = h[k]
    OBVIOUS
  <2>1. PICK j \in Nat : j = k + (i + 1)
    OBVIOUS
  <2>2. j \in 1..n /\ j \in (k + 1)..n /\ j - 1 = k + i /\ k + i <= n /\ k \in 0..n
    BY <2>1
  <2>3. g[j] = g[k + i] \o p[j] /\ h[j] = h[k + i] \o r[j]
    BY <1>5, <2>2 DEF Longer
  <2>4. p[j] = <<>> /\ r[j] = <<>>
    BY <2>2
  <2>5. g[k + i] = g[k] /\ h[k + i] = h[k] /\ g[k] \in Seq(B) /\ h[k] \in Seq(B)
    BY <1>3, <1>11, <2>2
  <2>6. g[k] \o <<>> = g[k] /\ h[k] \o <<>> = h[k]
    BY <2>5, ConcatEmptySeq
  <2> QED BY <2>1, <2>3, <2>4, <2>5, <2>6
<1>12. Nat \subseteq T
  <2> HIDE DEF T
  <2> QED BY <1>10, <1>11, SetInduction
<1>13. g[n] = g[k] /\ h[n] = h[k]
  <2>1. PICK i \in Nat : i = n - k
    OBVIOUS
  <2>2. k + i = n /\ k + i <= n
    BY <2>1
  <2>3. i \in T
    <3> HIDE DEF T
    <3> QED BY <1>12
  <2>4. g[k + i] = g[k] /\ h[k + i] = h[k]
    BY <2>2, <2>3
  <2> QED BY <2>2, <2>4
<1>14. FlattenSeq(p) = g[n] /\ FlattenSeq(r) = h[n]
  BY <1>1, <1>2 DEF IsFlatten
<1> QED BY <1>9, <1>13, <1>14 DEF Crossing, HandedOn

(* The bytes of n from the i-th to the j-th.                               *)
Run(n, i, j) == [x \in 1..(j - i) |-> Byte(n, i + x)]

LEMMA RunType ==
    ASSUME NEW n \in Node, NEW i \in Nat, NEW j \in Nat, i <= j
    PROVE  Run(n, i, j) \in Seq(RetByte) /\ Len(Run(n, i, j)) = j - i
<1>1. \A x \in 1..(j - i) : Byte(n, i + x) \in RetByte
  BY ByteType
<1>2. j - i \in Nat
  OBVIOUS
<1> QED BY <1>1, <1>2, IsASeq DEF Run

LEMMA RunGrows ==
    ASSUME NEW n \in Node, NEW i \in Nat, NEW j \in Nat, i <= j
    PROVE  Run(n, i, j) \o <<Byte(n, j + 1)>> = Run(n, i, j + 1)
<1> DEFINE s == Run(n, i, j)
           b == Byte(n, j + 1)
           t == Run(n, i, j + 1)
<1>1. s \in Seq(RetByte) /\ Len(s) = j - i
  BY RunType
<1>2. t \in Seq(RetByte) /\ Len(t) = j + 1 - i
  BY RunType
<1>3. b \in RetByte
  BY ByteType
<1>4. \A x \in 1..(j - i) : s[x] = Byte(n, i + x)
  BY DEF Run
<1>5. \A x \in 1..(j + 1 - i) : t[x] = Byte(n, i + x)
  BY DEF Run
<1>6. b = Byte(n, i + (j + 1 - i))
  OBVIOUS
<1> HIDE DEF s, b, t
<1>7. Append(s, b) = s \o <<b>>
  BY <1>1, <1>3, AppendIsConcat
<1>8. /\ Append(s, b) \in Seq(RetByte) /\ Len(Append(s, b)) = Len(s) + 1
      /\ \A x \in 1..Len(s) : Append(s, b)[x] = s[x]
      /\ Append(s, b)[Len(s) + 1] = b
  BY <1>1, <1>3, AppendProperties
<1>9. \A x \in 1..(j + 1 - i) : Append(s, b)[x] = t[x]
  <2> TAKE x \in 1..(j + 1 - i)
  <2>1. CASE x <= j - i
    BY <1>1, <1>4, <1>5, <1>8, <2>1
  <2>2. CASE x = j + 1 - i
    <3>1. Len(s) + 1 = x
      BY <1>1, <2>2
    <3>2. Append(s, b)[x] = b
      BY <1>8, <3>1
    <3>3. t[x] = b
      BY <1>5, <1>6, <2>2
    <3> QED BY <3>2, <3>3
  <2>3. x <= j - i \/ x = j + 1 - i
    OBVIOUS
  <2> QED BY <2>1, <2>2, <2>3
<1>10. Append(s, b) = t
  BY <1>1, <1>2, <1>8, <1>9, SeqEqual
<1> QED BY <1>7, <1>10 DEF s, b, t

(* A run that starts with b goes on with the run after it.                 *)
LEMMA RunShrinks ==
    ASSUME NEW n \in Node, NEW i \in Nat, NEW j \in Nat, i <= j,
           NEW b \in RetByte, NEW s \in Seq(RetByte), <<b>> \o s = Run(n, i, j)
    PROVE  i + 1 <= j /\ s = Run(n, i + 1, j)
<1> DEFINE t == Run(n, i, j)
           u == <<b>>
<1>1. t \in Seq(RetByte) /\ Len(t) = j - i /\ \A x \in 1..(j - i) : t[x] = Byte(n, i + x)
  BY RunType DEF Run
<1>2. u \in Seq(RetByte) /\ Len(u) = 1
  OBVIOUS
<1>3. u \o s = t
  OBVIOUS
<1> HIDE DEF t, u
<1>4. /\ Len(u \o s) = Len(u) + Len(s)
      /\ \A x \in 1..(Len(u) + Len(s)) : (u \o s)[x] = IF x <= Len(u) THEN u[x] ELSE s[x - Len(u)]
  BY <1>2, ConcatProperties
<1>5. Len(s) \in Nat
  BY LenProperties
<1>6. j - i = 1 + Len(s)
  BY <1>1, <1>2, <1>3, <1>4
<1>7. i + 1 <= j /\ Len(s) = j - (i + 1)
  BY <1>5, <1>6
<1>8. \A x \in 1..Len(s) : s[x] = t[x + 1]
  <2> TAKE x \in 1..Len(s)
  <2>1. PICK y \in Nat : y = x + 1
    OBVIOUS
  <2>2. y \in 1..(Len(u) + Len(s)) /\ ~(y <= Len(u)) /\ y - Len(u) = x
    BY <1>2, <1>5, <2>1
  <2>3. (u \o s)[y] = s[x]
    BY <1>4, <2>2
  <2> QED BY <1>3, <2>1, <2>3
<1>9. Run(n, i + 1, j) \in Seq(RetByte) /\ Len(Run(n, i + 1, j)) = j - (i + 1)
  <2>1. PICK z \in Nat : z = i + 1
    OBVIOUS
  <2>2. z <= j
    BY <1>7, <2>1
  <2> QED BY <2>1, <2>2, RunType
<1>10. \A x \in 1..Len(s) : Run(n, i + 1, j)[x] = Byte(n, i + 1 + x)
  BY <1>7 DEF Run
<1>11. \A x \in 1..Len(s) : s[x] = Run(n, i + 1, j)[x]
  <2> TAKE x \in 1..Len(s)
  <2>1. x + 1 \in 1..(j - i) /\ i + (x + 1) = i + 1 + x
    BY <1>5, <1>6
  <2> QED BY <1>1, <1>8, <1>10, <2>1
<1>12. s = Run(n, i + 1, j)
  BY <1>7, <1>9, <1>11, SeqEqual
<1> QED BY <1>7, <1>12

(* The nodes whose bytes can be on a port.                                 *)
Under(p) == CASE p[1] = "tx"  -> {Tail(p)}
              [] p[1] = "hfr" -> {n \in Node : n[1] > p[2]}
              [] p[1] = "y"   -> {n \in Node : n[1] = p[2] /\ n[2] = p[3] /\ n[3] <= p[4] + 1}
              [] p[1] = "x"   -> {n \in Node : n[1] = p[2] /\ n[2] <= p[3] + 1}
              [] OTHER        -> {n \in Node : n[1] >= p[2]}

UnderTx(l, x, y) == {n \in Node : n[1] = l /\ n[2] = x /\ n[3] = y}
UnderColumn(l, x) == {n \in Node : n[1] = l /\ n[2] = x}
UnderBoard(l)     == {n \in Node : n[1] = l}

LEMMA NodeParts ==
    \A n \in Node : n[1] \in Layer /\ n[2] \in Col /\ n[3] \in Row /\ n = <<n[1], n[2], n[3]>>
  BY DEF Node, Col, Row

LEMMA UnderOfTx ==
    ASSUME NEW l \in Layer, NEW x \in Col, NEW y \in Row
    PROVE  Under(<<"tx", l, x, y>>) = UnderTx(l, x, y)
<1>1. Tail(<<"tx", l, x, y>>) = <<l, x, y>>
  OBVIOUS
<1>2. Under(<<"tx", l, x, y>>) = {Tail(<<"tx", l, x, y>>)}
  BY DEF Under
<1>3. <<l, x, y>> \in Node /\ <<l, x, y>>[1] = l /\ <<l, x, y>>[2] = x /\ <<l, x, y>>[3] = y
  BY DEF Node, Col, Row
<1>4. \A n \in Node : n[1] = l /\ n[2] = x /\ n[3] = y => n = <<l, x, y>>
  BY NodeParts
<1>5. UnderTx(l, x, y) = {<<l, x, y>>}
  BY <1>3, <1>4 DEF UnderTx
<1> QED BY <1>1, <1>2, <1>5

LEMMA UnderOfColumn ==
    ASSUME NEW l \in Layer, NEW x \in Col
    PROVE  Under(Column(l, x)) = UnderColumn(l, x)
<1>0. By \in Nat \ {0} /\ \A n \in Node : n[3] \in 0..(By - 1)
  BY ReturnAssumption, NodeParts DEF Row
<1>1. CASE By > 1
  <2>1. Column(l, x) = <<"y", l, x, By - 2>>
    BY <1>1 DEF Column
  <2>2. Under(<<"y", l, x, By - 2>>) = {n \in Node : n[1] = l /\ n[2] = x /\ n[3] <= By - 2 + 1}
    BY DEF Under
  <2>3. \A n \in Node : n[3] <= By - 2 + 1
    BY <1>0
  <2> QED BY <2>1, <2>2, <2>3 DEF UnderColumn
<1>2. CASE ~(By > 1)
  <2>1. Column(l, x) = <<"tx", l, x, 0>> /\ 0 \in Row
    BY <1>0, <1>2 DEF Column, Row
  <2>2. Under(<<"tx", l, x, 0>>) = UnderTx(l, x, 0)
    BY <2>1, UnderOfTx
  <2>3. \A n \in Node : n[3] = 0
    BY <1>0, <1>2
  <2> QED BY <2>1, <2>2, <2>3 DEF UnderColumn, UnderTx
<1> QED BY <1>1, <1>2

LEMMA UnderOfBoard ==
    ASSUME NEW l \in Layer
    PROVE  Under(Board(l)) = UnderBoard(l)
<1>0. Bx \in Nat \ {0} /\ \A n \in Node : n[2] \in 0..(Bx - 1)
  BY ReturnAssumption, NodeParts DEF Col
<1>1. CASE Bx > 1
  <2>1. Board(l) = <<"x", l, Bx - 2>>
    BY <1>1 DEF Board
  <2>2. Under(<<"x", l, Bx - 2>>) = {n \in Node : n[1] = l /\ n[2] <= Bx - 2 + 1}
    BY DEF Under
  <2>3. \A n \in Node : n[2] <= Bx - 2 + 1
    BY <1>0
  <2> QED BY <2>1, <2>2, <2>3 DEF UnderBoard
<1>2. CASE ~(Bx > 1)
  <2>1. Board(l) = Column(l, 0) /\ 0 \in Col
    BY <1>0, <1>2 DEF Board, Col
  <2>2. \A n \in Node : n[2] = 0
    BY <1>0, <1>2
  <2> QED BY <2>1, <2>2, UnderOfColumn DEF UnderBoard, UnderColumn
<1> QED BY <1>1, <1>2

(* A merge joins two sets of nodes that have none in common.               *)
Joins(m) == /\ Under(m) = Under(InA(m)) \cup Under(InB(m))
            /\ \A n \in Under(InA(m)) : n \notin Under(InB(m))

LEMMA MergeJoins == \A m \in Merge : Joins(m)
<1>1. ASSUME NEW l \in Layer, NEW x \in Col, NEW y \in 0..(By - 2)
      PROVE  Joins(<<"y", l, x, y>>)
  <2> DEFINE m == <<"y", l, x, y>>
  <2> SUFFICES Joins(m)
    OBVIOUS
  <2>0. y \in Nat /\ y + 1 \in Row /\ 0 \in Row /\ \A n \in Node : n[3] \in Nat
    BY ReturnAssumption, NodeParts DEF Row
  <2>1. Under(m) = {n \in Node : n[1] = l /\ n[2] = x /\ n[3] <= y + 1}
    BY DEF Under
  <2>2. Under(InB(m)) = UnderTx(l, x, y + 1)
    BY <2>0, YInputs, UnderOfTx
  <2>3. Under(InA(m)) = {n \in Node : n[1] = l /\ n[2] = x /\ n[3] <= y}
    <3>1. CASE y = 0
      <4>1. Under(InA(m)) = UnderTx(l, x, 0)
        BY <2>0, <3>1, YInputs, UnderOfTx
      <4> QED BY <2>0, <3>1, <4>1 DEF UnderTx
    <3>2. CASE y # 0
      <4>1. InA(m) = <<"y", l, x, y - 1>>
        BY <3>2, YInputs
      <4>2. Under(<<"y", l, x, y - 1>>) = {n \in Node : n[1] = l /\ n[2] = x /\ n[3] <= y - 1 + 1}
        BY DEF Under
      <4>3. y - 1 + 1 = y
        BY <2>0
      <4> QED BY <4>1, <4>2, <4>3
    <3> QED BY <3>1, <3>2
  <2> HIDE DEF m
  <2> QED BY <2>0, <2>1, <2>2, <2>3 DEF Joins, UnderTx
<1>2. ASSUME NEW l \in Layer, NEW x \in 0..(Bx - 2)
      PROVE  Joins(<<"x", l, x>>)
  <2> DEFINE m == <<"x", l, x>>
  <2> SUFFICES Joins(m)
    OBVIOUS
  <2>0. x \in Nat /\ x + 1 \in Col /\ 0 \in Col /\ \A n \in Node : n[2] \in Nat
    BY ReturnAssumption, NodeParts DEF Col
  <2>1. Under(m) = {n \in Node : n[1] = l /\ n[2] <= x + 1}
    BY DEF Under
  <2>2. Under(InB(m)) = UnderColumn(l, x + 1)
    BY <2>0, XInputs, UnderOfColumn
  <2>3. Under(InA(m)) = {n \in Node : n[1] = l /\ n[2] <= x}
    <3>1. CASE x = 0
      <4>1. Under(InA(m)) = UnderColumn(l, 0)
        BY <2>0, <3>1, XInputs, UnderOfColumn
      <4> QED BY <2>0, <3>1, <4>1 DEF UnderColumn
    <3>2. CASE x # 0
      <4>1. InA(m) = <<"x", l, x - 1>>
        BY <3>2, XInputs
      <4>2. Under(<<"x", l, x - 1>>) = {n \in Node : n[1] = l /\ n[2] <= x - 1 + 1}
        BY DEF Under
      <4>3. x - 1 + 1 = x
        BY <2>0
      <4> QED BY <4>1, <4>2, <4>3
    <3> QED BY <3>1, <3>2
  <2> HIDE DEF m
  <2> QED BY <2>0, <2>1, <2>2, <2>3 DEF Joins, UnderColumn
<1>3. ASSUME NEW l \in Layer PROVE Joins(<<"up", l>>)
  <2> DEFINE m == <<"up", l>>
  <2> SUFFICES Joins(m)
    OBVIOUS
  <2>0. l \in Nat /\ \A n \in Node : n[1] \in Nat
    BY ReturnAssumption, NodeParts DEF Layer
  <2>1. Under(m) = {n \in Node : n[1] >= l}
    BY DEF Under
  <2>2. InB(m) = <<"hfr", l>> /\ Under(<<"hfr", l>>) = {n \in Node : n[1] > l}
    BY UpInputs DEF Under
  <2>3. Under(InA(m)) = UnderBoard(l)
    BY UpInputs, UnderOfBoard
  <2> HIDE DEF m
  <2> QED BY <2>0, <2>1, <2>2, <2>3 DEF Joins, UnderBoard
<1> QED BY <1>1, <1>2, <1>3, KindsOfPort DEF Merge

(* The spine registers hold bytes from further down the spine only.        *)
SpineOK == \A l \in 1..(NL - 1) : up[l] # <<>> => up[l][1].node[1] > l

LEMMA WireUnder ==
    ASSUME StateOK, SpineOK
    PROVE  \A p \in Port : Wire[p] # <<>> => Wire[p][1].node \in Under(p)
<1> DEFINE F == {p \in Port : Wire[p] # <<>> => Wire[p][1].node \in Under(p)}
<1>1. ASSUME NEW p \in TxPort PROVE p \in F
  <2>1. PICK n \in Node : p = TxOf(n)
    BY DEF TxPort, TxOf
  <2>2. p \in Port /\ n \in Under(p)
    BY <2>1, TxOfNode DEF Port, Under
  <2>3. ASSUME Wire[p] # <<>> PROVE Wire[p][1].node = n
    <3>1. Wire[p] = <<TxByte(n)>> /\ pos[n] # 0
      BY <2>1, <2>3, WireTx
    <3>2. TxByte(n).node = n
      BY <3>1, TxByteEnds
    <3> QED BY <3>1, <3>2
  <2> QED BY <2>2, <2>3
<1>2. ASSUME NEW p \in HfrPort PROVE p \in F
  <2>1. PICK l \in Layer : p = <<"hfr", l>>
    BY KindsOfPort
  <2>2. p \in Port /\ Wire[p] = (IF l < NL THEN up[l] ELSE <<>>)
    BY <2>1, WireHfr DEF Port
  <2>3. Under(p) = {n \in Node : n[1] > l}
    BY <2>1 DEF Under
  <2>4. ASSUME Wire[p] # <<>> PROVE Wire[p][1].node \in Under(p)
    <3>1. l \in 1..(NL - 1) /\ Wire[p] = up[l]
      BY <2>2, <2>4, ReturnAssumption DEF Layer
    <3>2. up[l][1].node[1] > l
      BY <2>4, <3>1 DEF SpineOK
    <3>3. up[l][1].node \in Node
      BY <2>4, <3>1, SlotFacts DEF StateOK, RetByte
    <3> QED BY <2>3, <3>1, <3>2, <3>3
  <2> QED BY <2>2, <2>4
<1>3. ASSUME NEW m \in Merge, InA(m) \in F, InB(m) \in F PROVE m \in F
  <2>1. Serves(m) /\ m \in Port /\ Joins(m)
    BY MergeServes, MergeJoins DEF Port
  <2> QED BY <1>3, <2>1 DEF Serves, Joins
<1>4. Port \subseteq F
  <2> HIDE DEF F
  <2> QED BY <1>1, <1>2, <1>3, PortInduction
<1> QED BY <1>4

(* What of n's moves from a port in this cycle.                            *)
Carried(n, p) == IF Moves(p) /\ Wire[p][1].node = n THEN Wire[p] ELSE <<>>

LEMMA CarriedThrough ==
    ASSUME StateOK, SpineOK, NEW n \in Node, NEW m \in Merge
    PROVE  /\ n \in Under(InA(m)) => Carried(n, m) = Carried(n, InA(m))
           /\ n \in Under(InB(m)) => Carried(n, m) = Carried(n, InB(m))
<1> DEFINE a == InA(m)
           b == InB(m)
<1>1. a \in Port /\ b \in Port /\ m \in Port
  BY MergeInputs DEF Feeds, Below, Port
<1>2. /\ Wire[a] # <<>> => Wire[a][1].node \in Under(a)
      /\ Wire[b] # <<>> => Wire[b][1].node \in Under(b)
  BY <1>1, WireUnder
<1>3. ~(n \in Under(a) /\ n \in Under(b))
  BY MergeJoins DEF Joins
<1>4. /\ ~Advance(m) => ~Moves(a) /\ ~Moves(b) /\ ~Moves(m)
      /\ Advance(m) => /\ Moves(a) <=> Granted(m) = "A" /\ Wire[a] # <<>>
                       /\ Moves(b) <=> Granted(m) = "B" /\ Wire[b] # <<>>
                       /\ Moves(m) <=> Wire[m] # <<>>
  BY MergeMoves DEF MovesThrough
<1>5. /\ Granted(m) \in {"IDLE", "A", "B"}
      /\ Granted(m) = "A" => Wire[m] = Wire[a]
      /\ Granted(m) = "B" => Wire[m] = Wire[b]
      /\ Granted(m) = "IDLE" => Wire[m] = <<>> /\ Wire[a] = <<>> /\ Wire[b] = <<>>
  BY MergeServes DEF Serves
<1>6. SUFFICES /\ n \in Under(a) => Carried(n, m) = Carried(n, a)
               /\ n \in Under(b) => Carried(n, m) = Carried(n, b)
  OBVIOUS
<1> HIDE DEF a, b
<1>7. CASE ~Advance(m)
  BY <1>4, <1>7 DEF Carried
<1>8. CASE Advance(m) /\ Granted(m) = "IDLE"
  BY <1>4, <1>5, <1>8 DEF Carried
<1>9. CASE Advance(m) /\ Granted(m) = "A"
  BY <1>2, <1>3, <1>4, <1>5, <1>9 DEF Carried
<1>10. CASE Advance(m) /\ Granted(m) = "B"
  BY <1>2, <1>3, <1>4, <1>5, <1>10 DEF Carried
<1> QED BY <1>5, <1>7, <1>8, <1>9, <1>10

(* On its board a node's byte gets all the way to the spine in the cycle   *)
(* in which it moves at all.                                               *)
OnBoard == TxPort \cup YMerge \cup XMerge

LEMMA ColumnOnBoard == \A l \in Layer, x \in Col : Column(l, x) \in OnBoard
<1>1. ASSUME NEW l \in Layer, NEW x \in Col PROVE Column(l, x) \in OnBoard
  <2>1. Column(l, x) \in Below /\ Column(l, x)[1] \in {"tx", "y"}
    BY ColumnPort DEF Column
  <2> QED BY <2>1, BelowKinds, Kinds DEF OnBoard
<1> QED BY <1>1

LEMMA BoardInputs == \A m \in YMerge \cup XMerge : InA(m) \in OnBoard /\ InB(m) \in OnBoard
<1>1. ASSUME NEW l \in Layer, NEW x \in Col, NEW y \in 0..(By - 2)
      PROVE  InA(<<"y", l, x, y>>) \in OnBoard /\ InB(<<"y", l, x, y>>) \in OnBoard
  <2> DEFINE m == <<"y", l, x, y>>
  <2>1. m \in Merge
    BY PortKinds DEF Merge
  <2>2. InA(m)[1] \in {"tx", "y"} /\ InB(m)[1] = "tx"
    BY YInputs
  <2>3. InA(m) \in Below /\ InB(m) \in Below
    BY <2>1, MergeInputs DEF Feeds
  <2> HIDE DEF m
  <2>4. InA(m) \in OnBoard /\ InB(m) \in OnBoard
    BY <2>2, <2>3, BelowKinds, Kinds DEF OnBoard
  <2> QED BY <2>4 DEF m
<1>2. ASSUME NEW l \in Layer, NEW x \in 0..(Bx - 2)
      PROVE  InA(<<"x", l, x>>) \in OnBoard /\ InB(<<"x", l, x>>) \in OnBoard
  <2>0. x \in Nat /\ x + 1 \in Col /\ 0 \in Col
    BY ReturnAssumption DEF Col
  <2>1. InB(<<"x", l, x>>) \in OnBoard
    BY <2>0, XInputs, ColumnOnBoard
  <2>2. CASE x = 0
    BY <2>0, <2>1, <2>2, XInputs, ColumnOnBoard
  <2>3. CASE x # 0
    <3>1. x - 1 \in 0..(Bx - 2)
      BY <2>0, <2>3, ReturnAssumption
    <3>2. InA(<<"x", l, x>>) = <<"x", l, x - 1>>
      BY <2>3, XInputs
    <3> QED BY <2>1, <3>1, <3>2, PortKinds DEF OnBoard
  <2> QED BY <2>2, <2>3
<1> QED BY <1>1, <1>2, KindsOfPort

LEMMA BoardOnBoard == \A l \in Layer : Board(l) \in OnBoard
<1>1. ASSUME NEW l \in Layer PROVE Board(l) \in OnBoard
  <2>1. CASE Bx > 1
    <3>1. Board(l) = <<"x", l, Bx - 2>> /\ Bx - 2 \in 0..(Bx - 2)
      BY <2>1, ReturnAssumption DEF Board
    <3> QED BY <3>1, PortKinds DEF OnBoard
  <2>2. CASE ~(Bx > 1)
    <3>1. Board(l) = Column(l, 0) /\ 0 \in Col
      BY <2>2, ReturnAssumption DEF Board, Col
    <3> QED BY <3>1, ColumnOnBoard
  <2> QED BY <2>1, <2>2
<1> QED BY <1>1

LEMMA BoardCarries ==
    ASSUME StateOK, SpineOK, NEW n \in Node
    PROVE  \A p \in OnBoard : n \in Under(p) => Carried(n, p) = Carried(n, TxOf(n))
<1> DEFINE F == {p \in Port : p \in OnBoard /\ n \in Under(p) => Carried(n, p) = Carried(n, TxOf(n))}
<1>1. ASSUME NEW p \in TxPort PROVE p \in F
  <2>1. PICK k \in Node : p = TxOf(k)
    BY DEF TxPort, TxOf
  <2>2. Under(p) = {k} /\ p \in Port
    BY <2>1, TxOfNode DEF Under, Port
  <2> QED BY <2>1, <2>2
<1>2. ASSUME NEW p \in HfrPort PROVE p \in F
  <2>1. p \notin OnBoard /\ p \in Port
    BY Kinds DEF OnBoard, Port
  <2> QED BY <2>1
<1>3. ASSUME NEW m \in Merge, InA(m) \in F, InB(m) \in F PROVE m \in F
  <2>1. m \in Port
    BY DEF Port
  <2>2. ASSUME m \in OnBoard, n \in Under(m) PROVE Carried(n, m) = Carried(n, TxOf(n))
    <3>1. m \in YMerge \cup XMerge
      BY <2>2, Kinds DEF OnBoard, Merge
    <3>2. InA(m) \in OnBoard /\ InB(m) \in OnBoard
      BY <3>1, BoardInputs
    <3>3. n \in Under(InA(m)) \/ n \in Under(InB(m))
      BY <2>2, MergeJoins DEF Joins
    <3>4. CASE n \in Under(InA(m))
      <4>1. Carried(n, m) = Carried(n, InA(m))
        BY <3>4, CarriedThrough
      <4> QED BY <1>3, <3>2, <3>4, <4>1
    <3>5. CASE n \in Under(InB(m))
      <4>1. Carried(n, m) = Carried(n, InB(m))
        BY <3>5, CarriedThrough
      <4> QED BY <1>3, <3>2, <3>5, <4>1
    <3> QED BY <3>3, <3>4, <3>5
  <2> QED BY <2>1, <2>2
<1>4. Port \subseteq F
  <2> HIDE DEF F
  <2> QED BY <1>1, <1>2, <1>3, PortInduction
<1>5. OnBoard \subseteq Port
  BY DEF OnBoard, Port, Merge
<1> QED BY <1>4, <1>5

(* What enters the spine on n's layer, and what goes on along it.          *)
LEMMA SpineCarries ==
    ASSUME StateOK, SpineOK, NEW n \in Node
    PROVE  /\ Carried(n, <<"up", n[1]>>) = Carried(n, TxOf(n))
           /\ \A l \in Layer : l < n[1] => Carried(n, <<"up", l>>) = Carried(n, <<"hfr", l>>)
<1>1. ASSUME NEW l \in Layer, l = n[1] PROVE Carried(n, <<"up", l>>) = Carried(n, TxOf(n))
  <2>1. InA(<<"up", l>>) = Board(l) /\ <<"up", l>> \in Merge
    BY UpInputs, PortKinds DEF Merge
  <2>2. n \in Under(Board(l))
    BY <1>1, UnderOfBoard DEF UnderBoard
  <2>3. Carried(n, <<"up", l>>) = Carried(n, Board(l))
    BY <2>1, <2>2, CarriedThrough
  <2>4. Carried(n, Board(l)) = Carried(n, TxOf(n))
    BY <2>2, BoardOnBoard, BoardCarries
  <2> QED BY <2>3, <2>4
<1>2. ASSUME NEW l \in Layer, l < n[1] PROVE Carried(n, <<"up", l>>) = Carried(n, <<"hfr", l>>)
  <2>1. InB(<<"up", l>>) = <<"hfr", l>> /\ <<"up", l>> \in Merge
    BY UpInputs, PortKinds DEF Merge
  <2>2. n[1] \in Nat /\ l \in Nat /\ n[1] > l
    BY <1>2, NodeParts, ReturnAssumption DEF Layer
  <2>3. Under(<<"hfr", l>>) = {k \in Node : k[1] > l}
    BY DEF Under
  <2>4. n \in Under(<<"hfr", l>>)
    BY <2>2, <2>3
  <2> QED BY <2>1, <2>4, CarriedThrough
<1> QED BY <1>1, <1>2, NodeParts

(* What a spine register holds of n's.                                     *)
Slice(n, l) == IF up[l] # <<>> /\ up[l][1].node = n THEN up[l] ELSE <<>>

LEMMA SliceHandsOn ==
    ASSUME StateOK, NEW S, Clock(S), NEW n \in Node, NEW l \in 1..(NL - 1)
    PROVE  Carried(n, <<"hfr", l>>) \o Slice(n, l)' = Slice(n, l) \o Carried(n, <<"up", l + 1>>)
<1> DEFINE p == <<"hfr", l>>
           u == <<"up", l + 1>>
<1> SUFFICES Carried(n, p) \o Slice(n, l)' = Slice(n, l) \o Carried(n, u)
  OBVIOUS
<1>0. l \in Layer /\ l < NL
  BY ReturnAssumption DEF Layer
<1>1. p \in Port /\ u \in Port
  BY UpPorts
<1>2. Wire[p] = up[l] /\ up[l] \in Slot
  BY <1>0, WireHfr DEF StateOK
<1>3. up'[l] = IF Ready[u] THEN Wire[u] ELSE up[l]
  BY StepUp
<1>4. Ready[u] <=> up[l] = <<>> \/ Ready[p]
  BY ReadyUp DEF HfrReady
<1>5. Slice(n, l)' = IF up'[l] # <<>> /\ up'[l][1].node = n THEN up'[l] ELSE <<>>
  BY DEF Slice
<1> HIDE DEF p, u
<1>6. CASE Ready[u]
  <2>1. Carried(n, p) = Slice(n, l)
    BY <1>2, <1>4, <1>6 DEF Carried, Slice, Moves
  <2>2. Carried(n, u) = Slice(n, l)'
    BY <1>3, <1>5, <1>6 DEF Carried, Moves
  <2> QED BY <2>1, <2>2
<1>7. CASE ~Ready[u]
  <2>1. Carried(n, p) = <<>> /\ Carried(n, u) = <<>>
    BY <1>4, <1>7 DEF Carried, Moves
  <2>2. Slice(n, l)' = Slice(n, l)
    BY <1>3, <1>5, <1>7 DEF Slice
  <2>3. Slice(n, l) \in Seq(RetByte)
    BY <1>2, SlotFacts DEF Slice
  <2>4. <<>> \o Slice(n, l) = Slice(n, l) /\ Slice(n, l) \o <<>> = Slice(n, l)
    BY <2>3, ConcatEmptySeq
  <2> QED BY <2>1, <2>2, <2>4
<1> QED BY <1>6, <1>7

LEMMA StepSpine ==
    ASSUME StateOK, SpineOK, NEW S, Clock(S)
    PROVE  SpineOK'
<1>1. ASSUME NEW l \in 1..(NL - 1), up'[l] # <<>> PROVE up'[l][1].node[1] > l
  <2> DEFINE u == <<"up", l + 1>>
  <2>1. up'[l] = IF Ready[u] THEN Wire[u] ELSE up[l]
    BY StepUp
  <2>2. Wire[u] # <<>> => Wire[u][1].node \in Under(u)
    BY UpPorts, WireUnder
  <2>3. Under(u) = {n \in Node : n[1] >= l + 1}
    BY DEF Under
  <2>4. l \in Nat /\ \A n \in Node : n[1] \in Nat
    BY NodeParts, ReturnAssumption DEF Layer
  <2>5. \A n \in Node : n[1] >= l + 1 => n[1] > l
    BY <2>4
  <2> HIDE DEF u
  <2>6. CASE Ready[u]
    BY <1>1, <2>1, <2>2, <2>3, <2>5, <2>6
  <2>7. CASE ~Ready[u]
    BY <1>1, <2>1, <2>7 DEF SpineOK
  <2> QED BY <2>6, <2>7
<1> QED BY <1>1 DEF SpineOK

(* The spine as a whole gives the root a byte of n's, or none, and is      *)
(* given the byte, or none, that leaves the node's port.                   *)
LEMMA SpineFlow ==
    ASSUME StateOK, StateOK', SpineOK, SpineOK', NEW S, Clock(S), NEW n \in Node
    PROVE  /\ OnSpine(n) \in Seq(RetByte) /\ OnSpine(n)' \in Seq(RetByte)
           /\ Carried(n, <<"up", 1>>) \o OnSpine(n)' = OnSpine(n) \o Carried(n, TxOf(n))
<1>0. NL \in Nat \ {0} /\ n[1] \in 1..NL /\ n[1] \in Layer
  BY ReturnAssumption, NodeParts DEF Layer
<1>1. PICK p : p = [l \in 1..(NL - 1) |-> Slice(n, l)]
  OBVIOUS
<1>2. PICK r : r = [l \in 1..(NL - 1) |-> Slice(n, l)']
  OBVIOUS
<1>3. OnSpine(n) = FlattenSeq(p) /\ OnSpine(n)' = FlattenSeq(r)
  BY <1>1, <1>2 DEF OnSpine, Slice
<1>4. PICK N \in Nat : N = NL - 1
  BY <1>0
<1>5. PICK k \in 0..N : k = n[1] - 1
  BY <1>0, <1>4
<1>6. PICK c : c = [i \in 1..(k + 1) |-> Carried(n, <<"up", i>>)]
  OBVIOUS
<1>7. /\ \A l \in 1..N : p[l] = Slice(n, l) /\ r[l] = Slice(n, l)'
      /\ \A i \in 1..(k + 1) : c[i] = Carried(n, <<"up", i>>)
  BY <1>1, <1>2, <1>4, <1>6
<1>8. IsRow(p, N, RetByte) /\ IsRow(r, N, RetByte)
  <2>1. \A l \in 1..N : Slice(n, l) \in Seq(RetByte) /\ Slice(n, l)' \in Seq(RetByte)
    BY <1>4, SlotFacts DEF Slice, StateOK
  <2> QED BY <1>1, <1>2, <1>4, <2>1 DEF IsRow
<1>9. c \in [1..(k + 1) -> Seq(RetByte)]
  <2>1. ASSUME NEW i \in 1..(k + 1) PROVE Carried(n, <<"up", i>>) \in Seq(RetByte)
    <3>1. i \in Layer
      BY <1>0, <1>4, <1>5 DEF Layer
    <3>2. <<"up", i>> \in Port
      BY <3>1, PortKinds DEF Port, Merge
    <3>3. Wire[<<"up", i>>] \in Seq(RetByte) /\ <<>> \in Seq(RetByte)
      BY <3>2, WireType, SlotFacts
    <3> QED BY <3>3 DEF Carried
  <2> QED BY <1>6, <2>1
<1>10. ASSUME NEW i \in 1..k PROVE HandsOn(c, p, r, i)
  <2>1. i \in 1..N /\ i \in 1..(NL - 1) /\ i \in 1..(k + 1) /\ i + 1 \in 1..(k + 1) /\ i < n[1] /\ i \in Layer
    BY <1>0, <1>4, <1>5 DEF Layer
  <2>2. c[i] = Carried(n, <<"hfr", i>>)
    BY <1>7, <2>1, SpineCarries
  <2>3. c[i + 1] = Carried(n, <<"up", i + 1>>)
    BY <1>7, <2>1
  <2>4. p[i] = Slice(n, i) /\ r[i] = Slice(n, i)'
    BY <1>7, <2>1
  <2>5. Carried(n, <<"hfr", i>>) \o Slice(n, i)' = Slice(n, i) \o Carried(n, <<"up", i + 1>>)
    BY <2>1, SliceHandsOn
  <2> QED BY <2>2, <2>3, <2>4, <2>5, Zenon DEF HandsOn
<1>11. ASSUME NEW i \in (k + 1)..N PROVE p[i] = <<>> /\ r[i] = <<>>
  <2>1. i \in 1..N /\ i \in 1..(NL - 1) /\ ~(n[1] > i)
    BY <1>0, <1>4, <1>5
  <2>2. Slice(n, i) = <<>>
    BY <2>1 DEF SpineOK, Slice
  <2>3. Slice(n, i)' = <<>>
    BY <2>1 DEF SpineOK, Slice
  <2> QED BY <1>7, <2>1, <2>2, <2>3
<1>12. HandedOn(c, p, r, k)
  BY <1>8, <1>9, <1>10, <1>11, FlattenThrough
<1>13. c[1] = Carried(n, <<"up", 1>>) /\ c[k + 1] = Carried(n, TxOf(n))
  <2>1. 1 \in 1..(k + 1) /\ k + 1 \in 1..(k + 1) /\ k + 1 = n[1]
    BY <1>0, <1>5
  <2>2. c[1] = Carried(n, <<"up", 1>>) /\ c[k + 1] = Carried(n, <<"up", n[1]>>)
    BY <1>7, <2>1
  <2> QED BY <2>2, SpineCarries
<1>14. FlattenSeq(p) \in Seq(RetByte) /\ FlattenSeq(r) \in Seq(RetByte)
  <2>1. PICK g : IsFlatten(g, p, N, RetByte)
    BY <1>8, FlattenPrefixes DEF IsRow
  <2>2. PICK h : IsFlatten(h, r, N, RetByte)
    BY <1>8, FlattenPrefixes DEF IsRow
  <2> QED BY <2>1, <2>2 DEF IsFlatten
<1> QED BY <1>3, <1>12, <1>13, <1>14, Zenon DEF HandedOn

LEMMA SentType ==
    ASSUME StateOK, NEW n \in Node
    PROVE  Sent(n) \in Nat /\ Sent(n) <= echo[n] * EchoLen
<1>1. /\ EchoLen \in Nat /\ echo[n] \in Nat /\ pos[n] \in 0..EchoLen
      /\ pos[n] # 0 => echo[n] >= 1
  BY ReturnAssumption DEF StateOK
<1>2. CASE pos[n] = 0
  BY <1>1, <1>2 DEF Sent
<1>3. CASE pos[n] # 0
  <2>1. PICK q \in Nat : echo[n] = q + 1
    <3>1. echo[n] - 1 \in Nat /\ echo[n] = (echo[n] - 1) + 1
      BY <1>1, <1>3
    <3> QED BY <3>1
  <2>2. echo[n] - 1 = q
    BY <2>1
  <2>3. Sent(n) = q * EchoLen + pos[n] - 1
    BY <1>3, <2>2 DEF Sent
  <2>4. (q + 1) * EchoLen = q * EchoLen + EchoLen /\ q * EchoLen \in Nat
    BY <1>1
  <2> QED BY <1>1, <1>3, <2>1, <2>3, <2>4
<1> QED BY <1>2, <1>3

LEMMA StepSent ==
    ASSUME StateOK, NEW S \in SUBSET MayStart, Clock(S), NEW n \in Node
    PROVE  \/ Carried(n, TxOf(n)) = <<>> /\ Sent(n)' = Sent(n)
           \/ Carried(n, TxOf(n)) = <<Byte(n, Sent(n) + 1)>> /\ Sent(n)' = Sent(n) + 1
<1> DEFINE p == TxOf(n)
<1>0. /\ EchoLen \in Nat /\ EchoLen >= 2 /\ echo[n] \in Nat /\ pos[n] \in 0..EchoLen
      /\ pos[n] # 0 => echo[n] >= 1
  BY ReturnAssumption DEF StateOK
<1>1. Sent(n)' = IF pos'[n] = 0 THEN echo'[n] * EchoLen
                                ELSE (echo'[n] - 1) * EchoLen + pos'[n] - 1
  BY DEF Sent
<1>2. CASE n \in S
  <2>1. pos[n] = 0 /\ pos'[n] = 1 /\ echo'[n] = echo[n] + 1 /\ ~Moves(p)
    BY <1>2, StepTx
  <2>2. echo'[n] - 1 = echo[n] /\ pos'[n] # 0 /\ echo[n] * EchoLen \in Nat
    BY <1>0, <2>1
  <2>3. Sent(n)' = echo[n] * EchoLen + 1 - 1
    BY <1>1, <2>1, <2>2
  <2>4. Sent(n) = echo[n] * EchoLen
    BY <2>1 DEF Sent
  <2> QED BY <2>1, <2>2, <2>3, <2>4 DEF Carried
<1>3. CASE n \notin S /\ ~Moves(p)
  <2>1. pos'[n] = pos[n] /\ echo'[n] = echo[n]
    BY <1>3, StepTx
  <2>2. Sent(n)' = Sent(n)
    BY <1>1, <2>1 DEF Sent
  <2> QED BY <1>3, <2>2 DEF Carried
<1>4. CASE n \notin S /\ Moves(p)
  <2>1. /\ pos[n] # 0 /\ echo'[n] = echo[n]
        /\ pos'[n] = IF pos[n] = EchoLen THEN 0 ELSE pos[n] + 1
    BY <1>4, StepTx
  <2>2. Wire[p] = <<TxByte(n)>> /\ TxByte(n).node = n
    BY <2>1, WireTx, TxByteEnds
  <2>3. Wire[p][1].node = n
    <3> HIDE DEF p
    <3>1. Wire[p][1] = TxByte(n)
      BY <2>2
    <3> QED BY <2>2, <3>1
  <2>4. Carried(n, p) = <<Byte(n, Sent(n) + 1)>>
    BY <1>4, <2>2, <2>3 DEF Carried, TxByte
  <2>5. PICK q \in Nat : echo[n] = q + 1
    <3>1. echo[n] - 1 \in Nat /\ echo[n] = (echo[n] - 1) + 1
      BY <1>0, <2>1
    <3> QED BY <3>1
  <2>6. echo[n] - 1 = q /\ echo'[n] - 1 = q /\ q * EchoLen \in Nat /\ (q + 1) * EchoLen = q * EchoLen + EchoLen
    BY <1>0, <2>1, <2>5
  <2>7. Sent(n) = q * EchoLen + pos[n] - 1
    BY <2>1, <2>6 DEF Sent
  <2>8. CASE pos[n] = EchoLen
    <3>1. Sent(n)' = (q + 1) * EchoLen
      BY <1>1, <2>1, <2>5, <2>8
    <3> QED BY <1>0, <2>4, <2>6, <2>7, <2>8, <3>1
  <2>9. CASE pos[n] # EchoLen
    <3>1. pos'[n] = pos[n] + 1 /\ pos'[n] # 0
      BY <1>0, <2>1, <2>9
    <3>2. Sent(n)' = q * EchoLen + pos'[n] - 1
      BY <1>1, <2>6, <3>1
    <3> QED BY <1>0, <2>4, <2>6, <2>7, <3>1, <3>2
  <2> QED BY <2>8, <2>9
<1> QED BY <1>2, <1>3, <1>4

LEMMA StepHost ==
    ASSUME StateOK, NEW S, Clock(S), NEW n \in Node
    PROVE  \/ Carried(n, <<"up", 1>>) = <<>> /\ host'[n] = host[n]
           \/ \E b \in RetByte : Carried(n, <<"up", 1>>) = <<b>> /\ host'[n] = host[n] + 1
<1> DEFINE w == Wire[<<"up", 1>>]
<1>1. Moves(<<"up", 1>>) <=> w # <<>>
  BY ReadyUp DEF Moves
<1>2. Carried(n, <<"up", 1>>) = IF w # <<>> /\ w[1].node = n THEN w ELSE <<>>
  BY <1>1 DEF Carried
<1>3. CASE w = <<>>
  BY <1>2, <1>3, StepRoot
<1>4. CASE w # <<>>
  <2>1. w[1] \in RetByte /\ w = <<w[1]>>
    BY <1>4, UpPorts, WireType, SlotFacts
  <2>2. PICK k \in Node : k = w[1].node
    BY <2>1 DEF RetByte
  <2>3. host' = [host EXCEPT ![k] = @ + 1]
    BY <1>4, <2>2, StepRoot
  <2>4. CASE k = n
    <3>1. host'[n] = host[n] + 1
      BY <2>3, <2>4 DEF StateOK
    <3> QED BY <1>2, <1>4, <2>1, <2>2, <2>4, <3>1
  <2>5. CASE k # n
    <3>1. host'[n] = host[n]
      BY <2>3, <2>5 DEF StateOK
    <3> QED BY <1>2, <2>2, <2>5, <3>1
  <2> QED BY <2>4, <2>5
<1> QED BY <1>3, <1>4

Exact(n) == host[n] <= Sent(n) /\ OnSpine(n) = Run(n, host[n], Sent(n))

(* Constant-level: what the two ends of a run do to it.                    *)
OneIn(n, in, k, k1) == \/ in = <<>> /\ k1 = k
                       \/ in = <<Byte(n, k + 1)>> /\ k1 = k + 1

OneOut(out, h, h1) == \/ out = <<>> /\ h1 = h
                      \/ \E b \in RetByte : out = <<b>> /\ h1 = h + 1

LEMMA RunMoves ==
    ASSUME NEW n \in Node, NEW h \in Nat, NEW k \in Nat, h <= k,
           NEW h1, NEW k1, NEW out, NEW in, NEW s, NEW t \in Seq(RetByte),
           s = Run(n, h, k), out \o t = s \o in,
           OneIn(n, in, k, k1), OneOut(out, h, h1)
    PROVE  h1 <= k1 /\ t = Run(n, h1, k1)
<1>1. s \in Seq(RetByte)
  BY RunType
<1>2. k1 \in Nat /\ h <= k1 /\ s \o in = Run(n, h, k1)
  <2>1. CASE in = <<>> /\ k1 = k
    BY <1>1, <2>1, ConcatEmptySeq
  <2>2. CASE in = <<Byte(n, k + 1)>> /\ k1 = k + 1
    <3>1. Run(n, h, k) \o <<Byte(n, k + 1)>> = Run(n, h, k + 1)
      BY RunGrows
    <3>2. s \o in = Run(n, h, k1)
      BY <2>2, <3>1, Zenon
    <3>3. k1 \in Nat /\ h <= k1
      BY <2>2
    <3> QED BY <3>2, <3>3
  <2> QED BY <2>1, <2>2 DEF OneIn
<1>3. CASE out = <<>> /\ h1 = h
  <2>1. out \o t = t
    BY <1>3, ConcatEmptySeq
  <2> QED BY <1>2, <1>3, <2>1
<1>4. CASE \E b \in RetByte : out = <<b>> /\ h1 = h + 1
  <2>1. PICK b \in RetByte : out = <<b>> /\ h1 = h + 1
    BY <1>4
  <2>2. <<b>> \o t = Run(n, h, k1)
    BY <1>2, <2>1
  <2>3. h + 1 <= k1 /\ t = Run(n, h + 1, k1)
    BY <1>2, <2>2, RunShrinks, Zenon
  <2> QED BY <2>1, <2>3
<1> QED BY <1>3, <1>4 DEF OneOut

LEMMA StepExact ==
    ASSUME StateOK, StateOK', SpineOK, SpineOK', NEW S \in SUBSET MayStart, Clock(S),
           NEW n \in Node, Exact(n)
    PROVE  Exact(n)'
<1>1. PICK h \in Nat : h = host[n]
  BY DEF StateOK
<1>2. PICK k \in Nat : k = Sent(n)
  BY SentType
<1>3. PICK h1 : h1 = host'[n]
  OBVIOUS
<1>4. PICK k1 : k1 = Sent(n)'
  OBVIOUS
<1>5. PICK s \in Seq(RetByte) : s = OnSpine(n)
  BY SpineFlow
<1>6. PICK t \in Seq(RetByte) : t = OnSpine(n)'
  BY SpineFlow
<1>7. PICK out : out = Carried(n, <<"up", 1>>)
  OBVIOUS
<1>8. PICK in : in = Carried(n, TxOf(n))
  OBVIOUS
<1>9. out \o t = s \o in
  BY <1>5, <1>6, <1>7, <1>8, SpineFlow
<1>10. OneIn(n, in, k, k1)
  BY <1>2, <1>4, <1>8, StepSent DEF OneIn
<1>11. OneOut(out, h, h1)
  BY <1>1, <1>3, <1>7, StepHost DEF OneOut
<1>12. h <= k /\ s = Run(n, h, k)
  BY <1>1, <1>2, <1>5 DEF Exact
<1>13. h1 <= k1 /\ t = Run(n, h1, k1)
  BY <1>9, <1>10, <1>11, <1>12, RunMoves, Zenon
<1>14. Run(n, h1, k1) = Run(n, host[n], Sent(n))'
  BY <1>3, <1>4 DEF Run, Byte
<1>15. Exact(n)' <=> host'[n] <= Sent(n)' /\ OnSpine(n)' = Run(n, host[n], Sent(n))'
  BY DEF Exact
<1> QED BY <1>3, <1>4, <1>6, <1>13, <1>14, <1>15

(***************************************************************************)
(* The invariant                                                           *)
(***************************************************************************)
ReturnInv == /\ StateOK
             /\ BypassOK
             /\ \E at : Cursors(at)
             /\ SpineOK
             /\ \A n \in Node : Exact(n)

LEMMA InitReturnInv == Init => ReturnInv
<1> SUFFICES ASSUME Init PROVE ReturnInv
  OBVIOUS
<1>0. <<>> \in Slot /\ EchoLen \in Nat /\ Echoes \in [Node -> Nat]
  BY SlotFacts, ReturnAssumption
<1>1. StateOK
  BY <1>0 DEF Init, StateOK
<1>2. BypassOK
  BY DEF Init, BypassOK, Below
<1>3. PICK at : at = [p \in Port |-> <<>>]
  OBVIOUS
<1>4. \A p \in Port : at[p] = <<>>
  BY <1>3
<1>5. Cursors(at)
  <2>1. at \in [Port -> Slot]
    BY <1>0, <1>3
  <2>2. \A n \in Node : at[TxOf(n)] = Owed(n)
    <3>1. \A n \in Node : TxOf(n) \in Port
      BY TxOfNode DEF Port
    <3> QED BY <1>4, <3>1 DEF Init, Owed
  <2>3. \A l \in 1..(NL - 1) : Linked(up[l], at[<<"hfr", l>>], at[<<"up", l + 1>>])
    BY <1>4, UpPorts DEF Init, Linked
  <2>4. at[<<"hfr", NL>>] = <<>>
    <3>1. NL \in Layer
      BY ReturnAssumption DEF Layer
    <3> QED BY <1>4, <3>1, PortKinds DEF Port
  <2>5. \A m \in Merge : TurnOK(state[m], at[InA(m)], at[InB(m)], at[m])
    BY <1>4, MergeInputs DEF Init, TurnOK, Feeds, Below, Port
  <2>6. at[<<"up", 1>>] = IF last = <<>> THEN <<>> ELSE After(last)
    BY <1>4, UpPorts DEF Init
  <2> QED BY <2>1, <2>2, <2>3, <2>4, <2>5, <2>6 DEF Cursors
<1>6. SpineOK
  BY DEF Init, SpineOK
<1>7. ASSUME NEW n \in Node PROVE Exact(n)
  <2>1. Sent(n) = 0 /\ host[n] = 0
    BY <1>0 DEF Init, Sent
  <2>2. Run(n, 0, 0) \in Seq(RetByte) /\ Len(Run(n, 0, 0)) = 0
    BY RunType
  <2>3. Run(n, 0, 0) = <<>>
    BY <2>2, EmptySeq
  <2>4. PICK p : p = [l \in 1..(NL - 1) |-> Slice(n, l)]
    OBVIOUS
  <2>5. OnSpine(n) = FlattenSeq(p)
    BY <2>4 DEF OnSpine, Slice
  <2>6. PICK N \in Nat : N = NL - 1
    BY ReturnAssumption
  <2>7. p \in [1..N -> Seq(RetByte)] /\ \A l \in 1..N : Len(p[l]) <= 0
    <3>1. \A l \in 1..N : Slice(n, l) = <<>>
      BY <2>6 DEF Init, Slice
    <3> QED BY <1>0, <2>4, <2>6, <3>1, SlotFacts
  <2>8. FlattenSeq(p) \in Seq(RetByte) /\ Len(FlattenSeq(p)) <= 0
    <3>1. 0 \in 0..1
      OBVIOUS
    <3> QED BY <2>6, <2>7, <3>1, FlattenShort
  <2>9. FlattenSeq(p) = <<>>
    BY <2>8, LenProperties, EmptySeq
  <2> QED BY <2>1, <2>3, <2>5, <2>9 DEF Exact
<1> QED BY <1>1, <1>2, <1>5, <1>6, <1>7 DEF ReturnInv

LEMMA NextReturnInv == ReturnInv /\ [Next]_vars => ReturnInv'
<1> SUFFICES ASSUME ReturnInv, [Next]_vars PROVE ReturnInv'
  OBVIOUS
<1>1. PICK at : Cursors(at)
  BY DEF ReturnInv
<1>2. CASE Next
  <2>1. PICK S \in SUBSET MayStart : Clock(S)
    BY <1>2 DEF Next, MayStart
  <2>2. PICK nt : nt = Turned(at)
    OBVIOUS
  <2>3. StateOK'
    BY <2>1, StepTypes DEF ReturnInv
  <2>4. BypassOK'
    BY <1>1, <2>1, StepBypass DEF ReturnInv
  <2>5. Cursors(nt)'
    BY <1>1, <2>1, <2>2, StepCursors DEF ReturnInv
  <2>6. SpineOK'
    BY <2>1, StepSpine DEF ReturnInv
  <2>7. \A n \in Node : Exact(n)'
    BY <2>1, <2>3, <2>6, StepExact DEF ReturnInv
  <2> QED BY <2>3, <2>4, <2>5, <2>6, <2>7 DEF ReturnInv
<1>3. CASE UNCHANGED vars
  <2>1. StateOK' /\ BypassOK'
    BY <1>3 DEF vars, ReturnInv, StateOK, BypassOK
  <2>2. Cursors(at)'
    <3>1. \A n \in Node : Owed(n)' = Owed(n)
      BY <1>3 DEF vars, Owed, TxByte, Sent, Byte
    <3> QED BY <1>1, <1>3, <3>1 DEF vars, Cursors
  <2>3. SpineOK'
    BY <1>3 DEF vars, ReturnInv, SpineOK
  <2>4. \A n \in Node : Exact(n)'
    <3>1. \A n \in Node : Sent(n)' = Sent(n) /\ OnSpine(n)' = OnSpine(n)
      BY <1>3 DEF vars, Sent, OnSpine
    <3> QED BY <1>3, <3>1 DEF vars, ReturnInv, Exact
  <2> QED BY <2>1, <2>2, <2>3, <2>4 DEF ReturnInv
<1> QED BY <1>2, <1>3

LEMMA ReturnInvHolds == Spec => []ReturnInv
  BY InitReturnInv, NextReturnInv, PTL DEF Spec

(* The registers keep their widths, no node starts more echoes than it has *)
(* to send, and the root never receives more bytes than they have.         *)
THEOREM ReturnTypes == Spec => []TypeOK
<1>1. ReturnInv => TypeOK
  <2> SUFFICES ASSUME ReturnInv PROVE TypeOK
    OBVIOUS
  <2>1. ASSUME NEW n \in Node
        PROVE  echo[n] \in 0..Echoes[n] /\ host[n] <= Echoes[n] * EchoLen
    <3>1. /\ echo[n] \in Nat /\ Echoes[n] \in Nat /\ EchoLen \in Nat /\ echo[n] <= Echoes[n]
          /\ host[n] \in Nat
      BY ReturnAssumption DEF ReturnInv, StateOK
    <3>2. Sent(n) \in Nat /\ Sent(n) <= echo[n] * EchoLen /\ host[n] <= Sent(n)
      BY SentType DEF ReturnInv, Exact
    <3>3. PICK d \in Nat : Echoes[n] = echo[n] + d
      <4>1. Echoes[n] - echo[n] \in Nat /\ Echoes[n] = echo[n] + (Echoes[n] - echo[n])
        BY <3>1
      <4> QED BY <4>1
    <3>4. Echoes[n] * EchoLen = echo[n] * EchoLen + d * EchoLen /\ d * EchoLen \in Nat /\ echo[n] * EchoLen \in Nat
      BY <3>1, <3>3
    <3> QED BY <3>1, <3>2, <3>4
  <2>2. DOMAIN up = 1..(NL - 1) /\ \A l \in DOMAIN up : Len(up[l]) <= 1
    BY SlotFacts DEF ReturnInv, StateOK
  <2>3. Len(last) <= 1
    BY SlotFacts DEF ReturnInv, StateOK
  <2> QED BY <2>1, <2>2, <2>3 DEF TypeOK, ReturnInv, StateOK
<1> QED BY <1>1, ReturnInvHolds, PTL

(* Whatever the contention, the bytes a node has sent and the root has not *)
(* received are in the spine registers, once each and in order.            *)
THEOREM EchoesExact == Spec => []EchoBytesExact
<1>1. ReturnInv => EchoBytesExact
  BY DEF ReturnInv, Exact, Run, EchoBytesExact
<1> QED BY <1>1, ReturnInvHolds, PTL

(* For every tree of merges, every length of the echoes and every number   *)
(* of them: the root sees packets whole, never two of them mixed.          *)
THEOREM RootSeesPackets == Spec => RootSeesWholePackets
<1>1. ReturnInv /\ [Next]_vars =>
         [last' # last => IF last = <<>> \/ eop(last[1])
                          THEN sop(last'[1])
                          ELSE last'[1] = Byte(last[1].node, last[1].k + 1)]_vars
  <2> SUFFICES ASSUME ReturnInv, Next, last' # last
               PROVE  IF last = <<>> \/ eop(last[1])
                      THEN sop(last'[1])
                      ELSE last'[1] = Byte(last[1].node, last[1].k + 1)
    BY DEF vars
  <2>1. PICK at : Cursors(at)
    BY DEF ReturnInv
  <2>2. PICK S \in SUBSET MayStart : Clock(S)
    BY DEF Next, MayStart
  <2> DEFINE w == Wire[<<"up", 1>>]
             c == at[<<"up", 1>>]
  <2>3. w # <<>> /\ last' = w
    BY <2>2, StepRoot DEF ReturnInv
  <2>4. Fits(w, c)
    BY <2>1, UpPorts, AllFit DEF ReturnInv
  <2>5. c = IF last = <<>> THEN <<>> ELSE After(last)
    BY <2>1 DEF Cursors
  <2> HIDE DEF w, c
  <2>6. <<Byte(last[1].node, last[1].k + 1)>> # <<>>
    OBVIOUS
  <2>7. CASE last = <<>> \/ eop(last[1])
    BY <2>3, <2>4, <2>5, <2>7 DEF Fits, After
  <2>8. CASE ~(last = <<>> \/ eop(last[1]))
    <3>1. c = <<Byte(last[1].node, last[1].k + 1)>>
      BY <2>5, <2>8 DEF After
    <3>2. w = c
      BY <2>3, <2>4, <2>6, <3>1 DEF Fits
    <3>3. last'[1] = Byte(last[1].node, last[1].k + 1)
      BY <2>3, <3>1, <3>2
    <3> QED BY <2>8, <3>3
  <2> QED BY <2>7, <2>8
<1> QED BY <1>1, ReturnInvHolds, PTL DEF Spec, RootSeesWholePackets

(* A head that waits at a merge sees at most one packet go before it.      *)
THEOREM HeadsBypassedOnce == Spec => []BypassedOnce
<1>1. ReturnInv => BypassedOnce
  BY DEF ReturnInv, BypassOK, BypassedOnce, Below
<1> QED BY <1>1, ReturnInvHolds, PTL

=============================================================================
