---------------------------- MODULE ReturnFabric ----------------------------
(***************************************************************************)
(* The return fabric wired by sim/internal/pnm/gen_topology.go: a tree of  *)
(* vc_merge arbiters without a register between them on every board, and   *)
(* the ascending spine of vc_merge + hfr up to the root, which is always   *)
(* ready.                                                                  *)
(*                                                                         *)
(*   tx(0) tx(1)  tx(2)        column: "y" merges, row 0 first             *)
(*      \  /      /                                                        *)
(*       y 0 --- y 1 ...       board:  "x" merges, column 0 first          *)
(*                 \                                                       *)
(*   board egress --A-- up(l) ---> hfr ---> B of up(l - 1) ... ---> root   *)
(*                                                                         *)
(* One step is one edge of the common clock: the wires and the readies are *)
(* functions of the state, and every register is updated at once.          *)
(***************************************************************************)
EXTENDS Naturals, Sequences, SequencesExt

CONSTANTS NL, Bx, By,   \* layers, columns and rows
          EchoLen,      \* bytes of a node's echo message
          Echoes        \* Echoes[n]: how many echoes node n will send

Layer == 1..NL
Node  == Layer \X (0..(Bx - 1)) \X (0..(By - 1))

(* pe_tile_stub's shortest echo (header, length, CRC) has six bytes; what  *)
(* matters to an arbiter is that a packet has a head other than its tail.  *)
ASSUME ReturnAssumption ==
    /\ NL \in Nat \ {0} /\ Bx \in Nat \ {0} /\ By \in Nat \ {0}
    /\ EchoLen \in Nat /\ EchoLen >= 2
    /\ Echoes \in [Node -> Nat]

-----------------------------------------------------------------------------
(* The wiring.  A port is named after what drives it: a node's tx, a merge *)
(* or a spine register.                                                    *)
TxPort  == {<<"tx", n[1], n[2], n[3]>> : n \in Node}
HfrPort == {<<"hfr", l>> : l \in Layer}     \* B input of up(l)
YMerge  == {<<"y", l, x, y>> : l \in Layer, x \in 0..(Bx - 1), y \in 0..(By - 2)}
XMerge  == {<<"x", l, x>> : l \in Layer, x \in 0..(Bx - 2)}
UpMerge == {<<"up", l>> : l \in Layer}
Merge   == YMerge \cup XMerge \cup UpMerge
Port    == TxPort \cup HfrPort \cup Merge

Column(l, x) == IF By > 1 THEN <<"y", l, x, By - 2>> ELSE <<"tx", l, x, 0>>
Board(l)     == IF Bx > 1 THEN <<"x", l, Bx - 2>> ELSE Column(l, 0)

InA(m) == CASE m[1] = "y"  -> IF m[4] = 0 THEN <<"tx", m[2], m[3], 0>>
                                          ELSE <<"y", m[2], m[3], m[4] - 1>>
            [] m[1] = "x"  -> IF m[3] = 0 THEN Column(m[2], 0)
                                          ELSE <<"x", m[2], m[3] - 1>>
            [] m[1] = "up" -> Board(m[2])

InB(m) == CASE m[1] = "y"  -> <<"tx", m[2], m[3], m[4] + 1>>
            [] m[1] = "x"  -> Column(m[2], m[3] + 1)
            [] m[1] = "up" -> <<"hfr", m[2]>>

(* The merge that p is an input of (none for the "up" merges).             *)
Into == [p \in Port \ UpMerge |-> CHOOSE m \in Merge : p \in {InA(m), InB(m)}]
Side == [p \in Port \ UpMerge |-> IF p = InA(Into[p]) THEN "A" ELSE "B"]

-----------------------------------------------------------------------------
VARIABLES pos,      \* pos[n]: byte of the echo on n's tx port, 0 when none
          echo,     \* echo[n]: echoes n has started
          state,    \* state[m]: state_q of a merge, "IDLE", "A" or "B"
          pri,      \* pri[m]: pri_q, the port that goes first when both wait
          up,       \* up[l]: hfr between up(l + 1) and up(l), <<>> or one byte
          host,     \* host[n]: history, bytes of n the root has received
          last,     \* history: the byte the root received last
          bypass    \* bypass[p]: history, packets let through the other input
                    \*   of its merge while a head has waited on p

vars == <<pos, echo, state, pri, up, host, last, bypass>>

(* Byte k of everything node n ever sends.                                 *)
Byte(n, k) == [node |-> n, k |-> k]
sop(b) == b.k % EchoLen = 1
eop(b) == b.k % EchoLen = 0

Sent(n) == IF pos[n] = 0 THEN echo[n] * EchoLen
                         ELSE (echo[n] - 1) * EchoLen + pos[n] - 1

(* Which input an idle merge would enter.                                  *)
Enter(m, a, b) ==
    IF pri[m] = "A"
    THEN IF a # <<>> THEN "A" ELSE IF b # <<>> THEN "B" ELSE "IDLE"
    ELSE IF b # <<>> THEN "B" ELSE IF a # <<>> THEN "A" ELSE "IDLE"

(* What every port carries this cycle: <<>> or the byte with valid set.    *)
Wire[p \in Port] ==
    CASE p[1] = "tx"  -> LET n == Tail(p) IN
                         IF pos[n] = 0 THEN <<>> ELSE <<Byte(n, Sent(n) + 1)>>
      [] p[1] = "hfr" -> IF p[2] < NL THEN up[p[2]] ELSE <<>>
      [] OTHER        -> LET a == Wire[InA(p)]
                             b == Wire[InB(p)]
                         IN  IF \/ state[p] = "A"
                                \/ state[p] = "IDLE" /\ Enter(p, a, b) = "A"
                             THEN a ELSE b

(* g_a and g_b: the input whose byte is on the output.                     *)
Granted(m) == IF state[m] = "IDLE" THEN Enter(m, Wire[InA(m)], Wire[InB(m)])
                                   ELSE state[m]

(* hfr.in_ready, from the ready of what follows the register.              *)
(* Mutants: a register that takes a byte it has no room for; one that      *)
(* takes a byte only when it is handing one on.                            *)
HfrReadyAlways(l, ready) == TRUE
HfrReadyStrict(l, ready) == ready
HfrReady(l, ready) == up[l] = <<>> \/ ready

(* The ready that the driver of port p sees.                               *)
Ready[p \in Port] ==
    CASE p = <<"up", 1>> -> TRUE
      [] p[1] = "up" /\ p[2] > 1 -> HfrReady(p[2] - 1, Ready[<<"hfr", p[2] - 1>>])
      [] OTHER -> LET m == Into[p] IN
                  /\ Ready[m] \/ Wire[m] = <<>>
                  /\ Granted(m) = Side[p]

(* out_advance: without it a merge's registers keep their value.           *)
Advance(m) == Ready[m] \/ Wire[m] = <<>>

Ends(p) == Wire[p] # <<>> /\ eop(Wire[p][1])

-----------------------------------------------------------------------------
Init == /\ pos = [n \in Node |-> 0] /\ echo = [n \in Node |-> 0]
        /\ state = [m \in Merge |-> "IDLE"]
        /\ pri = [m \in Merge |-> "A"]
        /\ up = [l \in 1..(NL - 1) |-> <<>>]
        /\ host = [n \in Node |-> 0]
        /\ last = <<>>
        /\ bypass = [p \in Port \ UpMerge |-> 0]

(* The echo advances when its byte is taken and ends after the last one.   *)
NextPos(n) == IF pos[n] = 0 \/ ~Ready[<<"tx">> \o n] THEN pos[n]
              ELSE IF pos[n] = EchoLen THEN 0 ELSE pos[n] + 1

(* Mutants: the decision is taken on every byte; the grant is kept by the  *)
(* input whose packet has ended.                                           *)
NextStatePerByte(m) == Enter(m, Wire[InA(m)], Wire[InB(m)])
NextStateKept(m)    == Granted(m)

(* The grant is held to the packet's last byte and then handed to the      *)
(* other input if a byte waits there.                                      *)
NextState(m) ==
    CASE state[m] = "IDLE" -> Granted(m)
      [] state[m] = "A" -> IF ~Ends(InA(m)) THEN "A"
                           ELSE IF Wire[InB(m)] # <<>> THEN "B" ELSE "IDLE"
      [] state[m] = "B" -> IF ~Ends(InB(m)) THEN "B"
                           ELSE IF Wire[InA(m)] # <<>> THEN "A" ELSE "IDLE"

NextPri(m) == CASE state[m] = "A" /\ Ends(InA(m)) -> "B"
                [] state[m] = "B" /\ Ends(InB(m)) -> "A"
                [] OTHER -> pri[m]

(* History: a head that waits on p counts the packets that end on the      *)
(* other input of its merge.                                               *)
NextBypass(p) ==
    LET m == Into[p]
        other == IF Side[p] = "A" THEN InB(m) ELSE InA(m)
    IN  IF Wire[p] = <<>> \/ Ready[p] THEN 0
        ELSE IF Ends(other) /\ Ready[other] THEN bypass[p] + 1 ELSE bypass[p]

(* One clock edge; the nodes of S have just delivered the last byte of a   *)
(* message whose return flag is set, and start its echo.                   *)
Clock(S) ==
    /\ pos'    = [n \in Node |-> IF n \in S THEN 1 ELSE NextPos(n)]
    /\ echo'   = [n \in Node |-> IF n \in S THEN echo[n] + 1 ELSE echo[n]]
    /\ state'  = [m \in Merge |-> IF Advance(m) THEN NextState(m) ELSE state[m]]
    /\ pri'    = [m \in Merge |-> IF Advance(m) THEN NextPri(m) ELSE pri[m]]
    /\ up'     = [l \in 1..(NL - 1) |->
                    IF HfrReady(l, Ready[<<"hfr", l>>])
                    THEN Wire[<<"up", l + 1>>] ELSE up[l]]
    /\ bypass' = [p \in Port \ UpMerge |-> NextBypass(p)]
    /\ IF Wire[<<"up", 1>>] = <<>>
       THEN UNCHANGED <<host, last>>
       ELSE /\ last' = Wire[<<"up", 1>>]
            /\ host' = [host EXCEPT ![last'[1].node] = @ + 1]

Next == \E S \in SUBSET {n \in Node : pos[n] = 0 /\ echo[n] < Echoes[n]} : Clock(S)

Spec == Init /\ [][Next]_vars

(* The clock runs for ever; when a node has an echo to send is its affair. *)
FairSpec == Spec /\ WF_vars(Next)

-----------------------------------------------------------------------------
(* Properties                                                              *)

(* The registers hold values of their widths.                              *)
TypeOK ==
    /\ pos \in [Node -> 0..EchoLen]
    /\ \A n \in Node : echo[n] \in 0..Echoes[n] /\ host[n] <= Echoes[n] * EchoLen
    /\ state \in [Merge -> {"IDLE", "A", "B"}]
    /\ pri \in [Merge -> {"A", "B"}]
    /\ DOMAIN up = 1..(NL - 1) /\ \A l \in DOMAIN up : Len(up[l]) <= 1
    /\ Len(last) <= 1

(* Bytes of n in the spine registers, the one nearest the root first.      *)
OnSpine(n) == FlattenSeq([l \in 1..(NL - 1) |->
                             IF up[l] # <<>> /\ up[l][1].node = n THEN up[l] ELSE <<>>])

(* Whatever the contention, every byte a node has sent is at the root or,  *)
(* once and in order, in a register of the spine: no echo byte is lost,    *)
(* duplicated or reordered by the arbiters ("no loss, no duplication, no   *)
(* reorder", docs/pnm.md).                                                 *)
EchoBytesExact ==
    \A n \in Node : OnSpine(n) = [i \in 1..(Sent(n) - host[n]) |->
                                       Byte(n, host[n] + i)]

(* "Packets are never torn" (vc_merge): at the root, as in any register on *)
(* the way, a byte that does not end its packet is followed by the next    *)
(* byte of the same packet, and a packet starts with its head.             *)
RootSeesWholePackets ==
    [][last' # last =>
         IF last = <<>> \/ eop(last[1])
         THEN sop(last'[1])
         ELSE last'[1] = Byte(last[1].node, last[1].k + 1)]_vars

(* Round robin: a head that waits at a merge sees at most one packet go    *)
(* through the other input before it is its turn.                          *)
BypassedOnce == \A p \in Port \ UpMerge : bypass[p] <= 1

(* An echo that a node has started reaches the root to its last byte,      *)
(* however many other nodes keep sending: the merges cannot deadlock or    *)
(* starve an input (docs/pnm.md, the acyclic class argument).              *)
EchoReachesHost ==
    \A n \in Node : \A i \in 1..Echoes[n] :
        echo[n] >= i ~> host[n] >= i * EchoLen
=============================================================================
