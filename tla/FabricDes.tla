------------------------------ MODULE FabricDes ------------------------------
(***************************************************************************)
(* The discrete-event simulation of a fabric slice (des.go).  Pipe         *)
(* registers hold a byte each; an event offers one register's byte to the  *)
(* gates in front of it, which moves it when the next register is empty or *)
(* its own byte moves.  A register is decided once a cycle and remembers   *)
(* the outcome; what its move changes is deferred to the cycle's end.  The *)
(* heap orders events by cycle only, so which event of a cycle comes first *)
(* is left open here.                                                      *)
(*                                                                         *)
(* A register is named <<kind, layer index, column, row>> as far as it has *)
(* them, a merge likewise.  tryMove recurses down the chain of registers   *)
(* that wait for each other; here the chain is followed first and decided  *)
(* from its far end.                                                       *)
(***************************************************************************)
EXTENDS CosimProgram, TLC

CONSTANT DesWatchdog   \* cycles after which run() gives up

VARIABLE des           \* desModel, with the Delivery it writes (out)

PE_PIPE_DELAY == 2
NoByte == [d |-> -1]
Drop   == <<"drop">>
Tied   == <<"tied">>
Inj    == <<"inj">>
TailEnd == <<"tail">>
TailUp == <<"tailup">>

LayerIdx(g) == 0 .. g.nl - 1
Cols(g) == 0 .. g.bx - 1
Rows(g) == 0 .. g.by - 1
Of(kinds, g) == kinds \X LayerIdx(g) \X Cols(g) \X Rows(g)

(* newDES: the registers that hold a byte, and the merges.                 *)
Holding(g) ==
  {Inj} \cup ({"sp"} \X LayerIdx(g)) \cup ({"up"} \X (0 .. g.nl - 2))
        \cup ({"xh"} \X LayerIdx(g) \X (0 .. g.bx - 2)) \cup Of({"pe0", "pe1", "txe"}, g)

Merges(g) ==
  ({"ym"} \X LayerIdx(g) \X Cols(g) \X (0 .. g.by - 2)) \cup
  ({"xm"} \X LayerIdx(g) \X (0 .. g.bx - 2)) \cup ({"upm"} \X LayerIdx(g))

IsPe(r) == r[1] \in {"pe0", "pe1"}
NodeOf(g, r) == << g.base + r[2], r[3], r[4] >>

(* slicePackets: a packet per flit of the slice, and the stimulus, every   *)
(* byte with its packet and its place in the node's DMA stream.            *)
DesPacket(p, base, w) ==
  IF w.dest = PassThrough
    THEN [pt |-> TRUE, li |-> 0, x |-> 0, y |-> 0, delivered |-> <<>>, echo |-> <<>>,
          corrupt |-> FALSE]
    ELSE [pt |-> FALSE, li |-> w.dest[1] - base, x |-> w.dma[1] \div 16, y |-> w.dma[1] % 16,
          delivered |-> StubOutput(w.dma, p.nodes[w.dest].bias), echo |-> w.echo,
          corrupt |-> w.corrupt]

Stimulus(order) ==
  FlattenSeq([i \in DOMAIN order |-> [k \in DOMAIN order[i].wf |->
    order[i].wf[k] @@ [bs |-> FALSE, pkt |-> i,
                       dma |-> IF order[i].dest = PassThrough \/ k = 1 THEN -1 ELSE k - 2]]])

EmptyDelivery(lids, d) ==
  [ inject |-> <<>>, tail |-> <<>>, tailup |-> <<>>,
    nodes |-> [n \in AllNodesIn(lids, d) |-> <<>>], corrupt |-> [n \in AllNodesIn(lids, d) |-> <<>>],
    xres |-> [l \in lids |-> <<>>], yres |-> [k \in lids \X (0 .. d.bx - 1) |-> <<>>] ]

NewDES(p, lids, d, order) ==
  LET base == CHOOSE l \in lids : \A k \in lids : l <= k
      g    == [nl |-> Cardinality(lids), bx |-> d.bx, by |-> d.by, base |-> base]
      stim == Stimulus(order)
  IN  [ g |-> g, stim |-> stim, pkts |-> [i \in DOMAIN order |-> DesPacket(p, base, order[i])],
        duty |-> [n \in AllNodesIn(lids, d) |-> p.nodes[n].duty],
        pos |-> 1, now |-> 0, todo |-> IF stim = <<>> THEN {} ELSE {Inj}, next |-> {},
        occ |-> [r \in Holding(g) |-> IF r = Inj /\ stim # <<>> THEN stim[1] ELSE NoByte],
        late |-> {}, pend |-> <<>>, dec |-> <<>>,
        match |-> [li \in LayerIdx(g) |-> FALSE], strip |-> [li \in LayerIdx(g) |-> FALSE],
        clear |-> {}, turn |-> [k \in LayerIdx(g) \X Cols(g) |-> FALSE],
        eject |-> [k \in LayerIdx(g) \X Cols(g) \X Rows(g) |-> FALSE],
        echoStart |-> [n \in AllNodesIn(lids, d) |-> -1], busyEnd |-> [n \in AllNodesIn(lids, d) |-> -1],
        merge |-> [m \in Merges(g) |-> [st |-> "idle", pri |-> 0]], pm |-> <<>>,
        out |-> EmptyDelivery(lids, d) ]

-----------------------------------------------------------------------------
(* The gate clouds.  Route is what the byte of register r does to the      *)
(* gates that see it, and where it goes.                                   *)
PktOf(s, b) == s.pkts[b.pkt]
Routed(s, to) == [s |-> s, to |-> to]

(* yLane: the first eject gate of the column that matches takes the byte;  *)
(* the gates behind it do not see it.                                      *)
RouteLane(s, b, li, x) ==
  LET sees(y) == IF b.bs THEN ~PktOf(s, b).pt /\ PktOf(s, b).y = y /\ b.vc = VC_ONBOARD_DELIVER
                 ELSE s.eject[<<li, x, y>>]
      hits    == { y \in Rows(s.g) : sees(y) }
      seen    == { k \in DOMAIN s.eject : k[1] = li /\ k[2] = x /\ \A h \in hits : k[3] <= h }
  IN  Routed([s EXCEPT !.eject = [k \in DOMAIN @ |-> IF k \in seen THEN sees(k[3]) ELSE @[k]]],
             IF hits = {} THEN <<"yres", li, x>>
             ELSE <<"pe0", li, x, CHOOSE y \in hits : \A h \in hits : y <= h>>)

RouteBoard(s, b, li, x) ==
  LET turns == IF b.bs THEN ~PktOf(s, b).pt /\ PktOf(s, b).x = x /\ b.vc = VC_ONBOARD_DELIVER
               ELSE s.turn[<<li, x>>]
      u     == [s EXCEPT !.turn[<<li, x>>] = turns]
  IN  IF turns THEN RouteLane(u, b, li, x)
      ELSE Routed(u, IF x = s.g.bx - 1 THEN <<"xres", li>> ELSE <<"xh", li, x>>)

OnBoard(b, strip) == IF strip THEN [b EXCEPT !.bs = TRUE, !.vc = VC_ONBOARD_DELIVER]
                     ELSE [b EXCEPT !.bs = FALSE]

MatchesHere(s, b, li) == ~PktOf(s, b).pt /\ PktOf(s, b).li = li /\ b.vc = VC_SPINE_DESCENT

(* rptCloud: the matching LAYER byte is consumed, the next one opens the   *)
(* message on the board, anything else rides down the spine.               *)
RouteRpt(s, r, b, li) ==
  IF b.s
    THEN Routed([s EXCEPT !.match[li] = MatchesHere(s, b, li),
                          !.strip[li] = @ \/ MatchesHere(s, b, li)],
                IF MatchesHere(s, b, li) THEN Drop ELSE <<"sp", li>>)
  ELSE IF s.match[li] /\ PktOf(s, b).li = li
    THEN RouteBoard([s EXCEPT !.occ[r] = OnBoard(b, s.strip[li])], OnBoard(b, s.strip[li]), li, 0)
  ELSE Routed(s, <<"sp", li>>)

Route(s, r) ==
  CASE r[1] = "inj" -> RouteRpt(s, r, s.occ[r], 0)
    [] r[1] = "sp"  -> IF r[2] = s.g.nl - 1 THEN Routed(s, TailEnd)
                       ELSE RouteRpt(s, r, s.occ[r], r[2] + 1)
    [] r[1] = "xh"  -> RouteBoard(s, s.occ[r], r[2], r[3] + 1)
    [] r[1] = "pe0" -> Routed(s, <<"pe1", r[2], r[3], r[4]>>)

-----------------------------------------------------------------------------
(* The egress merge tree: the two inputs of a merge, a register or another *)
(* merge, and what a merge presents.                                       *)
ColWire(g, li, x) == IF g.by > 1 THEN <<"ym", li, x, g.by - 2>> ELSE <<"txe", li, x, 0>>

InA(g, m) ==
  CASE m[1] = "ym" -> IF m[4] = 0 THEN <<"txe", m[2], m[3], 0>> ELSE <<"ym", m[2], m[3], m[4] - 1>>
    [] m[1] = "xm" -> IF m[3] = 0 THEN ColWire(g, m[2], 0) ELSE <<"xm", m[2], m[3] - 1>>
    [] m[1] = "upm" -> IF g.bx > 1 THEN <<"xm", m[2], g.bx - 2>> ELSE ColWire(g, m[2], 0)

InB(g, m) ==
  CASE m[1] = "ym" -> <<"txe", m[2], m[3], m[4] + 1>>
    [] m[1] = "xm" -> ColWire(g, m[2], m[3] + 1)
    [] m[1] = "upm" -> IF m[2] = g.nl - 1 THEN Tied ELSE <<"up", m[2]>>

Presents(s, r) == s.occ[r] # NoByte /\ r \notin s.late
Nothing == [reg |-> Tied, path |-> {}]

(* gAgB: the port a merge grants.                                          *)
GrantsA(mg, av, bv) == \/ mg.st = "A"
                       \/ mg.st = "idle" /\ av /\ (mg.pri = 0 \/ ~bv)
GrantsB(mg, av, bv) == \/ mg.st = "B"
                       \/ mg.st = "idle" /\ bv /\ (mg.pri = 1 \/ ~av)

(* mergeOutByte for every merge: the register whose byte gets through and  *)
(* the merges on its path.                                                 *)
Presented(s) ==
  LET out[m \in Merges(s.g)] ==
        LET from(i) == IF i = Tied THEN Nothing
                       ELSE IF i \in DOMAIN s.merge THEN out[i]
                       ELSE IF Presents(s, i) THEN [reg |-> i, path |-> {}] ELSE Nothing
            a == from(InA(s.g, m))
            b == from(InB(s.g, m))
            through(i) == [reg |-> i.reg, path |-> i.path \cup {m}]
        IN  IF GrantsA(s.merge[m], a.reg # Tied, b.reg # Tied) THEN through(a)
            ELSE IF GrantsB(s.merge[m], a.reg # Tied, b.reg # Tied) THEN through(b) ELSE Nothing
  IN  out

(* mergeAdvance, for every merge on the path of register r's byte.         *)
Advanced(mg, aSeen, bSeen, fromA, eop) ==
  CASE mg.st = "A" /\ eop -> [st |-> IF bSeen THEN "B" ELSE "idle", pri |-> 1]
    [] mg.st = "B" /\ eop -> [st |-> IF aSeen THEN "A" ELSE "idle", pri |-> 0]
    [] mg.st = "idle"     -> [st |-> IF fromA THEN "A" ELSE "B", pri |-> mg.pri]
    [] OTHER              -> mg

AdvanceMerges(s, shown, r, path) ==
  LET reg(i) == IF i = Tied THEN Tied ELSE IF i \in DOMAIN shown THEN shown[i].reg
                ELSE IF Presents(s, i) THEN i ELSE Tied
  IN  [s EXCEPT !.pm = [m \in path |-> Advanced(s.merge[m], reg(InA(s.g, m)) # Tied,
                                                reg(InB(s.g, m)) # Tied,
                                                reg(InA(s.g, m)) = r, s.occ[r].e)] @@ @]

EgressEnd(li) == IF li = 0 THEN TailUp ELSE <<"up", li - 1>>
EgressGrant(s, r) == Presented(s)[<<"upm", r[2]>>]

-----------------------------------------------------------------------------
(* Movement within a cycle.  EchoBusy freezes a node's pipe while its echo *)
(* goes out.                                                               *)
EchoBusy(s, n) == s.echoStart[n] >= 0 /\ s.now >= s.echoStart[n] /\ s.now < s.busyEnd[n]

IsHeld(s, r) == r \in DOMAIN s.occ
Frozen(s, r) == IsPe(r) /\ EchoBusy(s, NodeOf(s.g, r))

(* accepts, once the register has been decided if it holds a byte.         *)
Accepts(s, to) ==
  \/ ~IsHeld(s, to)
  \/ ~Frozen(s, to) /\ (s.occ[to] = NoByte \/ (to \in DOMAIN s.dec /\ s.dec[to]))

Again(s, r)     == [s EXCEPT !.next = @ \cup {r}]
Latch(s, r, b)  == [s EXCEPT !.pend = (r :> b) @@ @, !.next = IF b = NoByte THEN @ ELSE @ \cup {r}]
Decided(s, r, moved) == [s EXCEPT !.dec = (r :> moved) @@ @]
Stall(s, r)     == Again(Decided(s, r, FALSE), r)

LogEntry(s, b, vc) == [cyc |-> s.now, d |-> b.d, s |-> b.s, e |-> b.e, vc |-> vc]

(* A mutant: the register behind refills this one wherever its byte goes.  *)
RefillAny(s, r, src) ==
  IF ~Presents(s, src) THEN Latch(s, r, NoByte)
  ELSE Latch(Route(s, src).s, r, Route(s, src).s.occ[src])

(* refillFrom: the register behind takes the place of the byte that moved, *)
(* if that is where it goes.                                               *)
Refill(s, r, src) ==
  IF ~Presents(s, src) THEN Latch(s, r, NoByte)
  ELSE LET look == Route(s, src)
       IN  Latch(look.s, r, IF look.to = r THEN look.s.occ[src] ELSE NoByte)

Behind(s, r) ==
  CASE r[1] = "sp" \/ (r[1] \in {"xh", "pe0"} /\ r[3] = 0) ->
         IF r[2] = 0 THEN Inj ELSE <<"sp", r[2] - 1>>
    [] r[1] \in {"xh", "pe0"} /\ r[3] > 0 -> <<"xh", r[2], r[3] - 1>>
    [] r[1] = "pe1" -> <<"pe0", r[2], r[3], r[4]>>

(* The next stimulus byte.                                                 *)
NextStimulus(s) ==
  Latch([s EXCEPT !.pos = @ + 1], Inj,
        IF s.pos < Len(s.stim) THEN s.stim[s.pos + 1] ELSE NoByte)

EchoByte(pkt, echo, k) ==
  [d |-> echo[k], s |-> k = 1, bs |-> FALSE, e |-> k = Len(echo), vc |-> VC_BOARD_EGRESS,
   pkt |-> pkt, dma |-> k - 1]

(* txeAdvance: the echo's next byte; after the last the pipe thaws.        *)
NextEcho(s, r) ==
  LET b    == s.occ[r]
      echo == PktOf(s, b).echo
      n    == NodeOf(s.g, r)
  IN  IF b.dma + 1 < Len(echo) THEN Latch(s, r, EchoByte(b.pkt, echo, b.dma + 2))
      ELSE Latch([s EXCEPT !.busyEnd[n] = IF @ > s.now + 1 THEN @ ELSE s.now + 1], r, NoByte)

(* The upmerge of the repeater below fills an up-spine register.           *)
RefillUp(s, r) ==
  LET shown == Presented(s)
      got   == shown[<<"upm", r[2] + 1>>]
  IN  IF got.reg = Tied THEN Latch(s, r, NoByte)
      ELSE Latch(AdvanceMerges(s, shown, got.reg, got.path), r, s.occ[got.reg])

FillFromUpstream(s, r) ==
  CASE r[1] = "inj" -> NextStimulus(s)
    [] r[1] = "txe" -> NextEcho(s, r)
    [] r[1] = "up"  -> RefillUp(s, r)
    [] OTHER        -> Refill(s, r, Behind(s, r))

(* onMove: sinks log, registers latch.                                     *)
Land(s, r, to) ==
  LET b == s.occ[r]
      log(vc) == LogEntry(s, b, vc)
  IN  CASE IsHeld(s, to)  -> Latch(s, to, b)
        [] to = TailEnd   -> [s EXCEPT !.out.tail = Append(@, log(b.vc))]
        [] to = TailUp    -> [s EXCEPT !.out.tailup = Append(@, log(VC_SPINE_ASCENT))]
        [] to[1] = "xres" -> [s EXCEPT !.out.xres[s.g.base + r[2]] = Append(@, log(0))]
        [] to[1] = "yres" -> [s EXCEPT !.out.yres[<<s.g.base + r[2], r[3]>>] = Append(@, log(0))]

(* armEcho: the emitter gets the first echo byte for the next cycle.       *)
ArmEcho(s, r, pkt) ==
  LET echo == s.pkts[pkt].echo
      txe  == <<"txe", r[2], r[3], r[4]>>
      n    == NodeOf(s.g, r)
  IN  IF echo = <<>> THEN s
      ELSE Again([s EXCEPT !.occ[txe] = EchoByte(pkt, echo, 1), !.late = @ \cup {txe},
                           !.echoStart[n] = s.now + 1, !.busyEnd[n] = s.now + 1 + Len(echo)], txe)

(* The node's DMA port takes a byte in every duty-th cycle.                *)
Deliver(s, r) ==
  LET b == s.occ[r]
      n == NodeOf(s.g, r)
      pkt  == PktOf(s, b)
      last == b.dma = Len(pkt.delivered) - 1
      landed == [cyc |-> s.now, d |-> pkt.delivered[b.dma + 1], s |-> b.dma = 0, e |-> last,
                 vc |-> VC_ONBOARD_DELIVER]
      t == [s EXCEPT !.out.nodes[n] = Append(@, landed),
                     !.out.corrupt[n] = IF pkt.corrupt /\ last THEN Append(@, s.now + 1) ELSE @]
  IN  IF EchoBusy(s, n) \/ s.now % s.duty[n] # 0 THEN Stall(s, r)
      ELSE Again(FillFromUpstream(Decided(IF b.e THEN ArmEcho(t, r, b.pkt) ELSE t, r, TRUE), r), r)

(* A stalled echo byte keeps the pipe frozen.                              *)
ExtendBusy(s, r) ==
  LET n == NodeOf(s.g, r)
      end == s.now + Len(PktOf(s, s.occ[r]).echo) - s.occ[r].dma + 1
  IN  IF r[1] = "txe" THEN [s EXCEPT !.busyEnd[n] = IF end > @ THEN end ELSE @] ELSE s

DecideEgress(s, r) ==
  LET shown == Presented(s)
      got   == shown[<<"upm", r[2]>>]
      to    == EgressEnd(r[2])
  IN  IF got.reg # r \/ ~Accepts(s, to) THEN Stall(ExtendBusy(s, r), r)
      ELSE FillFromUpstream(AdvanceMerges(Land(Decided(s, r, TRUE), r, to), shown, r, got.path), r)

(* The injector's record has the class the byte entered with.              *)
LogInject(s, r, vc) ==
  IF r = Inj THEN [s EXCEPT !.out.inject = Append(@, LogEntry(s, s.occ[Inj], vc))] ELSE s

StripDone(s, r, to) ==
  IF r[1] \in {"inj", "sp"} /\ to # TailEnd
    THEN [s EXCEPT !.clear = @ \cup {IF r = Inj THEN 0 ELSE r[2] + 1}] ELSE s

DecideDown(s, r) ==
  LET look == Route(s, r)
      vc   == s.occ[r].vc
  IN  IF look.to = Drop THEN FillFromUpstream(LogInject(Decided(look.s, r, TRUE), r, vc), r)
      ELSE IF ~Accepts(look.s, look.to) THEN Stall(look.s, r)
      ELSE FillFromUpstream(Land(StripDone(LogInject(Decided(look.s, r, TRUE), r, vc), r, look.to),
                                 r, look.to), r)

Decide(s, r) ==
  CASE r[1] = "pe1"           -> Deliver(s, r)
    [] r[1] \in {"txe", "up"} -> DecideEgress(s, r)
    [] OTHER                  -> DecideDown(s, r)

(* Whom the byte of r waits for.                                           *)
WaitsFor(s, r) ==
  CASE r[1] = "pe1"           -> Tied
    [] r[1] \in {"txe", "up"} -> IF EgressGrant(s, r).reg = r THEN EgressEnd(r[2]) ELSE Tied
    [] OTHER                  -> Route(s, r).to

Undecided(s, r) == IsHeld(s, r) /\ Presents(s, r) /\ r \notin DOMAIN s.dec

Chain(s, r) ==
  FoldLeft(LAMBDA ch, i : LET to == WaitsFor(s, Last(ch))
                          IN  IF Len(ch) = i /\ Undecided(s, to) /\ ~Frozen(s, to)
                                THEN Append(ch, to) ELSE ch,
           <<r>>, [i \in 1 .. Cardinality(DOMAIN s.occ) |-> i])

TryMove(s, r) ==
  IF ~Undecided(s, r) THEN s
  ELSE FoldRight(LAMBDA q, t : Decide(t, q), Chain(s, r), s)

-----------------------------------------------------------------------------
(* applyPending, when the events of a cycle are done.                      *)
ApplyPending(s) ==
  [s EXCEPT !.now = @ + 1, !.todo = s.next, !.next = {}, !.late = {}, !.pend = <<>>, !.dec = <<>>,
            !.occ = s.pend @@ @, !.merge = s.pm @@ @, !.pm = <<>>, !.clear = {},
            !.strip = [li \in DOMAIN @ |-> @[li] /\ li \notin s.clear]]

NoDes == [now |-> 0, todo |-> {}, next |-> {}, occ |-> <<>>, dec |-> <<>>, pend |-> <<>>, late |-> {}]

DesEvent ==
  \E r \in des.todo : des' = [TryMove(des, r) EXCEPT !.todo = des.todo \ {r}]

DesCycle ==
  /\ des.todo = {} /\ des.next # {} /\ des.now <= DesWatchdog
  /\ des' = ApplyPending(des)
-----------------------------------------------------------------------------
(* Whatever the order in which the heap yields the events of a cycle, at   *)
(* its end every byte has had its turn and has moved one hop or none: each *)
(* register latches the byte of exactly one register that gave it up, a    *)
(* byte given up is latched by the next register and by no other, and a    *)
(* register latches only if it is empty or gave its own byte up (tryMove,  *)
(* refillFrom, applyPending).                                              *)
Latched(r) == IF r \in DOMAIN des.pend THEN des.pend[r] ELSE NoByte
GaveUp(r)  == r \in DOMAIN des.dec /\ des.dec[r]
Sources(r) == { q \in DOMAIN des.occ : /\ GaveUp(q) /\ q[1] # "pe1" /\ WaitsFor(des, q) = r }

OneHopPerCycle ==
  des.todo = {} =>
    /\ \A r \in DOMAIN des.occ : Presents(des, r) => r \in DOMAIN des.dec
    /\ \A r \in DOMAIN des.occ \ {Inj} : r[1] # "txe" =>
         IF Latched(r) = NoByte THEN Sources(r) = {}
         ELSE \E q \in DOMAIN des.occ : Sources(r) = {q} /\ Latched(r) = des.occ[q]
    /\ \A r \in DOMAIN des.occ : Latched(r) # NoByte => des.occ[r] = NoByte \/ GaveUp(r)
    /\ \A r \in DOMAIN des.occ : GaveUp(r) => r \in DOMAIN des.pend
=============================================================================
