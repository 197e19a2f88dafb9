----------------------------- MODULE CosimVerify -----------------------------
(***************************************************************************)
(* The verdict on a co-simulation (run.go): what a slice delivered, as its *)
(* delivery log records it, against the program's manifest (Verify), and   *)
(* against the software twin of the KV cache banks (VerifyKV).  A delivery *)
(* is a record of streams of cycle-stamped bytes (FabricDes); errors are   *)
(* kept as the set of the checks that failed.                              *)
(***************************************************************************)
EXTENDS FabricDes

(* A packet of a stream: its bytes and the cycles of its first and last.   *)
NoPacket == [bytes |-> <<>>, sop |-> -1, eop |-> -1]

Packetize(stream) ==
  FoldLeft(LAMBDA a, e :
             LET cur == IF e.s THEN [bytes |-> <<e.d>>, sop |-> e.cyc, eop |-> e.cyc]
                        ELSE [a.cur EXCEPT !.bytes = Append(@, e.d), !.eop = e.cyc]
             IN  [cur |-> cur, pkts |-> IF e.e THEN Append(a.pkts, cur) ELSE a.pkts],
           [cur |-> NoPacket, pkts |-> <<>>], stream).pkts

(* InjectTable: the same of the injection record, lengths only.            *)
InjectTable(stream) ==
  LET pkts == Packetize(stream)
  IN  [i \in DOMAIN pkts |-> [sop |-> pkts[i].sop, eop |-> pkts[i].eop]]

PacketVcs(stream) ==
  LET heads == SelectSeq(stream, LAMBDA e : e.s) IN [i \in DOMAIN heads |-> heads[i].vc]

TotalOver(f) == FoldFunction(LAMBDA stream, a : Len(stream) + a, 0, f)

TotalDelivered(d) ==
  TotalOver(d.nodes) + Len(d.tail) + Len(d.tailup) + TotalOver(d.xres) + TotalOver(d.yres)

-----------------------------------------------------------------------------
(* The virtual unit of a node, with the packet's weights or the node's.    *)
NewVirtualUnit(m) ==
  [ kernel |-> IF m.kernel \in ToSet(KERNEL_MIX) THEN m.kernel ELSE "echo",
    acc |-> 0, results |-> <<>>, activations |-> 0, rejections |-> 0 ]

Rejected(u) == [u EXCEPT !.rejections = @ + 1]

LengthField(bytes) == IF Len(bytes) > 3 THEN bytes[3] + 256 * bytes[4] ELSE 0
Payload(bytes) == SubSeq(bytes, 5, 4 + LengthField(bytes))

(* The doorbell's three conditions: all bytes are there, the checksum is   *)
(* right, the destination is this node.                                    *)
RingsTrue(n, bytes) ==
  /\ Len(bytes) = LengthField(bytes) + 6
  /\ Sealed(SubSeq(bytes, 1, Len(bytes) - 2)) = bytes
  /\ bytes[1] = ModuleId(n)

ConsumePacket(u, n, bytes, hwCorrupt, weights) ==
  LET ran == Run(u.kernel, Payload(bytes), weights, u.acc)
  IN  IF hwCorrupt \/ ~RingsTrue(n, bytes) THEN Rejected(u)
      ELSE [u EXCEPT !.acc = ran.acc, !.results = Append(@, ran.result), !.activations = @ + 1]

-----------------------------------------------------------------------------
(* What a slice is checked against: its flits, the first of its layers,    *)
(* and whether it owns the chassis tail and the chassis root.              *)
SliceOf(p, groups, gi) ==
  [ order |-> SliceOrder(p, groups[gi], gi = Len(groups)), lids |-> groups[gi],
    base |-> CHOOSE l \in groups[gi] : \A k \in groups[gi] : l <= k,
    tail |-> gi = Len(groups), root |-> 0 \in groups[gi] ]

(* The places in the slice's order of a destination's flits; the place of  *)
(* a flit is its Sidx.                                                     *)
PlacesOf(sl, dest) ==
  SelectSeq([i \in DOMAIN sl.order |-> i], LAMBDA i : sl.order[i].dest = dest)

Failed(name, holds) == IF holds THEN {} ELSE {name}

ConservationErrors(d, p, sl) ==
  LET routed == Cardinality({ i \in DOMAIN sl.order : sl.order[i].dest # PassThrough })
  IN  Failed("inject count", Len(InjectTable(d.inject)) = Len(sl.order)) \cup
      Failed("inject class",
             p.mixed \/ \A i \in DOMAIN d.inject : d.inject[i].vc = VC_SPINE_DESCENT) \cup
      Failed("byte conservation", Len(d.inject) + Len(d.tailup) = TotalDelivered(d) + routed)

(* Latency against the closed form; under backpressure, the pipe's floor.  *)
LatencyOK(p, w, g, t, hops) ==
  IF p.latency = "exact"
    THEN g.eop - t.sop = Len(w.wf) - 1 + hops + PE_PIPE_DELAY
    ELSE g.eop - t.sop >= (t.eop - t.sop) + hops + PE_PIPE_DELAY

NodeLatencies(d, p, sl, n, got, at) ==
  LET inj == InjectTable(d.inject)
  IN  Failed("inject index", \A i \in DOMAIN at : at[i] \in DOMAIN inj) \cup
      Failed("latency", \A i \in DOMAIN at : at[i] \in DOMAIN inj =>
                LatencyOK(p, sl.order[at[i]], got[i], inj[at[i]], n[1] - sl.base + n[2]))

(* A mutant: the packet's own weights are forgotten.                       *)
WeightsOfNode(m, w) == m.weights

WeightsOf(m, w) == IF w.weights = NoWeights THEN m.weights ELSE w.weights

Served(m, n, sl, got, at) ==
  FoldLeft(LAMBDA u, i : ConsumePacket(u, n, got[i].bytes, sl.order[at[i]].corrupt,
                                       WeightsOf(m, sl.order[at[i]])),
           NewVirtualUnit(m), [i \in DOMAIN at |-> i])

ByteExact(m, sl, got, at) ==
  /\ Len(got) = Len(at)
  /\ \A i \in DOMAIN at : got[i].bytes = StubOutput(sl.order[at[i]].dma, m.bias)

UnitErrors(d, m, n, sl, got, at) ==
  LET u    == Served(m, n, sl, got, at)
      good == SelectSeq(at, LAMBDA i : ~sl.order[i].corrupt)
      bad  == Len(at) - Len(good)
  IN  Failed("stub verdicts", Len(d.corrupt[n]) = bad) \cup
      Failed("rejections", u.rejections = bad) \cup
      Failed("activations", u.activations = Len(good)) \cup
      Failed("results", u.results = [i \in DOMAIN good |-> sl.order[good[i]].golden])

NodeErrors(d, p, sl, n) ==
  LET m   == p.nodes[n]
      got == Packetize(d.nodes[n])
      at  == PlacesOf(sl, n)
  IN  Failed("node class",
             \A i \in DOMAIN d.nodes[n] : d.nodes[n][i].vc = VC_ONBOARD_DELIVER) \cup
      (IF ~ByteExact(m, sl, got, at) THEN {"node bytes"}
       ELSE UnitErrors(d, m, n, sl, got, at) \cup NodeLatencies(d, p, sl, n, got, at))

ResidueErrors(d) ==
  Failed("residual", TotalOver(d.xres) + TotalOver(d.yres) = 0)

(* Too many tail packets make the class check index past the manifest: the *)
(* harness dies (Go panics) instead of reporting.                          *)
TailErrors(d, sl) ==
  LET got  == Packetize(d.tail)
      want == PlacesOf(sl, PassThrough)
      vcs  == PacketVcs(d.tail)
  IN  IF ~sl.tail THEN Failed("unexpected tail", got = <<>>)
      ELSE Failed("tail", /\ Len(got) = Len(want)
                          /\ \A i \in DOMAIN got :
                               got[i].bytes = BytesOf(sl.order[want[i]].wf)) \cup
           Failed("tail panic", Len(got) <= Len(want)) \cup
           Failed("tail class", \A i \in DOMAIN got \cap DOMAIN vcs \cap DOMAIN want :
                                  vcs[i] = sl.order[want[i]].vc)

(* The root egress: the golden echoes, in any order, all in the ascending  *)
(* class.                                                                  *)
CountOf(seq, x) == Cardinality({ i \in DOMAIN seq : seq[i] = x })

RootErrors(d, sl) ==
  LET pkts   == Packetize(d.tailup)
      got    == [i \in DOMAIN pkts |-> pkts[i].bytes]
      asked  == SelectSeq(sl.order, LAMBDA w : w.echo # <<>>)
      want   == [i \in DOMAIN asked |-> asked[i].echo]
  IN  IF ~sl.root THEN Failed("unexpected echo", got = <<>>)
      ELSE Failed("echo class",
                  \A i \in DOMAIN d.tailup : d.tailup[i].vc = VC_SPINE_ASCENT) \cup
           Failed("echoes", /\ Len(got) = Len(want)
                            /\ \A i \in DOMAIN want : CountOf(got, want[i]) = CountOf(want, want[i]))

Verify(d, p, sl) ==
  ConservationErrors(d, p, sl) \cup
  UNION { NodeErrors(d, p, sl, n) : n \in DOMAIN d.nodes } \cup
  ResidueErrors(d) \cup TailErrors(d, sl) \cup RootErrors(d, sl)

-----------------------------------------------------------------------------
(* The twin of a KV bank: all good stores in order, evicting the oldest    *)
(* when the ring is full, then the loads, relative to the live window.     *)
RingEvict(b, depth) == [b EXCEPT !.rp = (@ + 1) % depth, !.occ = @ - 1]
RingRoom(b, depth)  == IF b.occ = depth THEN RingEvict(b, depth) ELSE b

RingStore(b, entry, depth) ==
  LET r == RingRoom(b, depth)
  IN  [r EXCEPT !.ring[r.wp] = entry, !.wp = (@ + 1) % depth, !.occ = @ + 1]

KvResponse(n, entry) == Sealed(Message(ModuleId(n), CTRL_COMPUTE_SPINE, entry))

Answered(b, load, n, depth, bias) ==
  LET r == RingRoom(b, depth)
  IN  IF load.corrupt \/ load.idx >= r.occ THEN r
      ELSE [r EXCEPT !.served = @ + 1,
                     !.out = @ \o StubOutput(KvResponse(n, r.ring[(r.rp + load.idx) % depth]), bias)]

NewRing(depth) ==
  [ring |-> [i \in 0 .. depth - 1 |-> <<>>], wp |-> 0, rp |-> 0, occ |-> 0, out |-> <<>>, served |-> 0]

KvDepth(p) == IF p.depth = 0 THEN 1024 ELSE p.depth

(* The twin takes a flit for a store by its length.                        *)
KvExpectedAt(p, n) ==
  LET depth  == KvDepth(p)
      flits  == SelectSeq(p.order, LAMBDA w : w.dest = n /\ ~w.corrupt)
      stores == SelectSeq(flits, LAMBDA w : Len(w.dma) = 4 + KvEntryBytes + 2)
      filled == FoldLeft(LAMBDA b, w : RingStore(b, SubSeq(w.dma, 5, 4 + KvEntryBytes), depth),
                         NewRing(depth), stores)
  IN  FoldLeft(LAMBDA b, load : Answered(b, load, n, depth, p.nodes[n].bias), filled, p.banks[n])

KvTargetsIn(p, sl) == { n \in DOMAIN p.banks : n[1] \in sl.lids }

CtrlCount(sl, ctrl, corrupt) ==
  Cardinality({ i \in DOMAIN sl.order : /\ sl.order[i].dest # PassThrough
                                        /\ sl.order[i].wf[3].d = ctrl
                                        /\ sl.order[i].corrupt = corrupt })

VerifyKV(d, p, sl) ==
  LET stores == CtrlCount(sl, CTRL_KV_STORE, FALSE) + CtrlCount(sl, CTRL_KV_STORE, TRUE)
      loads  == CtrlCount(sl, CTRL_KV_LOAD, FALSE)
      asked  == loads + CtrlCount(sl, CTRL_KV_LOAD, TRUE)
      entry  == 4 + KvEntryBytes + 2
      total  == TotalDelivered(d)
      twins  == [n \in KvTargetsIn(p, sl) |-> KvExpectedAt(p, n)]
  IN  Failed("kv inject", Len(d.inject) = stores * (1 + entry) + asked * 9) \cup
      Failed("kv delivered", total = loads * entry) \cup
      Failed("kv conservation", Len(d.inject) + loads * entry
                                  = total + stores + asked + stores * entry + asked * 8) \cup
      Failed("kv served", FoldFunction(LAMBDA b, a : b.served + a, 0, twins) = loads) \cup
      Failed("kv expected",
             FoldFunction(LAMBDA b, a : Len(b.out) + a, 0, twins) = loads * entry) \cup
      Failed("kv bytes", \A n \in DOMAIN twins :
                           [i \in DOMAIN d.nodes[n] |-> d.nodes[n][i].d] = twins[n].out) \cup
      Failed("kv class", \A n \in DOMAIN twins : \A i \in DOMAIN d.nodes[n] :
                           d.nodes[n][i].vc = VC_ONBOARD_DELIVER) \cup
      Failed("kv refusal", TotalOver(d.corrupt) = 0) \cup
      Failed("kv tail", d.tail = <<>> /\ d.tailup = <<>>) \cup ResidueErrors(d)

=============================================================================
