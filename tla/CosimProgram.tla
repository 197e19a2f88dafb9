---------------------------- MODULE CosimProgram ----------------------------
(***************************************************************************)
(* The programs the co-simulation harness runs (run.go): flits as they go  *)
(* on the wire, what a node's MAC stub makes of them, the golden result of *)
(* the resident kernel, and the scenarios that build a program out of      *)
(* routed, echoed and pass-through flits.                                  *)
(*                                                                         *)
(* A byte is a number below 256 and the checksum any function of a byte    *)
(* sequence.  A node is <<layer, x, y>>.  The random scenarios choose, at  *)
(* every flit, among all the values their generator could draw; payloads   *)
(* come from small sets.  The floating-point kernels are left out.         *)
(***************************************************************************)
EXTENDS Integers, SequencesExt

CONSTANTS Crc16(_),       \* crc16 of a sequence of bytes
          Payloads,       \* payloads a random scenario may draw
          HotPayload,     \* the kilobyte token of the hot expert
          KernelMenu,     \* kernels a random scenario may draw
          KvEntryBytes,   \* KV_ENTRY_BYTES (512)
          KvEntry(_)      \* payload of the i-th store

VC_BOARD_EGRESS == 0
VC_SPINE_ASCENT == 1
VC_SPINE_DESCENT == 2
VC_ONBOARD_DELIVER == 3

CTRL_COMPUTE_SPINE == 128
CTRL_FORWARD_SPINE == 144
CTRL_ECHO_SPINE    == 129
CTRL_KV_STORE      == 160
CTRL_KV_LOAD       == 176
REQ_MODULE         == 238

PassThrough == <<>>       \* the destination of pass-through traffic
NoWeights   == <<-1>>     \* Go's nil: the node's own weights
KERNEL_MIX  == <<"dot", "sum", "accum", "echo">>

ModuleId(n) == n[2] * 16 + n[3]

-----------------------------------------------------------------------------
Sealed(body) == body \o << Crc16(body) \div 256, Crc16(body) % 256 >>

Message(mod, ctrl, payload) ==
  <<mod, ctrl, Len(payload) % 256, Len(payload) \div 256>> \o payload

(* corrupt flips a payload byte after the checksum was computed.           *)
Flit(layer, mod, ctrl, payload, corrupt) ==
  LET sealed == Sealed(Message(mod, ctrl, payload))
      landed == IF corrupt /\ payload # <<>>
                  THEN [sealed EXCEPT ![5 + Len(payload) \div 2] = 255 - @] ELSE sealed
      wire   == <<layer>> \o landed
  IN  [i \in 1 .. Len(wire) |-> [d |-> wire[i], s |-> i = 1, e |-> i = Len(wire), vc |-> 0]]

WithVC(wf, vc) == [i \in DOMAIN wf |-> [wf[i] EXCEPT !.vc = vc]]

BytesOf(wf) == [i \in DOMAIN wf |-> wf[i].d]

Biased(payload, bias) == [i \in DOMAIN payload |-> (payload[i] + bias) % 256]

(* The stub adds the bias to as many bytes as the header announces (absent *)
(* ones are zero) and seals the message again.                             *)
StubOutput(dma, bias) ==
  IF bias = 0 \/ Len(dma) < 4 THEN dma
  ELSE LET n == dma[3] + 256 * dma[4]
       IN  Sealed(SubSeq(dma, 1, 4) \o
                  [i \in 1 .. n |-> IF 4 + i <= Len(dma) THEN (dma[4 + i] + bias) % 256 ELSE 0])

GoldenEcho(payload, bias) == Sealed(Message(REQ_MODULE, 0, Biased(payload, bias)))

-----------------------------------------------------------------------------
(* Kernels: the result, as a sequence, and the accumulator they leave.     *)
SumOf(payload) == FoldLeft(LAMBDA a, b : a + b, 0, payload)

At(seq, i) == IF i <= Len(seq) THEN seq[i] ELSE 0

DotOf(payload, weights) ==
  FoldLeft(LAMBDA a, i : a + At(payload, i) * At(weights, i), 0,
           [i \in 1 .. Len(payload) |-> i])

Run(kernel, payload, weights, acc) ==
  CASE kernel = "echo"  -> [result |-> payload, acc |-> acc]
    [] kernel = "sum"   -> [result |-> <<SumOf(payload)>>, acc |-> acc]
    [] kernel = "accum" -> [result |-> <<acc + SumOf(payload)>>, acc |-> acc + SumOf(payload)]
    [] kernel = "dot"   -> [result |-> <<DotOf(payload, weights)>>, acc |-> acc]
    [] OTHER            -> [result |-> <<-1>>, acc |-> acc]

Golden(kernel, payload, weights, acc, bias) == Run(kernel, Biased(payload, bias), weights, acc)

-----------------------------------------------------------------------------
(* A program: the manifest (nodes), and the injected flits in order.  The  *)
(* manifest's packets of a node and the tail are the entries of the order  *)
(* with that destination.                                                  *)
NewManifest(nodes) ==
  [n \in nodes |-> [kernel |-> "dot", weights |-> <<>>, bias |-> 0, duty |-> 1, acc |-> 0]]

NewProgram(nodes, latency) ==
  [ latency |-> latency, mixed |-> FALSE, kv |-> FALSE, depth |-> 0,
    banks |-> <<>>, nodes |-> NewManifest(nodes), order |-> <<>> ]

ProgramNode(p, n, kernel, weights, bias, duty) ==
  [p EXCEPT !.nodes[n] = [@ EXCEPT !.kernel = kernel, !.weights = weights,
                                   !.bias = bias, !.duty = duty]]

Entry(dest, wf, corrupt, golden, echo, vc) ==
  [ dest |-> dest, wf |-> wf, dma |-> Tail(BytesOf(wf)), corrupt |-> corrupt,
    golden |-> golden, echo |-> echo, vc |-> vc, weights |-> NoWeights ]

InjectRoutedVC(p, n, ctrl, payload, corrupt, vc) ==
  LET wf == WithVC(Flit(n[1] + 1, ModuleId(n), ctrl, payload, corrupt), vc)
      m  == p.nodes[n]
      g  == Golden(m.kernel, payload, m.weights, m.acc, m.bias)
  IN  [p EXCEPT !.order = Append(@, Entry(n, wf, corrupt, g.result, <<>>, vc)),
                !.nodes[n].acc = IF corrupt THEN @ ELSE g.acc]

InjectRouted(p, n, ctrl, payload, corrupt) ==
  InjectRoutedVC(p, n, ctrl, payload, corrupt, VC_SPINE_DESCENT)

(* The golden result is computed a second time, with the packet's weights. *)
Reweighted(p, n, payload, weights, corrupt) ==
  LET last == Len(p.order)
      m    == p.nodes[n]
      g    == Golden(m.kernel, payload, weights, m.acc, m.bias)
  IN  IF corrupt THEN [p EXCEPT !.order[last].weights = weights]
      ELSE [p EXCEPT !.order[last].weights = weights, !.order[last].golden = g.result,
                     !.nodes[n].acc = g.acc]

InjectRoutedWeights(p, n, ctrl, payload, weights, corrupt) ==
  Reweighted(InjectRouted(p, n, ctrl, payload, corrupt), n, payload, weights, corrupt)

InjectEcho(p, n, payload) ==
  LET m == p.nodes[n]
      g == Golden(m.kernel, payload, m.weights, m.acc, m.bias)
      wf == WithVC(Flit(n[1] + 1, ModuleId(n), CTRL_ECHO_SPINE, payload, FALSE),
                   VC_SPINE_DESCENT)
  IN  [p EXCEPT !.order = Append(@, Entry(n, wf, FALSE, g.result, GoldenEcho(payload, m.bias),
                                          VC_SPINE_DESCENT)),
                !.nodes[n].acc = g.acc]

InjectPassthroughVC(p, payload, vc) ==
  [p EXCEPT !.order = Append(@, Entry(PassThrough,
     WithVC(Flit(255, REQ_MODULE, CTRL_FORWARD_SPINE, payload, FALSE), vc),
     FALSE, <<>>, <<>>, vc))]

InjectPassthrough(p, payload) == InjectPassthroughVC(p, payload, VC_SPINE_DESCENT)

-----------------------------------------------------------------------------
AllNodesIn(lids, d) == lids \X (0 .. d.bx - 1) \X (0 .. d.by - 1)
AllNodes(d) == AllNodesIn(0 .. d.layers - 1, d)

(* The i-th node (from 0) in spine order.                                  *)
NodeAt(d, i) == << i \div (d.bx * d.by), (i \div d.by) % d.bx, i % d.by >>
NodeCount(d) == d.layers * d.bx * d.by
NodeNumbers(d) == 0 .. NodeCount(d) - 1
EveryNode(d, v) == [i \in NodeNumbers(d) |-> v]

(* The control byte of the i-th flit of a scenario, its return flag off.   *)
PlainCtrl(i) == CTRL_COMPUTE_SPINE + 2 * ((i % 16) \div 2)

SweepPayload(n) == << (n[1] * 16 + n[2] * 4 + n[3]) % 256 >>

(* One scenario: how it programs the nodes, how many rounds of injections  *)
(* it makes, and the programs that may follow round i (from 0).            *)
(* kernel, bias and duty are functions of the node's number.               *)
Programmed(p, d, kernel, bias, duty) ==
  FoldLeft(LAMBDA q, i : ProgramNode(q, NodeAt(d, i - 1), kernel[i - 1], <<3, 5>>,
                                     bias[i - 1], duty[i - 1]),
           p, [i \in 1 .. NodeCount(d) |-> i])

SweepStart(d) ==
  Programmed(NewProgram(AllNodes(d), "exact"), d,
             [i \in NodeNumbers(d) |-> KERNEL_MIX[(i % 4) + 1]],
             [i \in NodeNumbers(d) |-> (i % 8) + 1], EveryNode(d, 1))

SweepRound(p, d, i) ==
  { InjectRouted(p, NodeAt(d, i), PlainCtrl(i), SweepPayload(NodeAt(d, i)), FALSE) }

VCSweepStart(d) ==
  [Programmed(NewProgram(AllNodes(d), "exact"), d,
              EveryNode(d, "echo"), EveryNode(d, 3), EveryNode(d, 1)) EXCEPT !.mixed = TRUE]

VCSweepRound(p, d, i) ==
  LET n == NodeAt(d, i)
      q == IF n[1] = 0 THEN InjectEcho(p, n, SweepPayload(n))
           ELSE InjectRouted(p, n, PlainCtrl(i), SweepPayload(n), FALSE)
  IN  IF i % 4 # 3 THEN {q}
      ELSE { InjectPassthroughVC(InjectPassthrough(q, a), b, VC_ONBOARD_DELIVER) :
             a \in Payloads, b \in Payloads }

(* The random scenarios.  Every node has a kernel of the menu, by turns.   *)
RandomStart(d, duty) ==
  Programmed(NewProgram(AllNodes(d), "bounded"), d,
             [i \in NodeNumbers(d) |-> KernelMenu[(i % Len(KernelMenu)) + 1]],
             [i \in NodeNumbers(d) |-> (i % 15) + 1], duty)

LoadRound(p, d, i) ==
  IF i % 10 = 0 THEN { InjectPassthrough(p, <<222, 173>>) }
  ELSE { InjectRouted(p, n, PlainCtrl(i), a, FALSE) : n \in AllNodes(d), a \in Payloads }

HotNode(d) == << d.layers - 1, d.bx - 1, d.by - 1 >>

HotspotStart(d) ==
  LET p == RandomStart(d, EveryNode(d, 2)) IN [p EXCEPT !.nodes[HotNode(d)].kernel = "dot",
                                                     !.nodes[HotNode(d)].duty = 8]

HotspotRound(p, d, i) ==
  IF i % 20 = 19 THEN { InjectPassthrough(p, a) : a \in Payloads }
  ELSE { InjectRouted(p, HotNode(d), PlainCtrl(i), HotPayload, FALSE) } \cup
       { InjectRouted(p, n, PlainCtrl(i), a, FALSE) :
           n \in AllNodes(d) \ {HotNode(d)}, a \in Payloads }

StressRound(p, d, i) ==
  { InjectPassthrough(p, a) : a \in Payloads } \cup
  { InjectRouted(p, n, PlainCtrl(i), a, corrupt) :
      n \in AllNodes(d), a \in Payloads, corrupt \in BOOLEAN }

(* KV commands.  ScenarioKV gives every target bank two stores, a corrupt  *)
(* store, two loads and a corrupt load; ScenarioKVFlow fills one bank past *)
(* its depth and loads what is left.                                       *)
KVTargets(d) ==
  [x \in 1 .. (IF d.bx < 4 THEN d.bx ELSE 4) |-> <<0, x - 1, x % d.by>>] \o
  (IF d.layers > 1 THEN << <<1, d.bx \div 2, 0>> >> ELSE <<>>)

Load(idx, corrupt) == [idx |-> idx, corrupt |-> corrupt]

KVStart(d, targets, depth, loads, biases) ==
  LET p == FoldLeft(LAMBDA q, i : ProgramNode(q, targets[i], "echo", <<>>, biases[i], 1),
                    NewProgram(AllNodes(d), "n/a"), [i \in DOMAIN targets |-> i])
  IN  [p EXCEPT !.kv = TRUE, !.depth = depth, !.banks = [n \in ToSet(targets) |-> loads]]

Store(p, n, i, corrupt) == InjectRouted(p, n, CTRL_KV_STORE, KvEntry(i), corrupt)
LoadFrom(p, n, idx, corrupt) == InjectRouted(p, n, CTRL_KV_LOAD, <<idx, 0>>, corrupt)

ScenarioKV(d) ==
  LET ts == KVTargets(d)
      start == KVStart(d, ts, 1024, <<Load(0, FALSE), Load(1, FALSE), Load(7, TRUE)>>,
                       [i \in DOMAIN ts |-> (ts[i][2] % 4) + 1])
      commands(p, n, i) ==
        LET stored == Store(Store(Store(p, n, 2 * i, FALSE), n, 2 * i + 1, FALSE), n, 0, TRUE)
        IN  LoadFrom(LoadFrom(LoadFrom(stored, n, 0, FALSE), n, 1, FALSE), n, 7, TRUE)
  IN  FoldLeft(LAMBDA q, i : commands(q, ts[i], i), start, [i \in DOMAIN ts |-> i])

ScenarioKVFlow(d) ==
  LET t == <<0, 0, 1>>
      start  == KVStart(d, <<t>>, 4, [i \in 1 .. 3 |-> Load(i - 1, FALSE)], <<2>>)
      filled == FoldLeft(LAMBDA q, e : Store(q, t, e, FALSE), start, [e \in 1 .. 5 |-> e])
  IN  FoldLeft(LAMBDA q, i : LoadFrom(q, t, i - 1, FALSE), filled, [i \in 1 .. 3 |-> i])
-----------------------------------------------------------------------------
(* The harness runs layer groups, as equal as possible, side by side.      *)
PartitionLayers(layers, groups) ==
  LET n    == IF groups < 1 \/ layers < 1 THEN 1 ELSE IF groups > layers THEN layers ELSE groups
      base == layers \div n
      rem  == layers % n
      first(g) == g * base + (IF g < rem THEN g ELSE rem)
  IN  [g \in 1 .. n |-> first(g - 1) .. first(g) - 1]

(* A slice's flits: those for its layers, and the pass-through traffic in  *)
(* the slice that owns the chassis tail.                                   *)
SliceOrder(p, lids, tailOwner) ==
  SelectSeq(p.order, LAMBDA w : IF w.dest = PassThrough THEN tailOwner ELSE w.dest[1] \in lids)
=============================================================================
