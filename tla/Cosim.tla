-------------------------------- MODULE Cosim --------------------------------
(***************************************************************************)
(* A run of the co-simulation harness (run.go: RunMain, RunOne): for every *)
(* scenario asked for, build the program, simulate it slice by slice (one  *)
(* vvp process for each, over its own files), compare the logs of two      *)
(* replays, verify every slice's log and count the failures.               *)
(*                                                                         *)
(* What vvp executes is the Verilog fabric; FabricDes, which reproduces it *)
(* cycle for cycle, stands for it, and a KV bank of its own for the KV     *)
(* scenarios.  A fabric with a defect is one whose log differs: at most    *)
(* one log is altered, in one place (Tamperings, Overlooked).  A process   *)
(* may also fail.                                                          *)
(***************************************************************************)
EXTENDS CosimVerify

CONSTANTS Jobs,          \* command lines: scenario names, dims, groups, flits
          Decisions,     \* expert decisions a gating ASIC may give
          ExpertWeights(_, _),
          Plans,         \* what the firmware may plan: see ModelProgram
          Faulty         \* may the fabric have a defect?

(* RunMain's integers, and a command line to start from.                   *)
ASSUME CosimAssumption ==
  Jobs # {} /\ \A j \in Jobs : j.d.layers \in Int /\ j.groups \in Int

VARIABLES job, left,     \* the command line, and the scenarios still to run
          phase,         \* what the harness is at: see CosimTypeOK
          prog, rounds,  \* the program, and the rounds of injections made
          gi, replay,    \* the slice simulated, and the replay
          logs, prev,    \* the slices' delivery logs, of this and the last replay
          ok,            \* RunOne's ok
          results,       \* per scenario: did it pass; history: was it broken
          exit,          \* the exit code, -1 until there is one
          broken         \* history: did this scenario's fabric misbehave: "no",
                         \* "shown" by what is checked, or "hidden" from it

cosimVars == <<job, left, phase, prog, rounds, gi, replay, logs, prev, ok, results, exit,
               broken, des>>

Name == Head(left)
Groups == PartitionLayers(job.d.layers, job.groups)

-----------------------------------------------------------------------------
(* BuildGatedFabricProgram: a flit per expert a gated layer has selected,  *)
(* each with its expert's weights; repeated experts and layers outside the *)
(* chassis are dropped.                                                    *)
ExpertNode(l, e, d) == << l, e % d.bx, (e \div d.bx) % d.by >>

Dispatched(program, l, e, payload, d) ==
  InjectRoutedWeights(program, ExpertNode(l, e, d), CTRL_COMPUTE_SPINE, payload,
                      ExpertWeights(l, e), FALSE)

GatedLayer(program, l, experts, payload, d) ==
  FoldLeft(LAMBDA q, i : IF experts[i] < 0 \/ experts[i] \in { experts[j] : j \in 1 .. i - 1 }
                           THEN q ELSE Dispatched(q, l, experts[i], payload, d),
           program, [i \in DOMAIN experts |-> i])

GatedPrograms(d) ==
  { FoldLeft(LAMBDA q, l : IF (l - 1) \in DOMAIN dec THEN GatedLayer(q, l - 1, dec[l - 1], a, d)
                           ELSE q,
             NewProgram(AllNodes(d), "bounded"), [l \in 1 .. d.layers |-> l]) :
      dec \in Decisions, a \in Payloads }

(* BuildModelProgram: the weight uploads asked for, then each token's      *)
(* dispatch records in order; one that puts no bytes on the wire (the KV   *)
(* cache's) is no flit, one of a MoE layer has its expert's weights.       *)
Planned(program, token, r) ==
  CASE r.bytes = 0       -> program
    [] r.phase = "moe"   -> InjectRoutedWeights(program, r.target, CTRL_COMPUTE_SPINE, token,
                                                ExpertWeights(0, r.expert), FALSE)
    [] OTHER             -> InjectRouted(program, r.target, CTRL_COMPUTE_SPINE, token, FALSE)

Uploaded(program, plan) ==
  FoldLeft(LAMBDA q, u : InjectRouted(q, u.target, CTRL_COMPUTE_SPINE, u.payload, FALSE),
           program, plan.uploads)

ModelProgram(d, plan) ==
  LET empty == Programmed(NewProgram(AllNodes(d), "bounded"), d,
                          EveryNode(d, "dot"), EveryNode(d, 0), EveryNode(d, 1))
  IN  FoldLeft(LAMBDA q, t : FoldLeft(LAMBDA r, x : Planned(r, t.payload, x), q, t.records),
               Uploaded(empty, plan), plan.tokens)

(* The scenarios by name: the program they start from, the rounds asked    *)
(* for, and a round.                                                       *)
Starts(d) ==
  CASE Name = "sweep"   -> {SweepStart(d)}
    [] Name = "vcsweep" -> {VCSweepStart(d)}
    [] Name = "hotspot" -> {HotspotStart(d)}
    [] Name = "kv"      -> {ScenarioKV(d)}
    [] Name = "kvflow"  -> {ScenarioKVFlow(d)}
    [] Name = "gated"   -> GatedPrograms(d)
    [] Name = "model"   -> { ModelProgram(d, plan) : plan \in Plans }
    [] OTHER            -> { RandomStart(d, [i \in NodeNumbers(d) |->
                                               IF i % 2 = 0 THEN 2 ELSE 1]) }

RoundsAsked ==
  LET n == NodeCount(job.d)
  IN  CASE Name \in {"sweep", "vcsweep"}      -> n
        [] Name \in {"kv", "kvflow", "gated", "model"} -> 0
        [] job.flits # 0                      -> job.flits
        [] OTHER -> [load |-> 500, hotspot |-> 400, replay |-> 300,
                     stress |-> IF 24 * n < 3000 THEN 24 * n ELSE 3000][Name]

NextRound ==
  CASE Name = "sweep"   -> SweepRound(prog, job.d, rounds)
    [] Name = "vcsweep" -> VCSweepRound(prog, job.d, rounds)
    [] Name = "load"    -> LoadRound(prog, job.d, rounds)
    [] Name = "hotspot" -> HotspotRound(prog, job.d, rounds)
    [] OTHER            -> StressRound(prog, job.d, rounds)

Known == {"sweep", "vcsweep", "load", "hotspot", "stress", "replay", "kv", "kvflow", "gated",
          "model"}

-----------------------------------------------------------------------------
(* The KV bank in front of a node (kv_cache_bank.v): it takes the commands *)
(* in order, commits good stores, lets its controller (kv_offload.v) evict *)
(* the oldest entry whenever it is full, and answers good loads within the *)
(* live window.  Its node gets the answers through its MAC.                *)
BankCommand(b, w, n, depth, bias) ==
  LET live == IF Len(b.live) = depth THEN Tail(b.live) ELSE b.live
      idx  == w.dma[5] + 256 * w.dma[6]
  IN  IF w.corrupt THEN [b EXCEPT !.live = live]
      ELSE IF w.dma[2] = CTRL_KV_STORE
        THEN [b EXCEPT !.live = Append(live, SubSeq(w.dma, 5, Len(w.dma) - 2))]
      ELSE IF idx < Len(live)
        THEN [live |-> live,
              out  |-> b.out \o StubOutput(KvResponse(n, live[idx + 1]), bias)]
      ELSE [b EXCEPT !.live = live]

Streamed(bytes, vc) ==
  [i \in DOMAIN bytes |-> [cyc |-> i, d |-> bytes[i], s |-> i = 1, e |-> i = Len(bytes), vc |-> vc]]

KvDelivery(sl) ==
  LET wire == FlattenSeq([i \in DOMAIN sl.order |-> BytesOf(sl.order[i].wf)])
      bank(n) == FoldLeft(LAMBDA b, w : BankCommand(b, w, n, KvDepth(prog), prog.nodes[n].bias),
                          [live |-> <<>>, out |-> <<>>],
                          SelectSeq(sl.order, LAMBDA w : w.dest = n))
  IN  [EmptyDelivery(sl.lids, job.d) EXCEPT
         !.inject = Streamed(wire, VC_SPINE_DESCENT),
         !.nodes  = [n \in DOMAIN @ |-> Streamed(bank(n).out, VC_ONBOARD_DELIVER)]]

-----------------------------------------------------------------------------
(* What one defect can do to a stream: a byte lost, doubled, flipped, in   *)
(* another class or late, and a stray one that belongs to no packet.       *)
Without(stream, i) == SubSeq(stream, 1, i - 1) \o SubSeq(stream, i + 1, Len(stream))
Twice(stream, i)   == SubSeq(stream, 1, i) \o SubSeq(stream, i, Len(stream))
Flipped(stream, i) == [stream EXCEPT ![i].d = 255 - @]
Recast(stream, i)  == [stream EXCEPT ![i].vc = (@ + 1) % 4]
Late(stream, i)    == [stream EXCEPT ![i].cyc = @ + 1]

Strayed(stream) ==
  Append(stream, [cyc |-> 1, d |-> 0, s |-> FALSE, e |-> FALSE, vc |-> VC_SPINE_ASCENT])

Heads(stream) == { i \in DOMAIN stream : stream[i].s }

ByteDefects(stream) ==
  UNION { {Without(stream, i), Flipped(stream, i), Recast(stream, i)} : i \in DOMAIN stream }

Doubled(stream, places) == { Twice(stream, i) : i \in places }

(* The stream's packets (all but the last start where the one before ends).*)
Ends(stream) == { i \in DOMAIN stream : stream[i].e }
StartOf(stream, i) ==
  LET before == { k \in Ends(stream) : k < i } IN IF before = {} THEN 1 ELSE Max(before) + 1
Frame(stream, i) == SubSeq(stream, StartOf(stream, i), i)

Bytes(stream, i) == [j \in DOMAIN Frame(stream, i) |-> Frame(stream, i)[j].d]

Exchanged(stream, i, k) ==
  SubSeq(stream, 1, StartOf(stream, i) - 1) \o Frame(stream, k) \o Frame(stream, i)
    \o SubSeq(stream, k + 1, Len(stream))

Swapped(stream) ==
  UNION { { Exchanged(stream, i, k) :
              k \in { m \in Ends(stream) : /\ i < m /\ StartOf(stream, m) = i + 1
                                           /\ Bytes(stream, i) # Bytes(stream, m) } } :
          i \in Ends(stream) }

(* A packet's last byte one cycle late, or one cycle before the pipe could *)
(* have brought it.                                                        *)
Mistimed(d, sl, n) ==
  LET at == PlacesOf(sl, n)
      eops == SelectSeq([i \in DOMAIN d.nodes[n] |-> i], LAMBDA i : d.nodes[n][i].e)
      inj == InjectTable(d.inject)
      soonest(k) == IF prog.latency = "exact" THEN d.nodes[n][eops[k]].cyc - 1
                    ELSE inj[at[k]].eop + n[1] - sl.base + n[2] + PE_PIPE_DELAY - 1
  IN  { [d.nodes[n] EXCEPT ![eops[k]].cyc = soonest(k)] : k \in DOMAIN eops } \cup
      (IF prog.latency # "exact" THEN {}
       ELSE { Late(d.nodes[n], eops[k]) : k \in DOMAIN eops })

Misrouted(d, n, m) ==
  { [d EXCEPT !.nodes[n] = SubSeq(@, 1, StartOf(@, i) - 1) \o SubSeq(@, i + 1, Len(@)),
              !.nodes[m] = @ \o Frame(d.nodes[n], i)] : i \in Ends(d.nodes[n]) }

Altered(d, n, streams) == { [d EXCEPT !.nodes[n] = t] : t \in streams }

(* What no scenario lets pass: a defect of a byte at a node, at the tail   *)
(* or at the root, two packets in the wrong order, a packet at another     *)
(* node, a stray byte, a verdict lost or given for no reason, and a packet *)
(* out of its time where that is known.  At the tail only the class of a   *)
(* packet's head is compared.  At the root a head may not be doubled: the  *)
(* second one starts the packet over, and the bytes are not counted.       *)
Tamperings(d, sl) ==
  UNION { Altered(d, n, ByteDefects(d.nodes[n]) \cup Doubled(d.nodes[n], DOMAIN d.nodes[n]) \cup
                        Swapped(d.nodes[n]) \cup {Strayed(d.nodes[n])} \cup
                        (IF prog.kv THEN {} ELSE Mistimed(d, sl, n))) : n \in DOMAIN d.nodes } \cup
  UNION { Misrouted(d, nm[1], nm[2]) :
            nm \in { q \in (DOMAIN d.nodes) \X (DOMAIN d.nodes) : q[1] # q[2] } } \cup
  { [d EXCEPT !.tailup = t] :
      t \in ByteDefects(d.tailup) \cup Doubled(d.tailup, DOMAIN d.tailup \ Heads(d.tailup)) \cup
            (IF prog.kv THEN {Strayed(d.tailup)} ELSE {}) } \cup
  { [d EXCEPT !.tail = t] :
      t \in { Without(d.tail, i) : i \in DOMAIN d.tail } \cup
            { Flipped(d.tail, i) : i \in DOMAIN d.tail } \cup
            { Recast(d.tail, i) : i \in Heads(d.tail) } \cup
            Doubled(d.tail, DOMAIN d.tail) \cup Swapped(d.tail) \cup {Strayed(d.tail)} } \cup
  { [d EXCEPT !.xres[l] = Strayed(@)] : l \in DOMAIN d.xres } \cup
  { [d EXCEPT !.yres[l] = Strayed(@)] : l \in DOMAIN d.yres } \cup
  { [d EXCEPT !.corrupt[n] = Append(@, 0)] : n \in DOMAIN d.corrupt } \cup
  { [d EXCEPT !.corrupt[n] = Tail(@)] : n \in { m \in DOMAIN d.corrupt : d.corrupt[m] # <<>> } }

(* What only the comparison of two replays sees: a head doubled or a stray *)
(* byte at the root, another class in the body of a packet at the tail, a  *)
(* verdict or a byte late, the last byte of a packet at a node excepted    *)
(* where its latency is exact.                                             *)
Unhurried(d, n) ==
  { i \in DOMAIN d.nodes[n] : ~d.nodes[n][i].e \/ prog.kv \/ prog.latency # "exact" }

Overlooked(d) ==
  UNION { Altered(d, n, { Late(d.nodes[n], i) : i \in Unhurried(d, n) }) : n \in DOMAIN d.nodes } \cup
  { [d EXCEPT !.tailup = t] :
      t \in { Late(d.tailup, i) : i \in DOMAIN d.tailup } \cup Doubled(d.tailup, Heads(d.tailup)) \cup
            (IF prog.kv THEN {} ELSE {Strayed(d.tailup)}) } \cup
  { [d EXCEPT !.tail = t] :
      t \in { Late(d.tail, i) : i \in DOMAIN d.tail } \cup
            { Recast(d.tail, i) : i \in DOMAIN d.tail \ Heads(d.tail) } } \cup
  { [d EXCEPT !.corrupt[n][1] = @ + 1] : n \in { m \in DOMAIN d.corrupt : d.corrupt[m] # <<>> } }

-----------------------------------------------------------------------------
Idle(j) ==
  /\ job = j /\ left = j.names /\ prog = <<>> /\ rounds = 0
  /\ gi = 1 /\ replay = 1 /\ logs = <<>> /\ prev = <<>> /\ ok = TRUE
  /\ results = <<>> /\ exit = -1 /\ broken = "no" /\ des = NoDes

CosimInit == phase = "next" /\ \E j \in Jobs : Idle(j)

(* RunMain: the next scenario, or the exit code.                           *)
StartScenario ==
  /\ phase = "next" /\ left # <<>> /\ Name \in Known
  /\ prog' \in Starts(job.d) /\ rounds' = 0 /\ phase' = "build"
  /\ UNCHANGED <<job, left, gi, replay, logs, prev, ok, results, exit, broken, des>>

Exit(code) ==
  /\ phase = "next" /\ phase' = "done" /\ exit' = code
  /\ UNCHANGED <<job, left, prog, rounds, gi, replay, logs, prev, ok, results, broken, des>>

UnknownScenario == left # <<>> /\ Name \notin Known /\ Exit(2)

Finish == left = <<>> /\ Exit(IF \A i \in DOMAIN results : results[i].pass THEN 0 ELSE 1)

Inject ==
  /\ phase = "build" /\ rounds < RoundsAsked
  /\ prog' \in NextRound /\ rounds' = rounds + 1
  /\ UNCHANGED <<job, left, phase, gi, replay, logs, prev, ok, results, exit, broken, des>>

(* RunOne: a slice's process, over the slice's stimulus.                   *)
Process(i) == IF prog.kv THEN NoDes ELSE NewDES(prog, Groups[i], job.d, SliceOf(prog, Groups, i).order)

Simulate ==
  /\ phase = "build" /\ rounds = RoundsAsked
  /\ phase' = "simulate" /\ gi' = 1 /\ des' = Process(1)
  /\ UNCHANGED <<job, left, prog, rounds, replay, logs, prev, ok, results, exit, broken>>

Advance ==
  /\ phase = "simulate" /\ ~prog.kv
  /\ DesEvent \/ DesCycle
  /\ UNCHANGED <<job, left, phase, prog, rounds, gi, replay, logs, prev, ok, results, exit, broken>>

Ended == prog.kv \/ (des.todo = {} /\ (des.next = {} \/ des.now > DesWatchdog))

ExitProcess(log) ==
  /\ logs' = Append(logs, log)
  /\ IF gi < Len(Groups) THEN gi' = gi + 1 /\ des' = Process(gi + 1) /\ UNCHANGED phase
                         ELSE gi' = 1 /\ des' = NoDes /\ phase' = "compare"
  /\ UNCHANGED <<job, left, prog, rounds, replay, prev, results, exit>>

(* The testbench records an injected byte in the class it has on the wire. *)
AsLogged(s) ==
  [s.out EXCEPT !.inject = [i \in DOMAIN @ |-> [@[i] EXCEPT !.vc = s.stim[i].vc]]]

SliceDone ==
  /\ phase = "simulate" /\ Ended
  /\ ExitProcess(IF prog.kv THEN KvDelivery(SliceOf(prog, Groups, gi)) ELSE AsLogged(des))
  /\ UNCHANGED <<ok, broken>>

(* vvp does not start, or exits nonzero; its log is taken all the same.    *)
SliceFailed ==
  /\ Faulty /\ broken = "no" /\ phase = "simulate" /\ des.now = 0
  /\ ExitProcess(EmptyDelivery(Groups[gi], job.d))
  /\ ok' = FALSE /\ broken' = "shown"

(* The replay's logs are compared with the last one's; after the last      *)
(* replay they are verified.                                               *)
Replays == IF Name = "replay" THEN 2 ELSE 1

Compare(now) ==
  /\ phase = "compare"
  /\ ok' = (ok /\ (prev = <<>> \/ now = prev))
  /\ IF replay < Replays
       THEN /\ phase' = "simulate" /\ replay' = replay + 1 /\ prev' = now /\ logs' = <<>>
            /\ des' = Process(1)
       ELSE phase' = "verify" /\ replay' = 1 /\ prev' = <<>> /\ logs' = now /\ UNCHANGED des
  /\ UNCHANGED <<job, left, prog, rounds, gi, results, exit>>

Logged == Compare(logs) /\ UNCHANGED broken

Defect ==
  /\ Faulty /\ broken = "no" /\ phase = "compare" /\ replay = Replays
  /\ \E i \in DOMAIN logs :
       \/ /\ \E log \in Tamperings(logs[i], SliceOf(prog, Groups, i)) :
               Compare([logs EXCEPT ![i] = log])
          /\ broken' = "shown"
       \/ /\ \E log \in Overlooked(logs[i]) : Compare([logs EXCEPT ![i] = log])
          /\ broken' = IF Replays > 1 THEN "shown" ELSE "hidden"

SliceErrors(i) ==
  LET sl == SliceOf(prog, Groups, i)
  IN  IF prog.kv THEN VerifyKV(logs[i], prog, sl) ELSE Verify(logs[i], prog, sl)

VerifySlices ==
  /\ phase = "verify"
  /\ results' = Append(results, [pass |-> ok /\ \A i \in DOMAIN logs : SliceErrors(i) = {},
                                 broken |-> broken])
  /\ phase' = "next" /\ left' = Tail(left) /\ prog' = <<>> /\ rounds' = 0 /\ logs' = <<>>
  /\ ok' = TRUE /\ broken' = "no"
  /\ UNCHANGED <<job, gi, replay, prev, exit, des>>

CosimNext ==
  \/ StartScenario \/ UnknownScenario \/ Finish \/ Inject \/ Simulate \/ Advance
  \/ SliceDone \/ SliceFailed \/ Logged \/ Defect \/ VerifySlices

CosimSpec == CosimInit /\ [][CosimNext]_cosimVars

-----------------------------------------------------------------------------
CosimTypeOK ==
  /\ phase \in {"off", "next", "build", "simulate", "compare", "verify", "done"}
  /\ gi \in 1 .. Len(Groups) /\ replay \in 1 .. 2 /\ exit \in {-1, 0, 1, 2}
  /\ phase \in {"compare", "verify"} => Len(logs) = Len(Groups)

(* The harness passes a scenario ("PASS: byte-exact delivery, kernels      *)
(* correct, zero drops, zero misroutes") exactly when nothing it looks at  *)
(* went wrong: whatever the program, the slicing and the order in which    *)
(* simultaneous events were simulated, a sound fabric raises no alarm, not *)
(* in latency either, and a process that fails or any single one of the    *)
(* Tamperings of one slice's log always does (run.go Verify, VerifyKV).    *)
(* The single defects of Overlooked pass, but for the scenario that is     *)
(* replayed and its logs compared.                                         *)
VerdictSound == \A i \in DOMAIN results : results[i].pass = (results[i].broken # "shown")
=============================================================================
