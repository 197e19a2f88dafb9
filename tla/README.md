# PNM-Arch: a TLA+ development of the transport plane and its software

This directory models the control logic of PNM-Arch, a machine built out of memory
boards: a host injects byte-wide packets into a spine of boards, gates on the way
compare address bytes and turn the packets into lanes and nodes, a doorbell at every
node decides whether the packet fires its compute unit, and results return through a
merge tree. Above the gateware stand Go programs: the orchestrator firmware with its KV
cache and its inference client, the co-simulation harness that judges the fabric, and
the program that runs a real model with its routers in gateware.

The modules are TLA+ translations of the Verilog in `HDL/` and of the Go in
`sim/internal/pnm/`; TLC checks small instances, and TLAPS proves the main safety
invariants of the clocked components for every size of their buffers and addresses, and
those of the software for every configuration, vocabulary and cache.

Run everything from this directory:

    tlc -config MC_X.cfg MC_X        # one model
    tlapm X_proof.tla                # the proofs of one component

`PROJECT.json` maps every definition to the source lines it translates, and lists the
runs, the mutants (a plausible bug of the code for each property, which TLC must catch),
the hazards, the findings and the theorems.

## 1. Inventory

| Component | State it keeps | Operations | Hard behaviours | What makes it correct |
|---|---|---|---|---|
| Request fabric: `flit_gate`, `lxy_repeater`, `xy_turn`, `node_eject`, `hfr`, wired by `gen_topology.go` | a held decision and a strip bit per gate; one byte per register | accept a byte, strip LAYER_ID, turn, eject | wormhole packets sharing lanes; nodes that stall; decisions kept between packets | byte-exact, ordered, un-torn delivery to the addressed node only; no packet stuck |
| Return fabric: `vc_merge` trees, ascending spine | state and priority of each merge | grant, hold to eop, swap priority | echoes starting anywhere at any time; grant while the output stalls | whole packets at the root, nothing lost, no starvation |
| Node tile `pe_tile_stub.v` | two-stage pipe, echo position, capture buffer | deliver, transform, echo | the pipe freezes while echoing | echo framing; request and return paths never wait for each other |
| Doorbell `core/doorbell.v`, Go twin `Consume` | offset, LEN, CRC, DEST, in_msg | one byte | truncated, short, over-long, back-to-back packets | one verdict per packet, the twin's verdict, never wedged |
| Optical link `optical_link.v` | ring of words, two pointers, two 2-stage synchronisers, fibre | write edge, read edge | unrelated clocks, torn samples, stale pointers | a FIFO channel; never overflows; drains |
| Host bridge `pnm_host_bridge.v` | route registers, staging buffer, builder FSM, result FIFO | register accesses, one builder byte, FIFO push and pop | registers rewritten while a packet is built; fabric not ready; pop a cycle late | the packet sent is the one requested; results read once, in order |
| Host path: `pnm_arb.v`, `pi_bridge.v`, `pnm_host_top.v` | arbiter grant, busy, owner; frame FSM | request, grant, answer, abandon | SPI frames abandoned in flight | an answer belongs to the access waiting for it; bounded waiting |
| Management bridge `core/mgmt_bridge.v` | three byte FIFOs, frame parser | parse a byte, push, pop | pushes and pops on one edge, counted frames without resynchronisation, a receive buffer that does not hold the stream back | payload exact while its buffers suffice; injected frames intact |
| Gating engine `core/gating_asic.v`, `core/moe_gating.v` | programming phase, weight store, top-k buffer, busy | program, start, gate, read rank window | two managers, restart while busy | the decision read is the current token's |
| Management firmware `fw/pnm_mgmt.c` | step machine, token, decision, flit | push token, receive weights, step | polling a short busy window, token pushed while gating | each token is dispatched once with its own decision |
| KV cache (Go): `kv_cache.go`, `nvme_device.go` | four ring banks per layer, a page table per layer, prefix cache, offload cycle, NVMe block range | store, load, paged store, allocate, share, free, prefix hit, offload, wrap | a wrapped ring whose slots still name old positions; shared pages; an offload range that wraps over live blocks | a load gives the entry stored for that position or nothing; a physical page has one owner |
| KV cache bank and offload (HDL): `kv_cache_bank.v`, `kv_offload.v` | ring of entries, occupancy, engines | store, load, evict, offload | commit and evict on one edge, failed NVMe writes | an entry is loaded intact or refused |
| Compiler, driver, firmware (Go): `model_ir.go`, `driver.go`, `firmware.go`, `plan.go` | operations on nodes, routing bitmaps, boot phase, sequence positions, current plan | compile, populate, upload, boot, plan a token, draft and roll back | a placement computed in four places; speculation that rolls back shared positions | a flit goes to a node that holds its weights; all layers of a sequence agree on the position |
| LLM client: `llm_client.go` | configuration, batch, structured automaton | generate, batch, speculate, beam search, logprobs, structured | requests of a batch over one firmware and one cache | an answer is the one its prompt gets alone; a filtered token is never sampled; structured generation never strands |
| C firmware `fw/*.c` | boot phase, plan tables | the same phases over registers | failing phase, retry | the Go twin's plan |
| Memory controllers `sodimm_ctrl.v`, `node_mem.v`, `lpddr*.v` | bank/row state, refresh timer | read, write, refresh | refresh against a busy requester | every access legal for the bank's state; refresh in time |
| Co-simulation harness: `run.go`, `gated_fabric.go`, `model_fabric.go`, `virtual_units.go` | program, manifest, logs of slices, failures | build a scenario, simulate slices, replay, verify, count | one defect among many streams; slices that fail; replays that differ | exit code 0 exactly for a sound fabric |
| Discrete-event simulator `des.go` | registers, event heap, pending writes, log | offer a byte, move or stall, merge, echo, apply the cycle | events of one cycle in no defined order | one hop per cycle; the same log in every order |
| Gating and node ASIC servers: `gating_harness.go`, `node_harness.go`, `tb_gating_server.v`, `tb_node_server.v` | request and answer files, processes, counters | boot, request, poll, answer, close, die | files that outlive processes; deaths between two file operations | an answer is the one to this session's request |
| Real inference `real_infer.go`, `cmd/pnmgate` | KV cache, position, output channel | prefill, decode, route, sample, compose | two computations of position and window | decoding attends to what a prefill would |
| Host drivers, IR toolchains, tokenizer, command lines | files, tables | sequential runs | process and file I/O | compared with oracles by the repository's own tests |

How they interact: the host bridge writes the fabric's inject port and reads its root
egress (`FlitFabric`, `ReturnFabric`); a node port feeds `pe_tile_stub` and the doorbell;
the gating node's port feeds the management bridge, whose injected frames enter the
merge tree; two masters reach the host bridge's registers through the arbiter.
The gateware is clocked; its only asynchronous boundaries are the optical link's two
clocks and the SPI master, which may drop chip-select at any time.
In software, an `LLMClient` calls the firmware's plan functions and both share one KV
cache on one thread; the harness writes programs for `vvp` or the event simulator and
reads back their logs; real inference and its ASIC servers share nothing but a directory
of files.

## 2. Modules

| Module | Models | State and actions |
|---|---|---|
| `OrderedDelivery` | what the fabric promises: a FIFO per node | `Send`, `Deliver` |
| `FlitFabric` | request fabric | registers `spine`, `lane`, `port` (at most one byte each), gate bits `rptHold`, `rptStrip`, `turnHold`, `ejectHold`; an action is one accepted byte: `Inject`, `SpineHop`, `LaneHop`, `TailDrain`, `NodeTake`. A gate is combinational, so one hop passes through every gate up to the next register |
| `ReturnFabric` | return fabric | `pos` (echo position per node), `state`, `pri` (per merge), `up` (ascending registers); `Clock` is one edge of every register, with the ready and valid chains computed as recursive functions over the tree |
| `LinkChannel` | what the link promises: a FIFO whose output register shows a word for a cycle | `Present`, `Nothing`, `NotClocked` |
| `GrayCode` | `bin2gray`, `gray2bin` | pure functions, checked for widths 1..5 by an ASSUME of `MC_OpticalLink` |
| `OpticalLink` | optical link | `WrEdge`, `RdEdge`, `BothEdges`; `Caught` is what a synchroniser may catch while a pointer changes: each bit old or new |
| `HostBridge` | route registers, staging buffer, builder | one `Clock`: an `Access` and a `Build` step read the same old registers, like two nonblocking blocks of one always |
| `HostPath` | arbiter, masters' handshakes, result FIFO | one `Next`: masters, arbiter and FIFO step together |
| `HostTop` | `pnm_host_top.v`: the two above | the path and the builder share no state but the access itself, so a behaviour explores one of them against everything the other may do |
| `Doorbell` | doorbell and `Consume` | `Byte(b, eop)` for any byte |
| `MgmtBridge` | management bridge | one `MgmtClock`: `Inject` (injection buffer) and `Receive` (parser, tap, receive buffer); registers wrap at their width; the history `long` and `overrun` say when a frame was too long for the parser and when weights have found their buffer full |
| `PageTable` | the page table of one layer | operators from a table to the table after `AllocPage`, `FreePage`, `SharePage` |
| `KvCache` | `kv_cache.go` and the NVMe sink | `kv` (banks, offload cursor, sink), `pages`, `prefix`; one action per public call: `StoreNext`, `StorePaged`, `AllocVirt`, `FreeVirt`, `ShareVirt`, `StorePrefix`, `LookupPrefix`, `InitNVMe`, `Offload` |
| `Placement` | `model_ir.go`, `model_compiler.go`, the tables of `driver.go` | operators over a model record: where a tensor, a layer, an expert is |
| `Firmware` | `firmware.go`, `plan.go` | boot, `PlanInference`, batch, speculation and rollback, as operators from the firmware-and-cache state to the next one |
| `StructuredFSM` | `CompileStructuredFSM` and the token mask | operators; `CompilePanics` says for which patterns the compiler does not return |
| `LLMClient` | `llm_client.go` | `chassis` (firmware and driver), `cfg`, `call`, `batch`; an action per prefill, decode pass or batch turn of each way of generating, and `StructuredPanics`, after which nothing happens |
| `Serving` | client, firmware, cache together; or the cache under its other users | disjunction fixed by `caller` |
| `CosimProgram` | scenarios, wire bytes, golden results | operators; the random scenarios choose every flit their generator may draw |
| `FabricDes` | `des.go` | operators from engine state to engine state, with the event that comes first left open |
| `CosimVerify` | `Verify`, `VerifyKV` | the set of checks a log fails |
| `Cosim` | `RunMain`, `RunOne` | `phase` from a scenario's build to its verdict: `Inject`, `Simulate`, `Advance`, `SliceDone`, `SliceFailed`, `Logged`, `Defect` (one of `Tamperings` or of `Overlooked`), `VerifySlices` |
| `AsicServer` | the file mailbox between clients and `vvp` servers | `files` of each unit, `servers`, `procs`, `count`, `call`: one file operation is an action of its own; a process may die in between |
| `RealInfer` | `real_infer.go`, `pnmgate` | `at` (stage, layer, position), `kv`, `prefPos`, `out`; sessions follow each other in one directory |
| `Harness` | doorbell, co-simulation and inference side by side | disjunction (they share no state) |
| `SequenceLemmas` | lemmas: induction over sets, recursive functions, flattening, folds, ring buffers | no state |
| `FlitFabric_proof`, `ReturnFabric_proof`, `OpticalLink_proof`, `Bridges_proof` (`HostTop`, `MgmtBridge`), `Harness_proof`, `ServingLemmas`, `Serving_proof` | lemmas and theorems | see section 5 |
| `MC_*` | instances | values of the constants only |

The Verilog is synchronous, so a module's step is a clock edge, except where that would
only multiply states: in `FlitFabric` an edge is a sequence of single-byte hops,
downstream first. Every interleaving of hops is checked, which includes those sequences
(an elastic register accepts a byte on the edge that empties it exactly when its
successor hops first). The Go programs are sequential except where processes share
files; a call of a sequential library is one action, or one action per pass of its loop
where another caller's call may come in between.

Abstractions common to all: a byte is what the properties tell apart (its packet and
position, or a small number); the CRC polynomial is an arbitrary function (`CrcStep`) in
`Doorbell`, so refusals of corrupt packets and accidental matches both happen;
diagnostic counters are left out. `Base` stands for 256 in two-byte fields, so that the
low and the high byte are still written one after the other. Logits, softmax weights and
draws are arbitrary constant functions of what the code computes them from. Vectors of
the real inference are terms that say what they were computed from.

## 3. Runs

| Run | Bounds | Shows |
|---|---|---|
| `fabric` | 2 layers of 2 x 2 nodes, 5 packets of 3 or 4 bytes: two to one node behind the X-lane, one to the other layer, one to an absent row, one to an absent layer | `ByteExactDelivery` (implements `OrderedDelivery`), `ZeroMisroutes`, `UntornPackets`, `EveryPacketArrives` |
| `return` | the same chassis, 6 echoes of 3 bytes from 4 nodes, started at any time | `RootSeesWholePackets`, `EchoBytesExact`, `BypassedOnce`, `EchoReachesHost` |
| `optical` | 4 slots, limit 2, 3-bit pointers that wrap after 8 words, unbounded traffic of 2 values | `ImplementsChannel` (implements `LinkChannel`), `NoOverflow`, `NoUnreadOverwritten`, `CopiesLag`, `BacklogWorkedOff` |
| `host_top` | staging buffer of 3, 2 destinations, 2 data values, FIFO of 2 bytes, 4 results, SPI header of 3 cycles, fabric always ready | `PacketAsRequested`, `TriggerAnswered`, `ResultsReadOnce`, `AnswerIsOwn`, `PassedOnce`, `NativeAnswered` |
| `host_stall` | builder alone, fabric may be not ready: **violated** | finding 1 |
| `doorbell_overlong` | packets longer than LEN + 6: **violated** | finding 2 |
| `mgmt_bridge` | buffers of 2, bytes of base 4, so that registers of two bytes wrap at 16, payloads of 0, 5 and 10, injected frames of 3 | `InjectedInOrder`, `InStep`, `PayloadDelivered` |
| `mgmt_frames` | as above: **violated** | finding 3 |
| `serving` | 2 KV layers of rings of 3, pages of 2, 2 physical pages for 3 virtual ones, 8 offload blocks of which an entry takes 2; two models (grouped heads and sliding layers; more model layers than boards), 5 configurations, 2 prompts, batches of 2 and 3, 5 patterns of which the compiler panics on one, 2 calls in a row | `KvFaithful`, `PagesOwnedOnce`, `AnswersAlone`, `PositionsUniform`, `DispatchReachesWeights`, `SamplesFromFilter`, `NeverStranded` |
| `stop_tokens` | the same clients, one call each: **violated** | finding 4 |
| `harness` | doorbell: binary bytes, LEN 0..3, any succession of packets of up to 9 bytes. Co-simulation: chassis of up to 8 nodes, ten command lines, payloads of 1 to 3 bytes, two flits of a random scenario, one defect anywhere in one log (some 19,000 that must fail the scenario and 5,000 that must not). Inference: 2 layers of which one has its router in gateware, window of 2, at most 2 tokens, 2 sessions, processes may die | `VerdictsInSync`, `NeverWedged`, `OneHopPerCycle`, `VerdictSound`, `RoutedAsAsked`, `DecodeSeesPrefill` |
| `decode_position` | the inference part, no faults: **violated** | finding 5 |

Why these bounds are enough for what they show: every gate type meets a matching, a
passing and a falling-off packet; every merge level has two ports contending; every
buffer fills, wraps and empties; every header field is written in two halves over an
older value. Each KV bank wraps, is refused, is offloaded and the block range wraps;
pages run out, are shared, freed and handed out again; drafts are accepted, which the
code always does, in whole or cut at the end token or the limit; a batch has a request
that ends while others go on, and one whose answer runs past a stop token. The management
bridge's tap holds the stream back, its receive buffer overruns and its count wraps, LEN
uses both of its bytes, and LEN 10 is the first whose 6 + LEN wraps. In the
harness's fabrics bytes queue behind each other at a slow port, pass one another to the
tail and meet at a merge, a log loses, doubles, alters and misplaces a byte of every
stream, and slices succeed and fail. In the mailbox a second session finds the files of
the first under every combination of kept and cleared run directories. What they cannot
show is a defect that needs three levels of one kind of merge, a third contender at one
lane, or two defects in the same co-simulation that hide each other.

`CHECK_DEADLOCK FALSE` is set for `fabric`, `serving`, `stop_tokens`, `harness` and
`decode_position`, where the host runs out of packets, a client of calls, a command line
of scenarios and a program of sessions. The clocked models never stop and are checked
for deadlock.

Fairness. Clocks tick for ever, so every clocked module has weak fairness of its step.
`fabric` asks in addition that every node drains its port (a node that never reads
stalls its column by design) and that the host starts its packets. `optical` asks weak
fairness of each clock, written so that an edge coinciding with the other clock's
counts. `host_top` asks nothing of the SPI master; only the native bus is promised an
answer, since it holds its request. Strong fairness is used nowhere. The sequential
programs have no liveness property: their loops are bounded by their own counters, and
the one wait without a bound of its own is cut off by a timeout the code has.

### Findings

1. `host_stall`: `pnm_host_bridge.v:264-266` withdraws a byte the fabric was not ready
   for, and the builder goes on: the packet leaves without it. The documentation
   promises byte-exact delivery under backpressure; the testbenches tie the port ready.
2. `doorbell_overlong`: for a packet with more bytes than LEN + 6 the hardware gives
   several verdicts and `Consume` one, although the two are "kept in sync".
3. `mgmt_frames`: `mgmt_bridge.v` shows the end-of-frame marker with the wrong byte as
   soon as the outgoing lane stalls for one cycle, and marks the first byte of the first
   frame after reset only.
4. `stop_tokens`: `llm_client.go:67-68` documents `StopTokens` as "token IDs that halt
   generation". `Generate` (`:400`), logprobs (`:1143`) and beam search (`:1260`) honour
   them; batches (`:493`), both speculative loops (`:366`, `:561`) and the structured loop
   (`:1330-1363`) do not look at them. `AnswersAlone` therefore compares a batch's and a
   draft's answer up to its first stop token, which is all of it where none is set.
5. `decode_position`: `real_infer.go:876` advances the decode position once per layer,
   so every layer but the first rotates a decoded token one position too far.

Observed without a run:

* in `pnm_arb` the flip of `grant` and the `!ready` guard each keep the arbiter fair on
  their own: with either removed `PassedOnce` still holds, its mutant removes both;
* `pnm_host_top.v:79-80` says the SPI path wins when it is active, while `pnm_arb` is
  round robin (`PassedOnce` states what the code does);
* `mgmt_bridge.v:253` computes `rx_space` and nothing uses it: `nob_in_ready` (`:297`)
  holds the stream for the tap only, so weight bytes that find the receive buffer full
  overwrite unread ones and its count runs past its size. `PayloadDelivered` promises the
  receive buffer's contents until that happens (`overrun`), and the tap's regardless;
* `mgmt_bridge.v:311` adds in 16 bits: from a LEN of 65530 on 6 + LEN wraps and the frame
  ends at once, and from 65280 on the high byte it leaves in the register can end the
  *next* frame in its header, before that frame's own LEN is complete. `InStep` is about
  frames below that (`Short`; `long` says that there has been another). The parser also
  stays out of step after one frame with fewer bytes than its LEN (`:312`);
* `llm_client.go:1484`: a `+` that stands alone copies the last state's transitions to the
  states they lead to. Behind a starred class one of them leads to a state that does not
  exist, and `CompileStructuredFSM` panics (`[a]*+` is enough); nothing recovers.
  `NeverStranded` says that it panics on exactly these patterns (`PlusBehindStar`);
* `firmware.go:388`: the boot of a mixture-of-experts model programs no gating engine,
  although `firmware.go:355-362` and `fw/pnm_fw.c:144-153` say that the routers were
  uploaded with the other tensors and that one command per (node, layer) is emitted:
  router projections are placed on the orchestrator (`model_ir.go:296-297`), whose node
  the gating phase skips;
* `pnm_host_bridge.v:343` takes the payload index from the low byte of a 16-bit
  position: a LEN above 255 sends the staging buffer again;
* `des.go:641`: a failed attempt to move a byte rewrites its class, and the record of
  the retry shows the rewritten one; `Cosim` puts the wire's class back before it
  compares, as the gates' log has it;
* `Verify` does not see every single defect of a log. `Overlooked` lists those that pass
  every scenario but the replayed one, and `VerdictSound` says that they do: a head doubled
  on the root egress (a second head starts a packet over in `Packetize`, and `run.go:1316`
  adds the root's bytes to both sides) or a stray byte there (but in the KV-cache
  scenarios); the class of a byte in the body of a tail packet (`run.go:1562` keeps the
  heads' only); a verdict late by a cycle; and a byte late by a cycle anywhere but at the
  end of a packet at a node whose latency is known exactly (`run.go:1437-1447`);
* `gating_harness.go:242`: a boot that times out leaves its process running, unknown to
  `Close`. With `SlowBoot = TRUE` a later session in the same directory has two servers
  on one mailbox and `RoutedAsAsked` is violated; the run has `SlowBoot = FALSE`, i.e.
  it assumes that a server that lives boots within the ten minutes the code waits;
* `real_infer.go:1379`: a decode step that fails ends the loop, and its error is dropped:
  the caller gets the tokens so far as a complete answer.

## 4. What the models leave out

* `HostBridge`: LEN beyond the staging buffer (the index wraps at 256), SRAM, UART.
* `HostPath`: the SPI bit clock is a number of cycles (`HdrCycles`); addresses are "the
  result register" and "any other".
* `FlitFabric`: KV-cache banks on the X lanes (an option of `gen_topology.go`), reset in
  mid-flight, layers aliased by the four-bit comparison count as that layer.
* `ReturnFabric`: echo contents and what triggers an echo (both are in `FabricDes`).
* `OpticalLink`: depths that are not a power of two (the code's index would leave the
  memory), metastability longer than one cycle.
* `MgmtBridge`: what the receive buffer holds after it has overrun and where the parser is
  after a long frame (both happen in the model, nothing is promised of them), frames
  shorter than their LEN (the parser never resynchronises), the class sideband.
* `KvCache`: hit and miss counters, entry bytes (an entry is the position it was stored
  for), the real clock of the NVMe model.
* `Placement`, `Firmware`: latencies, energy, the ternary plan, the bytes of a serialised
  plan.
* `LLMClient`: text and tokenizer; the logit functions are constants.
* `CosimProgram`: floating-point kernels; `Cosim`: statistics, printing, Verilog text.
* `AsicServer`, `RealInfer`: arithmetic, chat template; the INT8 and ternary variants of
  a node's calls, which use the same mailbox.

## 5. Proofs

Every theorem holds for every value of the constants its module's assumptions allow. The
assumptions are named (`KvAssumption`, `ClientAssumption`, ...) and TLC evaluates them on
the constants of every run. What the larger ones ask:

* `KvAssumption`: positive depths, page sizes and layers, an NVMe region that is a whole
  number of entries, and that each use of the cache without a client is one of its four
  kinds of caller.
* `VocabAssumption`: the text of a token is a sequence of characters. `PatternAssumption`:
  a pattern is what the parser makes of one (a literal is not a dot, a count is a number).
* `ClientAssumption`: limit, batch, chunk and draft are positive (the code has a default
  for each); prompts are over the model's vocabulary, and so is the automaton's; the value
  for a masked token lies below every logit; weights are positive and grow with the logit,
  as exponentials do; a draw is a percentage. The logit function is otherwise arbitrary,
  as are temperature, top-k, top-p and min-p.
* `CosimAssumption`: there is a command line, and its numbers of layers and groups are
  integers.

| Module | Theorems | Inductive invariant |
|---|---|---|
| `OpticalLink_proof` | `TypeCorrect`, `CopiesAlwaysLag` (`CopiesLag`), `NeverOverflows` (`NoOverflow`), `UnreadSurvives` (`NoUnreadOverwritten`), `LinkIsAChannel` (`ImplementsChannel`) | `TypeOK /\ CopiesLag`, with `WordsStored` for the refinement |
| `FlitFabric_proof` | `TypeCorrect` (`TypeOK`), `NoMisroutes` (`ZeroMisroutes`), `NeverTorn` (`UntornPackets`), `DeliversByteExact` (`ByteExactDelivery`) | `FabricInv` |
| `Bridges_proof`: host path and bridge | `ReadsOnce` (`ResultsReadOnce`), `AnswersOwn` (`AnswerIsOwn`), `PassesOnce` (`PassedOnce`), `PacketSent` (`PacketAsRequested`), `BridgeTypeCorrect`, `TopTypeCorrect` (`TopTypeOK`) | `PathInv`; `RangeOK /\ SentOK /\ BusyOK` |
| `Bridges_proof`: management bridge | `MgmtTypeCorrect` (`MgmtTypeOK`), `InjectsInOrder` (`InjectedInOrder`), `ParserInStep` (`InStep`), `DeliversPayload` (`PayloadDelivered`) | `MgmtInv` |
| `ReturnFabric_proof` | `ReturnTypes`, `EchoesExact` (`EchoBytesExact`), `RootSeesPackets` (`RootSeesWholePackets`), `HeadsBypassedOnce` (`BypassedOnce`) | `ReturnInv` |
| `Harness_proof` | doorbell: `TypeCorrect`, `NeverWedges` (`NeverWedged`), `JudgesLikeTheTwin` (`VerdictsInSync`); real inference: `DecodesAsPrefilled` (`DecodeSeesPrefill`), `RoutesAsAsked` (`RoutedAsAsked`); the whole: `HarnessTypes` (`HarnessTypeOK`) | `JudgeInv`; `CacheInv`, `AsicInv`; `InferTyped`, `CosimTyped` |
| `Serving_proof` | cache: `PagesNeverTwice` (`PagesOwnedOnce`), `CacheFaithful` (`KvFaithful`); client: `SampledFromFilter` (`SamplesFromFilter`), `NeverStrandedThm` (`NeverStranded`), `CallsAnsweredAlone` (the calls of `AnswersAlone` that are no beam search), `LayersKeepStep` (the first part of `PositionsUniform`); the whole: `ServingTypes` (`ServingTypeOK`) | `TablesOK`, `KvInv`; `ClientInv`, `AnswerInv`, `Level`; `ServingTyped` |
| `ServingLemmas` | lemmas only, for `Serving_proof`: page tables, rings and the offload region; logits and filters; patterns and their automata | |
| `SequenceLemmas` | lemmas only, used by most of the above: induction over data, folds, flattening, and rings | |

*Optical link.* A synchroniser that samples a Gray-coded pointer while it changes catches
either the old or the new value: the two differ in one bit (lemma about `Caught`). So
each copy is some past value of its pointer, and the copies are ordered along the ring:
from the write pointer back to its two copies, the read pointer, and its two copies.
`CopiesLag` says this with ring distances (`Occ`) that never add up to more than the
limit. That is the strengthening that makes `NoOverflow` inductive: the writer compares
with an *older* read pointer, so it can only underestimate the free space.
`IInv == TypeOK /\ CopiesLag` is preserved by each of the three kinds of edge; the steps
of the writer and the reader are treated separately (`MoveWr`, `MoveRd`, `ShiftToRd`,
`ShiftToWr`) and combined. `UnreadSurvives` follows because the writer's slot lies
outside the unread slots whenever occupancy is below the depth.

`LinkIsAChannel` is the refinement: `Fibre`, the output register and the unread slots
concatenated are the abstract queue. A step of the write clock stores a word at its end
(`StoredWrite`), a step of the read clock takes one from the memory into the pipe
(`StoredRead`, `FibreMoves`) and shifts the pipe by one (`FlattenShift`), so that the queue
loses a word exactly when the output register is offered and taken (`QueueMoves`).

*Induction over data.* The induction theorems of the library take an operator as a
parameter and cannot be instantiated, but an induction over a *set* can: `SetInduction`
says that a set of naturals with 0 and closed under successor is all of them. The set of
the `n` for which a claim holds is defined, shown to be such a set, and hidden.
`RecUpTo` proves by it that a recursive function on a prefix of the naturals exists, and
from that follow the equations of `FlattenSeq` and of `FoldLeft` over an append.

*Request fabric.* A gate looks at a packet's head and keeps one bit for the rest, so it is
right only because the bytes reach it in whole packets; that in turn holds because the
gate before it was right. `FabricInv` breaks the circle with *cursors*: for every wire,
the byte it carries next (idle between packets, else a packet and a position). It says
that there are cursors such that each register links the cursor above it with the one
below (`Link`), each gate's bit is the decision of the packet its cursor is in (`RptOK`,
`TurnOK`), and what passes a gate is the cursor filtered by address (`Past`, `Into`,
`PastCol`, `IntoNode`). The cursors are existentially quantified, so the model needs no
history variables: a step that moves byte `b` over a wire moves that wire's cursor from
`Cur(b)` to `After(b)`. `RepeaterKeeps` does this for a repeater (with `BoardsStep` for
the board it may feed), `LaneHopKeeps`, `TailKeeps` and `NodeKeeps` for the other moves.
`UntornPackets` is then the cursor of a node's port, and `ZeroMisroutes` the filters on
the way to it. The number of repeaters, columns and rows, the packets and their lengths
are all arbitrary within the address fields' widths. That everything arrives
(`EveryPacketArrives`) stays with TLC.

`DeliversByteExact` is the refinement: nothing is lost, doubled or reordered on the way.
The abstract FIFO of node `n` is what lies on its `Path`, from its port over the lane
registers of its board and the spine registers above its layer to the host, each seen as
the node will see it (`Ours`, `Seen`). A path is a row of slots, and only four things
can happen to one: nothing (`PathRests`), a byte hops to the empty slot below it
(`PathHops`), the host's packet appears in the last (`PathFed`), the port's byte leaves
(`PathLeft`). `Slots` and `SlotsKept` say which register a slot is, the lemmas
`FlattenMoved`, `FlattenFirst` and `FlattenLast` of `SequenceLemmas` what that does to
the bytes taken together. Which of the four it is follows from `FabricInv`: the gates
decide by address (`BoardPuts`), a swallowed LAYER_ID is a byte nobody is to see
(`Swallows`), and what a repeater hands its board is the byte as delivered
(`HandsDelivered`, `HandsOn`), else it goes down the spine (`PassesDown`).

*Return fabric.* What a port carries in a cycle, and whether it may hand it on, are
recursive functions over the tree of merges (`Wire` from the leaves to the root, `Ready`
the other way). The first half of the module shows that every port but the uppermost is
an input of exactly one merge (`MergeInputs`, `PortLeads`), that the two functions
satisfy their equations (`WireEquation`, `ReadyEquation`, by induction over the distance
from the leaves, `Rank`, and from the root, `Away`), and an induction over the tree for
what holds at the leaves and is kept by merges and registers (`PortInduction`). The
invariant is then about neighbours only:

* `Cursors`: each port has a byte it must carry next, nothing between packets. A merge
  that serves one input has the other between packets (`TurnOK`), a register is one byte
  behind its feeder (`Linked`), the root's cursor follows the last byte it put out. That
  is `RootSeesWholePackets`.
* `BypassOK`: a head that has been overtaken is at a merge that now serves it. It needs
  that no packet ends at the inputs of an idle merge (`IdleServesHead`): a packet of one
  byte would break it, echoes have more
  (`ReturnAssumption`).
* `Exact`: what a node has sent and the root has not yet put out is, in order, in the
  spine's registers. Each register hands its byte on or keeps it (`HandsOn`, `SpineFlow`,
  with `FlattenThrough` for the registers taken together), and a board's root carries a
  node's byte exactly when its TX port does (`BoardCarries`). `SpineOK` keeps the boards
  apart: a register holds bytes from further down only.

That an echo does reach the host (`EchoReachesHost`) stays with TLC.

*Rings.* The result FIFO and the management bridge's three buffers are memories with two
indices and a count that are all updated on one edge. `SequenceLemmas` proves once that such an edge is a push and a pop of the
sequence the memory stands for (`RingContent`): the index arithmetic (`Wrapped`, `DivMod`,
which the SMT solver does not find through a quotient by a constant of unknown value) is
all in that module.

*Host path.* `ResultsReadOnce` is about bytes read by two masters through one arbiter
while the pop comes a cycle later. What makes it inductive is `ArbOK`: the bus is busy
for the one cycle of an access, nobody's `ready` is up then, and the request served is
the one granted unless the SPI master has let go of it; and that a pop is only pending
when the bus is free again (`FifoOK`), so no sample can fall between a read and its pop.
`TurnOK` (a master that has been passed over is next) gives `PassedOnce`.

*Host bridge.* `PacketAsRequested` compares what was sent with the packet as it was
requested at the trigger. `BusyOK` says where the builder stands: what was sent is the
first `Done` bytes of that packet, and the CRC register has folded the first `Folded` of
the bytes it covers. The theorem assumes `SpineReady = {TRUE}`: without it the property
is false (finding 1). `BridgeTypeCorrect` needs no such assumption.

*Management bridge.* The parser's offset and LEN against those of the frame the fabric is
sending (`ParserOK`, `HostOK`): between the two LEN bytes the register holds half of the
last frame's LEN, and the offset decides which half may be trusted. The comparison with
6 + LEN wraps at the register's width, and what keeps it from doing so in the middle of a
header is that the register's high byte is of a short frame (`InHeader`): so everything
about the parser is under `~long`, and without it the statements are false. The buffers are
rings (`RingIsQueue`) of what was pushed minus what was popped (`InjOK`, `TapOK`, `RxOK`);
the receive buffer's is one until it overruns, the tap's whatever the other does.

*Doorbell.* `Receiving` says what the registers know of the packet so far: the length,
the destination, and that `crc` is the fold of the bytes up to the trailer
(`FoldOfAppend`). From it, a packet of no more than LEN + 6 bytes is closed by its own
last byte, so it is judged once, and the decision edge compares what `Consume` compares.
The theorem assumes `Overlong = FALSE`: without it the property is false (finding 2).

*Real inference.* `CacheInv`: between two positions all layers' caches have the same
length, and within one the layers done are one longer (`Lengths`); so the position a
decode step is for is the length of the cache it reads, and the two formulas for a
window agree on it (`SameWindow`).

*Gating and node ASICs.* The client and its server share nothing but files, and the
files outlive both. `AsicInv` says, for a unit whose client has a process in this
session (`UnitOK`): every marker in its directory has a number the session has
reached, an unanswered request is the one under way (`Posted`), the process is at that
request or has just passed it, and then the result file holds the answer to it. It
rests on `ServersOK`: every process that still runs is one its client would kill, so
nobody else writes in the directory. That is where `SlowBoot = FALSE` is needed (a boot
that fails leaves a dead process, not a late one): with `SlowBoot = TRUE` an orphaned
router of an earlier model answers a later one's request and `RoutedAsAsked` is violated,
as said in section 3.

*KV cache.* A page table whose free list and mapped pages are disjoint and together all
pages (`TableOK`) stays one through every operation of `PageTable`, hence `TablesOK`
through every call of `ServingSpec`. For what the cache returns (`KvFaithful`), `KvInv` says of
its sequential caller that each bank's ring holds the last of the positions it was dealt,
at their places (`BankOK`), and that the NVMe region, a whole number of rooms of one entry
each, holds the ones that have left the rings, each in one room, all of them until the
region has gone round (`RegionOK`, over `Spilled`). A store adds the newest position of
one ring (`StoreKeeps`); a pass of the drain loop moves the oldest of one from the ring to
the region (`EvictKeeps`, `EvictStep`, `RegionWrite`) and the whole cycle is an induction
over its passes (`Kept`). `LoadFinds` then says which places of a ring are believed: the
distance of a place from the read pointer (`RingDistance`) and the position kept with it
agree for the live ones only. The window is a row of loads flattened (`FlattenPicked`),
the repeated heads a row of equal pieces (`FlattenEven`).

The other callers and a client store at positions of their own, so `KvFaithful` says
nothing of their loads; what holds for them is `PagesOwnedOnce` and the types.

*Sampling.* `Descending` orders the tokens by their logits (`DescendingIs`, from a total
order: `BeforeIsTotal`), and each of the filters keeps a first part of that row, never
empty: the top-k (`TopKIs`), those within min-p of the best (`MinPIs`, since weights grow with
the logits a threshold cuts the row in two), the nucleus (`TopPIs`, since sums of
weights grow along it). The draw then picks from that part (`SampleIs`), and the tokens
above the one picked are a shorter first part (`PassesFilters`). `ClientInv` supplies that
the logits are those of tokens the client has met (`LogitsAre`): prompt and output stay
in the vocabulary, and the output below its limit.

*Structured decoding.* Three things meet. The compiler builds a chain: state after state,
each with transitions to the next or to itself (`AddIs`, `BuiltForward`); the element that
owns a state and how far its copies have come are read off the lengths after each element
(`OwnedIs`, `ClimbNeverFalls`). The completable states are a fixpoint after as many
rounds as there are states (`CompletableIs`, over the subsets' cardinality), so that from a completable
state some token leads to one or to the end, and the mask offers only such tokens
(`MaskIs`). And a walk over a token is the walk over its characters (`WalkOn`,
`AdvanceTokenIs`). The invariant `Guided` says that the automaton is where the text so far
takes it and can be completed from there (`OnItsWay`); `GuidedMask` and `GuidedNext` keep
it through a token, which is the first half of `NeverStranded`. The second half compares
the states a complete walk passes with the reference definition of the pattern's language
(`RegularAccepts`): each element's share of the text is cut off from the end, as `Denotes`
reads it (`DenotesIs`, `CutDenotes`). `Regular` names the patterns for which the code
compiles something else than its comment on the syntax says: negated and starred classes,
classes with a dot, a count of zero, a `+` or `*` behind anything but a class. That the
compiler panics exactly on a `+` behind a starred class (`PanicsWhere`) is an induction over
the elements: only the last state can have a transition to a state that does not exist
yet, it gets one from a star alone, and the next element but a repetition adds a state.

*Positions.* `Level` says that there is a number which is the position of every model layer.
A token planned adds one to each (`TokenLevel`, over the layers of the plan), a list of
tokens or of chunks its length (`TokensLevel`, `ChunksLevel`), and a draft round its
length: its positions are put back in every layer, advance again as the tokens are verified,
and are set to what was accepted (`DraftsLevel`), which is all of it since the code lets the
main model draft (`AllAccepted`). Every call's step is one of these plans or moves nothing (`OnlyPlans`, which
the type proof of each action establishes), and booting sets no position (`BootLevel`).

*Answers.* What is kept is how far every answer has come along the chain of the prompt alone.
`AnswerSoFar` says that each token is the one sampled from those before it and none of
them ends the answer, `AnswerWhole` that exactly the last does, or reaches the limit; a
pass leads from the first to one of the two (`AnswerGrows`), and the whole answer is
`Alone` of the prompt (`AnswerIsAlone`, over the recursive chain). Drafts come in rounds whose
step index starts again, so `DraftSoFar` also counts the rounds (`ChainGrows`,
`DraftGrows`, `DraftIsAlone`), and the length of a round must not change once a call has
been made: `Drafting`, which needs that plans leave the draft length alone (`FirmwareKept`)
and that nothing is answered before `Configure`. In a batch (`Batched`) the finished requests are those
served in this pass (`Waiting`); a request's identifier is below the next one to be given
out, so requests that a refused call left behind have no slot (`Slotted`); and each slot
holds a whole answer or has an unfinished request that works on it (`Slots`), which is what
makes the answers whole when no request is active. Admission (`BatchBegins`), a turn
(`TurnServed`) and the removal of the finished (`ActiveIs`, `PassEnds`) keep it. A batch's
answer is that of a client without stop tokens; cut at its first stop token it is the
prompt's own (`CutIsAlone`), since the chain is the same and only its end differs.

*Types of the serving software.* `ServingTypeOK` is not inductive: that rings and the
offload cursor stay in range needs the shape of the whole cache (`CacheTyped`), which every store
and every offload keeps whichever layers a plan touches (`TokensPlanned`,
`DraftsPlanned`, down to `OffloadTyped`); that no prefill runs past its prompt needs that
requests are well-formed and prompts sequences through admission, turns and removal
(`BatchTyped`, `AmongShort`). A plan leaves the boot state and the draft length alone
(`FwIs`), so the firmware keeps its state through all of it.

*Types of the harness.* A log for every slice when the logs are compared: `CosimTyped`
counts them (`phase = "simulate" => Len(logs) = gi - 1`), and it needs that a program has
at least one slice however many layers and groups a command line asks for (`SomeGroup`,
Go's `max(1, min(groups, layers))`). No more tokens than asked for: a token is sampled
only while there are fewer (`OutputTyped`, `InferTyped`).

Only model-checked:

* all liveness (`EveryPacketArrives`, `EchoReachesHost`, `BacklogWorkedOff`,
  `TriggerAnswered`, `NativeAnswered`): fairness and ENABLED are outside the prover's reach;
* of `AnswersAlone`, that beam search answers the greedy chain (`BeamsAnswerGreedy`), and of
  `PositionsUniform`, that between calls the common position is what the calls so far have
  consumed. Both hold for a beam search only where no two logits tie: with a tie `KeepBest`
  keeps two tokens of one beam, beams leave the greedy chain and end at different steps.
  The code does not promise that no logits tie, so it is no assumption of a theorem here;
  the run's logits do not;
* `DispatchReachesWeights`: four placement computations agree, through quotients and
  remainders by constants of unknown value that the SMT solver does not reason about;
* `OneHopPerCycle` and `VerdictSound`: the event simulator's moves cascade through a
  recursive definition over the registers, and the verdict is about the log a whole run
  of it leaves.

## 6. Not modelled

* Management firmware `fw/pnm_mgmt.c` and the gating engine it polls
  (`gating_asic.v`, `moe_gating.v`): the firmware makes sense only composed with the
  engine and `MgmtBridge`. Its hazards (the missed busy window, a token replaced while it
  is gated) are listed and uncovered. The engine's answers are seen through the server
  that drives it (`AsicServer`).
* `kv_cache_bank.v`, `kv_offload.v` clock by clock: the harness's expectations of a bank
  are in `Cosim`; the engines that share occupancy within one edge are not.
* `pe_tile_stub.v`'s echo memory: its effects on the two fabrics are modelled from both
  sides (`FlitFabric`'s stalled ports, `ReturnFabric`'s echoes), not the pipe itself. So
  that the pipe, frozen while it echoes, never makes the request path and the return path
  wait for each other is not checked.
* Memory controllers, PHYs, board links, clocks, reset and power: timing models with
  little control.
* Arithmetic (`fp32_alu.v`, `bf16_fma.v`, `rotary_engine.v`, the oracles): floating-point
  results are out of TLC's reach, and the repository checks them against bit-exact
  oracles.
* C firmware `fw/pnm_fw.c`, `src_fw.c`, `plan.c`, `pnm_nvme.c`: twin of the Go firmware.
* Text processing: testbench generation, tensor files, tokenizer, IR toolchains, command
  lines: no state that outlives a call.
