----------------------------- MODULE LLMClient -----------------------------
(***************************************************************************)
(* The inference client (llm_client.go) over the firmware, its KV cache    *)
(* and the placement: boot, then one call after another - Generate with    *)
(* its prefix lookup, chunked prefill and speculative decoding,            *)
(* GenerateWithBatching, GenerateWithSpeculative, GenerateWithLogprobs,    *)
(* GenerateWithBeamSearch and GenerateStructured.                          *)
(*                                                                         *)
(* The client has one thread: a call runs to its end, and what calls share *)
(* is the firmware's positions, the prefix cache and the batch.  A step is *)
(* a call's prefill, one pass of its decode loop or, in a batch, one       *)
(* request's turn.  Logits are small integers: Logit(prev, step, token) is *)
(* the value simulateLogits hashes, Weight its softmax numerator, Draw the *)
(* point (percent) at which the deterministic hash samples.                *)
(***************************************************************************)
EXTENDS Firmware, StructuredFSM

CONSTANTS LLMSetups,      \* clients built: [model, config, preload], a model record
                          \* (Placement), an LLMConfig, and how many positions
                          \* another user has stored in every layer of the cache
          Prompts,        \* encoded prompts
          BatchCalls,     \* sequences of prompts given to GenerateWithBatching
          Patterns,       \* patterns given to GenerateStructured
          Logit(_, _, _), Weight(_), Draw(_),
          MaxCalls        \* bound: calls made

VARIABLES chassis,  \* the driver's tables, and the weight commands sent at boot
          fw,       \* Firmware
          cfg,      \* LLMConfig
          batch,    \* [reqs, next]: the client's ContinuousBatch
          call,     \* the call in progress
          history   \* the calls that have returned

llmVars == <<chassis, fw, cfg, batch, call, history>>

EOS      == 2
Masked   == -1000000
Tokens   == 0 .. chassis.m.vocab - 1
NoCall   == [kind |-> "none"]
LastOf(prompt, out) == IF out = <<>> THEN Last(prompt) ELSE Last(out)

-----------------------------------------------------------------------------
(* simulateLogits: the penalties that the history's tokens pay.            *)
Occurrences(out, t) == Cardinality({ i \in 1 .. Len(out) : out[i] = t })

Penalised(c, l, n) ==
  LET r == IF n = 0 \/ c.repetition <= 1 THEN l
           ELSE IF l > 0 THEN l \div c.repetition ELSE l * c.repetition
  IN  r - c.frequency * n - (IF n > 0 THEN c.presence ELSE 0)

SimulateLogits(c, vocab, prev, step, out) ==
  [t \in 0 .. vocab - 1 |-> Penalised(c, Logit(prev, step, t), Occurrences(out, t))]

Argmax(logits) ==
  CHOOSE t \in DOMAIN logits : /\ \A u \in DOMAIN logits : logits[u] <= logits[t]
                               /\ \A u \in DOMAIN logits : u < t => logits[u] < logits[t]

(* The tokens by logit, ties to the lower id.                              *)
Before(logits, t, u) == logits[t] > logits[u] \/ (logits[t] = logits[u] /\ t < u)

BestOf(logits, rest) == CHOOSE t \in rest : \A u \in rest : ~Before(logits, u, t)

NextBest(logits, above) == Append(above, BestOf(logits, DOMAIN logits \ ToSet(above)))

Descending(logits) ==
  LET order[k \in 0 .. Cardinality(DOMAIN logits)] ==
        IF k = 0 THEN <<>> ELSE NextBest(logits, order[k - 1])
  IN  order[Cardinality(DOMAIN logits)]

ProbOf(logits, t) == IF logits[t] = Masked THEN 0 ELSE Weight(logits[t])

(* The probability of the first k tokens, and of all.                      *)
Cumulated(logits, ts) ==
  LET sum[k \in 0 .. Len(ts)] == IF k = 0 THEN 0 ELSE sum[k - 1] + ProbOf(logits, ts[k]) IN sum

ProbSum(logits, ts) == Cumulated(logits, ts)[Len(ts)]

Among(ts, set) == FlattenSeq([i \in DOMAIN ts |-> IF ts[i] \in set THEN <<ts[i]>> ELSE <<>>])

(* top-k, then min-p, then top-p over the sorted distribution; the         *)
(* percentages 0 and, for top-p, 100 switch a filter off.                  *)
TopK(c, ts) == IF c.topk > 0 /\ c.topk < Len(ts) THEN SubSeq(ts, 1, c.topk) ELSE ts

MinP(c, logits, ts) ==
  IF c.minp <= 0 THEN ts
  ELSE Among(ts, { t \in DOMAIN logits : ProbOf(logits, t) * 100 >= c.minp * ProbOf(logits, ts[1]) })

TopP(c, logits, total, ts) ==
  LET reach == { n \in 1 .. Len(ts) : Cumulated(logits, ts)[n] * 100 >= c.topp * total }
  IN  IF c.topp <= 0 \/ c.topp >= 100 \/ reach = {} THEN ts ELSE SubSeq(ts, 1, Min(reach))

Filtered(c, logits) ==
  LET all == Descending(logits)
  IN  TopP(c, logits, ProbSum(logits, all), MinP(c, logits, TopK(c, all)))

(* A mutant: the nucleus is drawn from as if it were not renormalised.     *)
SampleRaw(c, logits, mask) ==
  LET all  == Descending(logits)
      kept == Filtered(c, logits)
      r    == Draw(all[1]) * ProbSum(logits, all)
      hit  == { n \in 1 .. Len(all) : Cumulated(logits, all)[n] * 100 >= r }
  IN  IF c.temperature <= 0 \/ kept = <<>> THEN Argmax(logits) ELSE all[Min(hit)]

(* sampleFromLogits.  A mask that rules every token out leaves them equal. *)
Sample(c, logits, mask) ==
  LET eligible == [t \in DOMAIN logits |-> IF mask = {} THEN 0
                                           ELSE IF t \in mask THEN logits[t] ELSE Masked]
      kept  == Filtered(c, eligible)
      total == ProbSum(eligible, kept)
      hit   == { n \in 1 .. Len(kept) :
                   Cumulated(eligible, kept)[n] * 100 >= Draw(kept[1]) * total }
  IN  IF c.temperature <= 0 \/ kept = <<>> \/ total = 0 THEN Argmax(eligible)
      ELSE IF hit = {} THEN Last(kept) ELSE kept[Min(hit)]

(* buildLogprobEntry: rank among all tokens, and the k best.               *)
LogprobEntry(logits, t, k) ==
  [ token |-> t,
    rank  |-> Cardinality({ u \in DOMAIN logits : u # t /\ logits[u] > logits[t] }),
    top   |-> SubSeq(Descending(logits), 1, Min({k, Cardinality(DOMAIN logits)})) ]

IsStopToken(c, t) == t \in c.stops

(* Prompts, vocabulary and logits of a client: the limit, the batch and    *)
(* the chunk have a default, any token the client has met may come next,   *)
(* and -1e9, which stands for a token ruled out, is below every logit.     *)
(* Weights are positive and grow with the logit, as exponentials.          *)
LogitsMet(s) ==
  { Penalised(s.config, Logit(prev, step, t), n) :
      prev \in 0 .. s.model.vocab - 1, t \in 0 .. s.model.vocab - 1,
      step \in 0 .. s.config.max, n \in 0 .. s.config.max }

ASSUME ClientAssumption ==
  \A s \in LLMSetups :
    /\ s.model.vocab \in Nat \ {0} /\ s.model.layers \in Nat /\ s.preload \in 0 .. MaxPos
    /\ {s.config.max, s.config.batch, s.config.chunk, s.config.draft} \subseteq Nat \ {0}
    /\ {s.config.temperature, s.config.topk, s.config.minp, s.config.topp} \subseteq Int
    /\ s.config.beams \in Int
    /\ DOMAIN FsmVocab \subseteq 0 .. s.model.vocab - 1
    /\ Prompts \subseteq Seq(0 .. s.model.vocab - 1)
    /\ BatchCalls \subseteq Seq(Seq(0 .. s.model.vocab - 1))
    /\ LogitsMet(s) \subseteq Int /\ \A l \in LogitsMet(s) : Masked < l
    /\ \A k \in LogitsMet(s) :
         /\ Weight(k) \in Nat \ {0}
         /\ \A l \in LogitsMet(s) : k <= l => Weight(k) <= Weight(l)
    /\ \A t \in 0 .. s.model.vocab - 1 : Draw(t) \in 0 .. 100

ASSUME PatternAssumption == \A pattern \in Patterns : PatternShaped(pattern)

-----------------------------------------------------------------------------
(* Boot, and the configuration NewLLMClient applies after it.              *)
Settings(c) == [flash |-> c.flash, chunk |-> 128, draft |-> 4]

Boot ==
  /\ caller = "firmware" /\ fw.state # "ready"
  /\ fw' = BootPhase(chassis, fw)
  /\ chassis' = IF fw.state = "routing"
                  THEN [chassis EXCEPT !.sent = BuildWeightCommands(chassis)] ELSE chassis
  /\ UNCHANGED <<cfg, batch, call, history, kvVars>>

Configure ==
  /\ call = [kind |-> "boot"] /\ fw.state = "ready"
  /\ fw' = [fw EXCEPT !.chunk = IF cfg.chunked THEN cfg.chunk ELSE @,
                      !.draft = IF cfg.speculative THEN cfg.draft ELSE @]
  /\ call' = NoCall
  /\ UNCHANGED <<chassis, cfg, batch, history, kvVars>>

(* The state of the firmware and of the cache after a plan.                *)
Planned(st) == fw' = st.fw /\ kv' = st.kv
Now == [fw |-> fw, kv |-> kv]

Return(result) ==
  /\ call' = NoCall
  /\ history' = Append(history, [call EXCEPT !.out = result])

-----------------------------------------------------------------------------
(* The calls.  Begin does what comes before the decode loop.               *)
Idle == caller = "firmware" /\ call = NoCall /\ Len(history) < MaxCalls

LookedUp(prompt) ==
  IF prompt \in DOMAIN prefix.entries
    THEN [prefix EXCEPT !.hits = @ + 1, !.entries[prompt].hits = @ + 1]
    ELSE [prefix EXCEPT !.misses = @ + 1]

BeginGenerate(prompt) ==
  /\ Idle /\ prompt # <<>>
  /\ prefix' = LookedUp(prompt)
  /\ Planned(IF cfg.chunked /\ Len(prompt) > cfg.chunk
               THEN PlanInferenceChunked(chassis, Now, prompt)
               ELSE PlanAll(chassis, Now, prompt))
  /\ call' = [kind |-> IF cfg.speculative THEN "speculative" ELSE "generate",
              prompt |-> prompt, out |-> <<>>]
  /\ UNCHANGED <<chassis, cfg, batch, history, pages, stored, caller>>

(* GenerateWithSpeculative, GenerateWithLogprobs, GenerateWithBeamSearch   *)
(* and GenerateStructured prefill one token after another.                 *)
Prefilled(prompt, record) ==
  /\ Idle /\ prompt # <<>>
  /\ Planned(PlanAll(chassis, Now, prompt))
  /\ call' = record
  /\ UNCHANGED <<chassis, cfg, batch, history, prefix, pages, stored, caller>>

BeginSpeculative(prompt) ==
  Prefilled(prompt, [kind |-> "speculative", prompt |-> prompt, out |-> <<>>])

BeginLogprobs(prompt) ==
  Prefilled(prompt, [kind |-> "logprobs", prompt |-> prompt, out |-> <<>>, entries |-> <<>>])

Beam(tokens, score, finished) == [tokens |-> tokens, score |-> score, finished |-> finished]

BeginBeamSearch(prompt) ==
  /\ Idle /\ cfg.beams > 1
  /\ Prefilled(prompt, [kind |-> "beam", prompt |-> prompt, out |-> <<>>, step |-> 0,
                        beams |-> [i \in 1 .. cfg.beams |-> Beam(<<>>, 0, FALSE)]])

BeginStructured(prompt, pattern) ==
  /\ ~CompilePanics(pattern)
  /\ Prefilled(prompt, [kind |-> "structured", prompt |-> prompt, out |-> <<>>,
                        pattern |-> pattern, fsm |-> Compile(pattern)])

(* The pattern is compiled before anything else is done.  Nothing recovers *)
(* from a panic: the process is gone, and no call follows.                 *)
StructuredPanics(pattern) ==
  /\ Idle /\ CompilePanics(pattern)
  /\ call' = [kind |-> "panicked", pattern |-> pattern]
  /\ UNCHANGED <<chassis, fw, cfg, batch, history, kvVars>>

(* One pass of the decode loop of Generate, of GenerateWithLogprobs and of *)
(* GenerateStructured.                                                     *)
LogitsOf(prompt, out) ==
  SimulateLogits(cfg, chassis.m.vocab, LastOf(prompt, out), Len(out), out)

Decode(prompt, out, mask) == Sample(cfg, LogitsOf(prompt, out), mask)

PlanNext(prompt, out) == Planned(PlanInference(chassis, Now, LastOf(prompt, out)))

GenerateStep ==
  /\ call.kind \in {"generate", "logprobs"}
  /\ LET t    == Decode(call.prompt, call.out, Tokens)
         out  == Append(call.out, t)
         done == t = EOS \/ IsStopToken(cfg, t) \/ Len(out) >= cfg.max
         next == IF call.kind = "generate" THEN [call EXCEPT !.out = out]
                 ELSE [call EXCEPT !.out = out, !.entries = Append(@,
                         LogprobEntry(LogitsOf(call.prompt, call.out), t, cfg.logprobs))]
     IN  /\ PlanNext(call.prompt, call.out)
         /\ IF done THEN call' = NoCall /\ history' = Append(history, next)
                    ELSE call' = next /\ UNCHANGED history
  /\ UNCHANGED <<chassis, cfg, batch, prefix, pages, stored, caller>>

(* The drafted tokens are appended up to the end token or the limit.       *)
CutAt(out, tokens) ==
  LET all  == out \o tokens
      stop == { n \in Len(out) + 1 .. Len(all) : all[n] = EOS \/ n >= cfg.max }
  IN  IF stop = {} THEN all ELSE SubSeq(all, 1, Min(stop))

SpeculativeStep ==
  /\ call.kind = "speculative"
  /\ \E p \in {PlanInferenceSpeculative(chassis, Now, LastOf(call.prompt, call.out))} :
       \E out \in {CutAt(call.out, p.tokens)} :
         /\ Planned(p)
         /\ IF Last(out) = EOS \/ Len(out) >= cfg.max
              THEN Return(out) ELSE call' = [call EXCEPT !.out = out] /\ UNCHANGED history
  /\ UNCHANGED <<chassis, cfg, batch, prefix, pages, stored, caller>>

StructuredStep ==
  /\ call.kind = "structured"
  /\ IF call.fsm.complete \/ Len(call.out) >= cfg.max
       THEN Return(call.out) /\ UNCHANGED <<fw, kv>>
       ELSE LET t == Decode(call.prompt, call.out, TokenMask(call.fsm))
            IN  /\ PlanNext(call.prompt, call.out)
                /\ call' = [call EXCEPT !.out = Append(@, t),
                                        !.fsm = IF t \in DOMAIN FsmVocab
                                                  THEN AdvanceToken(@, t) ELSE @]
                /\ UNCHANGED history
  /\ UNCHANGED <<chassis, cfg, batch, prefix, pages, stored, caller>>

(* The beams or the requests that have not finished.                       *)
Active(items) == Among(items, { x \in ToSet(items) : ~x.finished })

(* Beam search: every live beam offers its best tokens, the best of all    *)
(* offers make the new beams.                                              *)
BeamOffers(b, i) ==
  LET logits == LogitsOf(call.prompt, b.tokens)
      order  == Descending(logits)
      best   == [k \in 1 .. Min({cfg.beams, chassis.m.vocab}) |-> order[k]]
      ends(t) == t = EOS \/ IsStopToken(cfg, t) \/ Len(b.tokens) + 1 >= cfg.max
  IN  IF b.finished THEN <<b>>
      ELSE [k \in 1 .. Len(best) |->
              Beam(Append(b.tokens, best[k]), b.score + logits[best[k]], ends(best[k]))]

KeepBest(offers) ==
  LET order == SortSeq([i \in DOMAIN offers |-> i],
                       LAMBDA i, j : \/ offers[i].score > offers[j].score
                                     \/ offers[i].score = offers[j].score /\ i < j)
  IN  [k \in 1 .. Min({cfg.beams, Len(offers)}) |-> offers[order[k]]]

(* Length normalisation with penalty 1 or 2: the score, or the score over  *)
(* the length plus one.                                                    *)
Better(a, b) ==
  IF cfg.penalty = 1 THEN a.score > b.score
  ELSE a.score * (Len(b.tokens) + 1) > b.score * (Len(a.tokens) + 1)

BestBeam(beams) ==
  CHOOSE i \in 1 .. Len(beams) : /\ \A j \in 1 .. Len(beams) : ~Better(beams[j], beams[i])
                                 /\ \A j \in 1 .. i - 1 : Better(beams[i], beams[j])

BeamStep ==
  /\ call.kind = "beam"
  /\ LET live  == Active(call.beams)
         kept  == KeepBest(FlattenSeq([i \in 1 .. Len(call.beams) |->
                                         BeamOffers(call.beams[i], i)]))
         ended == call.step + 1 >= cfg.max \/ \A i \in 1 .. Len(kept) : kept[i].finished
     IN  /\ Planned(PlanAll(chassis, Now, [i \in 1 .. Len(live) |->
                                             LastOf(call.prompt, live[i].tokens)]))
         /\ IF ended THEN Return(kept[BestBeam(kept)].tokens)
                     ELSE /\ call' = [call EXCEPT !.beams = kept, !.step = @ + 1]
                          /\ UNCHANGED history
  /\ UNCHANGED <<chassis, cfg, batch, prefix, pages, stored, caller>>

-----------------------------------------------------------------------------
(* Continuous batching.  A request that does not fit makes the call fail   *)
(* and leaves the requests already added in the batch.                     *)
Request(id, prompt) ==
  [id |-> id, prompt |-> prompt, prefill |-> 0, out |-> <<>>, finished |-> FALSE]

BeginBatch(prompts) ==
  /\ Idle /\ cfg.batching
  /\ LET room == cfg.batch - Len(batch.reqs)
         n    == Min({room, Len(prompts)})
     IN  /\ batch' = [ reqs |-> batch.reqs \o [i \in 1 .. n |->
                                   Request(batch.next + i - 1, prompts[i])],
                       next |-> batch.next + n ]
         /\ call' = IF n < Len(prompts) THEN NoCall
                    ELSE [kind |-> "batch", prompt |-> prompts, at |-> 1,
                          slot |-> [id \in batch.next .. batch.next + n - 1 |-> id - batch.next + 1],
                          out |-> [i \in 1 .. n |-> <<>>]]
         /\ history' = IF n < Len(prompts)
                         THEN Append(history, [kind |-> "refused", prompt |-> prompts]) ELSE history
  /\ UNCHANGED <<chassis, fw, cfg, kvVars>>

(* One request's turn: a chunk of its prompt, or one token.                *)
ServeRequest ==
  /\ call.kind = "batch" /\ call.at <= Len(batch.reqs)
  /\ LET r    == batch.reqs[call.at]
         end  == Min({r.prefill + cfg.chunk, Len(r.prompt)})
         t    == Decode(r.prompt, r.out, Tokens)
         out  == Append(r.out, t)
         done == t = EOS \/ Len(out) >= cfg.max
     IN  IF r.prefill < Len(r.prompt)
           THEN /\ Planned(PlanAll(chassis, Now, SubSeq(r.prompt, r.prefill + 1, end)))
                /\ batch' = [batch EXCEPT !.reqs[call.at].prefill = end]
                /\ call' = [call EXCEPT !.at = @ + 1]
           ELSE /\ PlanNext(r.prompt, r.out)
                /\ batch' = [batch EXCEPT !.reqs[call.at].out = out,
                                          !.reqs[call.at].finished = done]
                /\ call' = IF done /\ r.id \in DOMAIN call.slot
                             THEN [call EXCEPT !.at = @ + 1, !.out[call.slot[r.id]] = out]
                             ELSE [call EXCEPT !.at = @ + 1]
  /\ UNCHANGED <<chassis, cfg, history, prefix, pages, stored, caller>>

(* A mutant: finished requests are removed while the pass goes on, so the  *)
(* request that moves into the place of a finished one loses its turn and  *)
(* what it was given is read from the wrong place.                         *)
EndOfPassKeepingFinished ==
  /\ call.kind = "batch" /\ call.at > Len(batch.reqs)
  /\ LET left == Active(batch.reqs)
     IN  /\ batch' = [batch EXCEPT !.reqs = left]
         /\ Return([i \in DOMAIN call.out |->
                      IF i <= Len(batch.reqs) THEN batch.reqs[i].out ELSE call.out[i]])
  /\ UNCHANGED <<chassis, fw, cfg, kvVars>>

(* After a pass the finished requests leave; the call returns when none is *)
(* active.                                                                 *)
EndOfPass ==
  /\ call.kind = "batch" /\ call.at > Len(batch.reqs)
  /\ LET left == Active(batch.reqs)
     IN  /\ batch' = [batch EXCEPT !.reqs = left]
         /\ IF left = <<>> THEN Return(call.out)
                           ELSE call' = [call EXCEPT !.at = 1] /\ UNCHANGED history
  /\ UNCHANGED <<chassis, fw, cfg, kvVars>>

-----------------------------------------------------------------------------
NoChassis == [m |-> [vocab |-> 0, layers |-> 0]]

LLMIdle ==
  /\ chassis = NoChassis /\ fw = [state |-> "reset"] /\ cfg = <<>>
  /\ batch = [reqs |-> <<>>, next |-> 1] /\ call = NoCall /\ history = <<>>

(* NewLLMClient on model m; another user of the cache has stored the first *)
(* n positions of every layer.                                             *)
StoredFirst(banks, n) ==
  LET after[k \in 0 .. n] ==
        IF k = 0 THEN banks ELSE LayerStore(after[k - 1], k - 1, k - 1)
  IN  after[n]

Filled(s, n) ==
  [s EXCEPT !.banks = [l \in KvLayerIds |-> StoredFirst(s.banks[l], n)]]

NewLLMClient(m, c, n) ==
  /\ ~OverBudget(Assignments(m))
  /\ caller = "firmware"
  /\ kv = Filled(NewKVCache("none", FALSE, m), n)
  /\ pages = [l \in KvLayerIds |-> NewPageTable(MaxVirtPages, MaxPages)]
  /\ prefix = NewPrefixCache
  /\ stored = [l \in KvLayerIds |-> n]
  /\ chassis = NewDriver(m)
  /\ fw = NewFirmware(m, Settings(c))
  /\ cfg = c
  /\ batch = [reqs |-> <<>>, next |-> 1]
  /\ call = [kind |-> "boot"]
  /\ history = <<>>

LLMInit == \E s \in LLMSetups : NewLLMClient(s.model, s.config, s.preload)

LLMNext ==
  \/ Boot
  \/ Configure
  \/ \E prompt \in Prompts :
       \/ BeginGenerate(prompt)
       \/ BeginSpeculative(prompt)
       \/ BeginLogprobs(prompt)
       \/ BeginBeamSearch(prompt)
       \/ \E pattern \in Patterns : BeginStructured(prompt, pattern)
  \/ \E pattern \in Patterns : StructuredPanics(pattern)
  \/ \E prompts \in BatchCalls : BeginBatch(prompts)
  \/ GenerateStep
  \/ SpeculativeStep
  \/ StructuredStep
  \/ BeamStep
  \/ ServeRequest
  \/ EndOfPass
-----------------------------------------------------------------------------
(* Type invariant of the client's part. *)
LLMTypeOK ==
  caller = "firmware" =>
    /\ fw.state \in {"reset", "post", "routing", "weights", "moe", "ready"}
    /\ call.kind \in {"none", "boot", "generate", "speculative", "logprobs", "beam",
                      "structured", "panicked", "batch"}
    /\ Len(batch.reqs) <= cfg.batch
    /\ \A i \in 1 .. Len(batch.reqs) :
         batch.reqs[i].prefill \in 0 .. Len(batch.reqs[i].prompt)

(* What a request alone, on a fresh client, would be answered: one token   *)
(* after another up to the end token, a stop token or the limit.           *)
Alone(prompt, stops) ==
  LET chain[n \in 0 .. cfg.max] ==
        IF n = 0 THEN <<>> ELSE Append(chain[n - 1], Decode(prompt, chain[n - 1], Tokens))
      ends == { n \in 1 .. cfg.max : n = cfg.max \/ chain[cfg.max][n] \in stops \cup {EOS} }
  IN  SubSeq(chain[cfg.max], 1, Min(ends))

(* An answer up to its first stop token.                                   *)
UpToStop(out, stops) ==
  LET cuts == { n \in 1 .. Len(out) : n = Len(out) \/ out[n] \in stops }
  IN  IF out = <<>> THEN out ELSE SubSeq(out, 1, Min(cuts))

(* The drafter's own chain: its step index starts again every round.       *)
AloneDrafted(prompt) ==
  LET chain[n \in 0 .. cfg.max] ==
        IF n = 0 THEN Last(prompt) ELSE Draft(chain[n - 1], (n - 1) % DraftCount(fw))
      ends == { n \in 1 .. cfg.max : n = cfg.max \/ chain[n] = EOS }
  IN  [n \in 1 .. Min(ends) |-> chain[n]]

Greedy(prompt) ==
  LET chain[n \in 0 .. cfg.max] ==
        IF n = 0 THEN <<>> ELSE Append(chain[n - 1], Argmax(LogitsOf(prompt, chain[n - 1])))
      ends == { n \in 1 .. cfg.max : n = cfg.max \/ chain[cfg.max][n] \in cfg.stops \cup {EOS} }
  IN  SubSeq(chain[cfg.max], 1, Min(ends))

(* Whatever was asked before or is asked in the same batch, a call answers *)
(* every prompt what the prompt alone is answered: requests that share the *)
(* batch, leave it at different passes or were left in it by a refused     *)
(* call do not change each other's tokens or take each other's slots.      *)
(* Speculation answers the drafter's chain.  Batches and drafts run past   *)
(* the stop tokens, contrary to what the configuration says of them (see   *)
(* StopTokensHalt): up to the first stop token their answer is the one the *)
(* prompt alone is given, and it is the whole one where none is set.       *)
AnsweredAlone(h) ==
  CASE h.kind \in {"generate", "logprobs"} -> h.out = Alone(h.prompt, cfg.stops)
    [] h.kind = "speculative" ->
         UpToStop(h.out, cfg.stops) = UpToStop(AloneDrafted(h.prompt), cfg.stops)
    [] h.kind = "batch" ->
         \A k \in 1 .. Len(h.prompt) :
           UpToStop(h.out[k], cfg.stops) = Alone(h.prompt[k], cfg.stops)
    [] OTHER -> TRUE

CallsAnswerAlone == \A i \in 1 .. Len(history) : AnsweredAlone(history[i])

(* Beam search answers the greedy chain, since its beams start equal and   *)
(* stay equal where no two logits tie.                                     *)
BeamsAnswerGreedy ==
  \A i \in 1 .. Len(history) : history[i].kind = "beam" => history[i].out = Greedy(history[i].prompt)

AnswersAlone == CallsAnswerAlone /\ BeamsAnswerGreedy

(* The positions a call has taken once it has returned: its prompt, and a  *)
(* plan per decode pass, per draft round or per live beam.                 *)
Consumed(h) ==
  LET rounds == (Len(h.out) + DraftCount(fw) - 1) \div DraftCount(fw)
  IN  CASE h.kind \in {"generate", "logprobs", "structured"} -> Len(h.prompt) + Len(h.out)
        [] h.kind = "speculative" -> Len(h.prompt) + rounds * DraftCount(fw)
        [] h.kind = "beam" -> Len(h.prompt) + cfg.beams * Len(h.out)
        [] h.kind = "batch" -> FoldLeft(LAMBDA a, k : a + Len(h.prompt[k]) + Len(h.out[k]), 0,
                                        [k \in 1 .. Len(h.prompt) |-> k])

(* Every model layer is at the same position after any plan: a rolled-back *)
(* draft leaves none behind and no token is planned for some layers only.  *)
LayersInStep ==
  fw.state = "ready" => \A ml \in ModelLayers(chassis.m) : fw.seq[ml] = fw.seq[0]

(* And between calls that position is what the calls so far have consumed. *)
PositionsUniform ==
  /\ LayersInStep
  /\ fw.state = "ready" /\ call = NoCall /\ (\A i \in 1 .. Len(history) : history[i].kind # "refused") =>
       fw.seq[0] = FoldLeft(LAMBDA a, h : a + Consumed(h), 0, history)

(* Every record of the next token's plan goes to a node that was sent the  *)
(* weights it needs and has the compute unit it names, the plan covers     *)
(* every model layer's attention and whole sequence, and it comes off the  *)
(* wire as it went on.  The compiler, the driver, the boot sequence and    *)
(* the planner each compute the placement for themselves.                  *)
ReachesWeights(r) ==
  /\ r.phase # "kv_offload" => r.cu \in ComputeUnits(chassis.assign, r.target)
  /\ r.role \in AttnRoles \cup ExpertRoles =>
       Uploaded(chassis.sent, r.target, r.role, r.layer, r.exp)
  /\ r.role = "expert_gate_up" =>
       Uploaded(chassis.sent, r.target, "expert_down", r.layer, r.exp)

CoversSequence(recs) ==
  \A ml \in ModelLayers(chassis.m) :
    LET tiles == { i \in 1 .. Len(recs) : recs[i].layer = ml /\ recs[i].kv = "store" }
    IN  /\ fw.seq[ml] < Cardinality(tiles) * TileSizeKV
        /\ (Cardinality(tiles) - 1) * TileSizeKV <= fw.seq[ml]

DispatchReachesWeights ==
  fw.state = "ready" /\ call.kind # "boot" =>
    /\ VerifyWeightUpload(chassis, chassis.sent)
    /\ CrossLayerExperts(chassis.m, chassis.assign) = {}
    /\ \A token \in Tokens :
         LET recs == PlanInference(chassis, Now, token).recs
         IN  /\ \A i \in 1 .. Len(recs) : ReachesWeights(recs[i])
             /\ VerifyDispatch(chassis, recs)
             /\ fw.flash => CoversSequence(recs)
             /\ CanEncode(recs)
             /\ \A i \in 1 .. Len(recs) :
                  OnTheWire(recs)[i] = [f \in DOMAIN recs[i] \ {"role"} |-> recs[i][f]]

(* The sampled token passes every filter the configuration sets: fewer     *)
(* than topk tokens are more probable, it is within minp of the most       *)
(* probable one, and the more probable tokens do not fill the nucleus.     *)
SamplesFromFilter ==
  call.kind \in {"generate", "logprobs"} =>
    LET logits == LogitsOf(call.prompt, call.out)
        t      == Decode(call.prompt, call.out, Tokens)
        all    == Descending(logits)
        above  == Among(all, { u \in Tokens : logits[u] > logits[t] })
    IN  IF cfg.temperature <= 0 \/ cfg.minp > 100 THEN above = <<>>
        ELSE /\ cfg.topk > 0 => Len(above) < cfg.topk
             /\ ProbOf(logits, t) * 100 >= cfg.minp * ProbOf(logits, all[1])
             /\ cfg.topp > 0 => ProbSum(logits, above) * 100 < cfg.topp * ProbSum(logits, all)

(* A + with nothing but repetitions between it and a starred class.        *)
EndsInStar(pattern, i) ==
  \E j \in 1 .. i : /\ pattern[j].kind = "class" /\ pattern[j].rep = "star"
                     /\ \A k \in j + 1 .. i : pattern[k].kind = "repeat"

PlusBehindStar(pattern) ==
  \E i \in 1 .. Len(pattern) : /\ pattern[i].kind = "repeat" /\ pattern[i].rep = "plus"
                                /\ EndsInStar(pattern, i - 1)

(* What is compiled to something else than the syntax comment says:        *)
(* negated and starred classes, a class with a dot (a wildcard), a count   *)
(* of zero (one), and a + or * behind anything but a class (nothing).      *)
Regular(pattern) ==
  \A i \in 1 .. Len(pattern) :
    /\ pattern[i].kind # "repeat"
    /\ pattern[i].kind = "class" =>
         /\ ~pattern[i].negate /\ pattern[i].rep # "star" /\ "." \notin pattern[i].chars
         /\ pattern[i].rep = "count" => pattern[i].count > 0

StructuredText(out) ==
  FlattenSeq([i \in 1 .. Len(out) |-> FsmVocab[out[i]]])

(* The compiler panics on a + behind a starred class, and on no other      *)
(* pattern.  Once compiled, constrained generation that starts where the   *)
(* vocabulary can complete the pattern never falls out of it (the mask's   *)
(* fixpoint leaves no token that strands the automaton), and a text that   *)
(* completes a regular pattern is one the pattern denotes.                 *)
NeverStranded ==
  /\ call.kind \in {"structured", "panicked"} =>
       (call.kind = "panicked" <=> PlusBehindStar(call.pattern))
  /\ call.kind = "structured" /\ 0 \in Completable(call.fsm.states) =>
       /\ ~call.fsm.broken
       /\ call.fsm.complete /\ Regular(call.pattern) =>
            Denotes(call.pattern, StructuredText(call.out))

(* LLMConfig says of StopTokens "token IDs that halt generation": nothing  *)
(* follows a stop token in any answer, those of a batch included.          *)
Answers(h) ==
  CASE h.kind = "batch"   -> { h.out[k] : k \in 1 .. Len(h.prompt) }
    [] h.kind = "refused" -> {}
    [] OTHER              -> {h.out}

StopTokensHalt ==
  \A i \in 1 .. Len(history) : \A out \in Answers(history[i]) :
    \A n \in 1 .. Len(out) - 1 : ~IsStopToken(cfg, out[n])
=============================================================================
