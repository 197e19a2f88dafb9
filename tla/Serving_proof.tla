--------------------------- MODULE Serving_proof ---------------------------
(***************************************************************************)
(* Theorems about the serving software, for every model, configuration,    *)
(* vocabulary and pattern a client can be built with and every use of the  *)
(* KV cache: the client's sampling filters and its structured decoding,    *)
(* what the cache owns, returns and persists, the types of the whole, the  *)
(* positions the model's layers are at, and what calls are answered.       *)
(***************************************************************************)
EXTENDS ServingLemmas

-----------------------------------------------------------------------------
(* The client's calls                                                      *)

Kinds ==
  {"none", "boot", "generate", "speculative", "logprobs", "beam", "structured", "panicked", "batch"}

(* What is known of the call in progress of the client built from s.       *)
CallKept(s) ==
    /\ "kind" \in DOMAIN call /\ call.kind \in Kinds
    /\ call.kind \in {"generate", "logprobs"} => {"prompt", "out"} \subseteq DOMAIN call /\ Sampling(s)
    /\ call.kind = "structured" =>
         /\ {"prompt", "out", "pattern", "fsm"} \subseteq DOMAIN call
         /\ call.prompt \in Seq(Vocab(s)) /\ call.prompt # <<>>
         /\ call.pattern \in Patterns /\ Guided(call.pattern, call.out, call.fsm)
         /\ ~CompilePanics(call.pattern)
    /\ call.kind = "panicked" =>
         "pattern" \in DOMAIN call /\ call.pattern \in Patterns /\ CompilePanics(call.pattern)

ClientInv ==
  IF caller = "firmware" THEN \E s : Client(s) /\ CallKept(s) ELSE call = NoCall

LEMMA ClientStays ==
    ASSUME NEW s, Client(s), cfg' = cfg,
           \/ chassis' = chassis
           \/ chassis' = [chassis EXCEPT !.sent = BuildWeightCommands(chassis)]
    PROVE  Client(s)'
<1>1. "m" \in DOMAIN chassis' /\ chassis'.m = chassis.m
  BY DEF Client
<1> QED BY <1>1 DEF Client

LEMMA CallStays ==
    ASSUME NEW s, CallKept(s), call' = call, cfg' = cfg
    PROVE  CallKept(s)'
  BY DEF CallKept, Sampling, Vocab

LEMMA OtherCall ==
    ASSUME NEW s, NEW c, call' = c, "kind" \in DOMAIN c,
           c.kind \in {"none", "boot", "speculative", "beam", "batch"}
    PROVE  CallKept(s)'
  BY DEF CallKept, Kinds

LEMMA NoCallKept ==
    ASSUME NEW s, call' = NoCall
    PROVE  CallKept(s)'
  BY OtherCall DEF NoCall

LEMMA SamplingCall ==
    ASSUME NEW s, NEW c, call' = c, {"kind", "prompt", "out"} \subseteq DOMAIN c,
           c.kind \in {"generate", "logprobs"},
           c.prompt \in Seq(Vocab(s)), c.prompt # <<>>, c.out \in Seq(Vocab(s)),
           Len(c.out) < cfg.max, cfg' = cfg
    PROVE  CallKept(s)'
  BY DEF CallKept, Sampling, Kinds, Vocab

LEMMA PromptIs ==
    ASSUME NEW s, Client(s), NEW prompt \in Prompts
    PROVE  prompt \in Seq(Vocab(s)) /\ cfg.max \in Nat \ {0}
  BY ClientAssumption DEF Client, Vocab

LEMMA BeginGenerateKeeps ==
    ASSUME NEW s, Client(s), NEW prompt \in Prompts, BeginGenerate(prompt)
    PROVE  CallKept(s)'
<1>1. prompt \in Seq(Vocab(s)) /\ cfg.max \in Nat \ {0}
  BY PromptIs
<1>2. PICK c : /\ c = [kind |-> IF cfg.speculative THEN "speculative" ELSE "generate",
                       prompt |-> prompt, out |-> <<>>]
               /\ call' = c /\ cfg' = cfg /\ prompt # <<>>
  BY DEF BeginGenerate
<1>3. CASE cfg.speculative
  BY <1>2, <1>3, OtherCall
<1>4. CASE ~cfg.speculative
  <2>1. <<>> \in Seq(Vocab(s)) /\ Len(<<>>) = 0
    OBVIOUS
  <2>2. /\ c.kind = "generate" /\ c.prompt = prompt /\ c.out = <<>>
        /\ {"kind", "prompt", "out"} \subseteq DOMAIN c
    BY <1>2, <1>4
  <2>3. Len(c.out) < cfg.max
    BY <1>1, <2>1, <2>2
  <2> QED BY <1>1, <1>2, <2>1, <2>2, <2>3, SamplingCall
<1> QED BY <1>3, <1>4

LEMMA BeginLogprobsKeeps ==
    ASSUME NEW s, Client(s), NEW prompt \in Prompts, BeginLogprobs(prompt)
    PROVE  CallKept(s)'
<1>1. prompt \in Seq(Vocab(s)) /\ cfg.max \in Nat \ {0}
  BY PromptIs
<1>2. PICK c : /\ c = [kind |-> "logprobs", prompt |-> prompt, out |-> <<>>, entries |-> <<>>]
               /\ call' = c /\ cfg' = cfg /\ prompt # <<>>
  BY DEF BeginLogprobs, Prefilled
<1>3. <<>> \in Seq(Vocab(s)) /\ Len(<<>>) = 0
  OBVIOUS
<1>4. /\ c.kind = "logprobs" /\ c.prompt = prompt /\ c.out = <<>>
      /\ {"kind", "prompt", "out"} \subseteq DOMAIN c
  BY <1>2
<1>5. Len(c.out) < cfg.max
  BY <1>1, <1>3, <1>4
<1> QED BY <1>1, <1>2, <1>3, <1>4, <1>5, SamplingCall

LEMMA BeginStructuredKeeps ==
    ASSUME NEW s, Client(s), NEW prompt \in Prompts, NEW pattern \in Patterns,
           BeginStructured(prompt, pattern)
    PROVE  CallKept(s)'
<1>1. prompt \in Seq(Vocab(s))
  BY PromptIs
<1>2. PICK f : f = Compile(pattern)
  OBVIOUS
<1>3. PICK c : /\ c = [kind |-> "structured", prompt |-> prompt, out |-> <<>>,
                       pattern |-> pattern, fsm |-> f]
               /\ call' = c /\ prompt # <<>> /\ ~CompilePanics(pattern)
  BY <1>2 DEF BeginStructured, Prefilled
<1>4. Guided(pattern, <<>>, f)
  BY <1>2, GuidedFirst, PatternAssumption
<1>5. /\ c.kind = "structured" /\ c.prompt = prompt /\ c.out = <<>> /\ c.pattern = pattern
      /\ c.fsm = f /\ {"kind", "prompt", "out", "pattern", "fsm"} \subseteq DOMAIN c
  BY <1>3
<1> QED BY <1>1, <1>3, <1>4, <1>5 DEF CallKept, Kinds, Vocab

LEMMA StructuredPanicsKeeps ==
    ASSUME NEW s, NEW pattern \in Patterns, StructuredPanics(pattern)
    PROVE  CallKept(s)'
<1>1. PICK c : /\ c = [kind |-> "panicked", pattern |-> pattern]
               /\ call' = c /\ CompilePanics(pattern)
  BY DEF StructuredPanics
<1>2. c.kind = "panicked" /\ c.pattern = pattern /\ {"kind", "pattern"} \subseteq DOMAIN c
  BY <1>1
<1> QED BY <1>1, <1>2 DEF CallKept, Kinds

LEMMA GenerateStepKeeps ==
    ASSUME NEW s, Client(s), CallKept(s), GenerateStep
    PROVE  CallKept(s)'
<1>1. /\ call.kind \in {"generate", "logprobs"} /\ "kind" \in DOMAIN call /\ cfg' = cfg
      /\ {"prompt", "out"} \subseteq DOMAIN call /\ Sampling(s)
  BY DEF CallKept, GenerateStep
<1>2. PICK prompt \in Seq(Vocab(s)) : prompt = call.prompt /\ prompt # <<>>
  BY <1>1 DEF Sampling
<1>3. PICK out \in Seq(Vocab(s)) : out = call.out /\ Len(out) < cfg.max
  BY <1>1 DEF Sampling
<1>4. s.model.vocab \in Nat \ {0} /\ cfg.max \in Nat \ {0} /\ Tokens = Vocab(s)
  BY ClientAssumption DEF Client, Tokens, Vocab
<1>5. PICK t : t = Decode(call.prompt, call.out, Tokens)
  OBVIOUS
<1>6. t \in Vocab(s)
  <2>1. Tokens # {} /\ Tokens \subseteq Vocab(s)
    <3>1. 0 \in Vocab(s)
      BY <1>4 DEF Vocab
    <3> QED BY <1>4, <3>1
  <2>2. Len(out) <= cfg.max
    <3>1. Len(out) \in Nat
      OBVIOUS
    <3> QED BY <1>3, <1>4, <3>1
  <2>3. Decode(prompt, out, Tokens) \in Tokens
    BY <1>2, <2>1, <2>2, DecodeIs
  <2> QED BY <1>2, <1>3, <1>5, <2>1, <2>3
<1>7. PICK longer \in Seq(Vocab(s)) : longer = Append(call.out, t)
  <2>1. Append(out, t) \in Seq(Vocab(s))
    BY <1>6
  <2> QED BY <1>3, <2>1
<1>8. \/ call' = NoCall
      \/ /\ ~(Len(longer) >= cfg.max)
         /\ \/ call' = [call EXCEPT !.out = longer]
            \/ \E entries : call' = [call EXCEPT !.out = longer, !.entries = entries]
  BY <1>5, <1>7 DEF GenerateStep
<1>9. CASE call' = NoCall
  BY <1>9, NoCallKept
<1>10. CASE ~(Len(longer) >= cfg.max) /\ call' # NoCall
  <2>1. Len(longer) < cfg.max
    <3>1. Len(longer) \in Nat
      OBVIOUS
    <3> QED BY <1>4, <1>10, <3>1
  <2>2. PICK d : d = [call EXCEPT !.out = longer]
    OBVIOUS
  <2>3. /\ d.kind = call.kind /\ d.prompt = prompt /\ d.out = longer
        /\ {"kind", "prompt", "out"} \subseteq DOMAIN d
    BY <1>1, <1>2, <2>2
  <2>4. CASE call' = d
    BY <1>1, <1>2, <2>1, <2>3, <2>4, SamplingCall
  <2>5. ASSUME NEW entries, call' = [call EXCEPT !.out = longer, !.entries = entries]
        PROVE  CallKept(s)'
    <3>1. PICK e : e = [d EXCEPT !.entries = entries]
      OBVIOUS
    <3>2. call' = e
      BY <2>2, <2>5, <3>1, Zenon
    <3>3. /\ e.kind = call.kind /\ e.prompt = prompt /\ e.out = longer
          /\ {"kind", "prompt", "out"} \subseteq DOMAIN e
      BY <2>3, <3>1
    <3> QED BY <1>1, <1>2, <2>1, <3>2, <3>3, SamplingCall
  <2> QED BY <1>8, <1>10, <2>2, <2>4, <2>5
<1> QED BY <1>8, <1>9, <1>10

LEMMA StructuredStepKeeps ==
    ASSUME NEW s, Client(s), CallKept(s), StructuredStep
    PROVE  CallKept(s)'
<1>1. /\ call.kind = "structured" /\ "kind" \in DOMAIN call /\ cfg' = cfg
      /\ {"prompt", "out", "pattern", "fsm"} \subseteq DOMAIN call
      /\ call.prompt \in Seq(Vocab(s)) /\ call.prompt # <<>>
      /\ call.pattern \in Patterns /\ Guided(call.pattern, call.out, call.fsm)
      /\ ~CompilePanics(call.pattern)
  BY DEF CallKept, StructuredStep
<1>2. PICK prompt \in Seq(Vocab(s)) : prompt = call.prompt /\ prompt # <<>>
  BY <1>1
<1>3. PICK out : out = call.out
  OBVIOUS
<1>4. PICK f : f = call.fsm
  OBVIOUS
<1>5. PICK pattern \in Patterns : pattern = call.pattern
  BY <1>1
<1>6. PatternShaped(pattern) /\ Guided(pattern, out, f)
  BY <1>1, <1>3, <1>4, <1>5, PatternAssumption
<1>7. CASE f.complete \/ Len(out) >= cfg.max
  <2>1. call' = NoCall
    BY <1>3, <1>4, <1>7 DEF StructuredStep, Return
  <2> QED BY <2>1, NoCallKept
<1>8. CASE ~f.complete /\ ~(Len(out) >= cfg.max)
  <2>1. PICK t : t = Decode(prompt, out, TokenMask(f))
    OBVIOUS
  <2>2. PICK g : g = IF t \in DOMAIN FsmVocab THEN AdvanceToken(f, t) ELSE f
    OBVIOUS
  <2>3. call' = [call EXCEPT !.out = Append(out, t), !.fsm = g]
    BY <1>2, <1>3, <1>4, <1>8, <2>1, <2>2 DEF StructuredStep
  <2>4. ASSUME 0 \in Completable(Compile(pattern).states) PROVE t \in TokenMask(f)
    <3>1. PICK cur : OnItsWay(Compile(pattern).states, out, f, cur)
      BY <1>6, <2>4 DEF Guided
    <3>2. TokenMask(f) # {} /\ TokenMask(f) \subseteq DOMAIN FsmVocab
      BY <1>6, <1>8, <2>4, <3>1, GuidedMask
    <3>3. DOMAIN FsmVocab \subseteq Vocab(s) /\ cfg.max \in Nat
      BY ClientAssumption DEF Client, Vocab
    <3>4. out \in Seq(Vocab(s))
      <4>1. out \in Seq(DOMAIN FsmVocab)
        BY <3>1 DEF OnItsWay
      <4> QED BY <3>3, <4>1
    <3>5. Len(out) <= cfg.max
      <4>1. Len(out) \in Nat
        BY <3>4
      <4> QED BY <1>8, <3>3, <4>1
    <3>6. TokenMask(f) \subseteq Vocab(s)
      BY <3>2, <3>3
    <3> QED BY <1>2, <2>1, <3>2, <3>4, <3>5, <3>6, DecodeIs
  <2>5. Guided(pattern, Append(out, t), g)
    BY <1>6, <1>8, <2>2, <2>4, GuidedNext
  <2>6. PICK d : d = [call EXCEPT !.out = Append(out, t)]
    OBVIOUS
  <2>7. PICK e : e = [d EXCEPT !.fsm = g]
    OBVIOUS
  <2>8. call' = e
    BY <2>3, <2>6, <2>7, Zenon
  <2>9. PICK longer : longer = Append(out, t)
    OBVIOUS
  <2>10. /\ d.kind = "structured" /\ d.prompt = prompt /\ d.out = longer /\ d.pattern = pattern
         /\ {"kind", "prompt", "out", "pattern", "fsm"} \subseteq DOMAIN d
    BY <1>1, <1>2, <1>5, <2>6, <2>9
  <2>11. /\ e.kind = "structured" /\ e.prompt = prompt /\ e.out = longer /\ e.pattern = pattern
         /\ e.fsm = g /\ {"kind", "prompt", "out", "pattern", "fsm"} \subseteq DOMAIN e
    BY <2>7, <2>10
  <2>12. ~CompilePanics(pattern)
    BY <1>1, <1>5
  <2> QED BY <1>2, <2>5, <2>8, <2>9, <2>11, <2>12 DEF CallKept, Kinds, Vocab
<1> QED BY <1>7, <1>8

LEMMA OtherCallKeeps ==
    ASSUME NEW s, CallKept(s), SpeculativeStep \/ BeamStep \/ ServeRequest \/ EndOfPass
    PROVE  CallKept(s)'
<1>1. "kind" \in DOMAIN call
  BY DEF CallKept
<1>2. CASE SpeculativeStep
  <2>1. call' = NoCall \/ \E out : call' = [call EXCEPT !.out = out]
    BY <1>2 DEF SpeculativeStep, Return
  <2>2. call.kind = "speculative"
    BY <1>2 DEF SpeculativeStep
  <2>3. ASSUME NEW out, call' = [call EXCEPT !.out = out] PROVE CallKept(s)'
    <3>1. PICK c : c = [call EXCEPT !.out = out]
      OBVIOUS
    <3>2. "kind" \in DOMAIN c /\ c.kind = "speculative"
      BY <1>1, <2>2, <3>1
    <3> QED BY <2>3, <3>1, <3>2, OtherCall
  <2> QED BY <2>1, <2>3, NoCallKept
<1>3. CASE BeamStep
  <2>1. \/ call' = NoCall
        \/ \E beams, step : call' = [call EXCEPT !.beams = beams, !.step = step]
    BY <1>3 DEF BeamStep, Return
  <2>2. call.kind = "beam"
    BY <1>3 DEF BeamStep
  <2>3. ASSUME NEW beams, NEW step, call' = [call EXCEPT !.beams = beams, !.step = step]
        PROVE  CallKept(s)'
    <3>1. PICK d : d = [call EXCEPT !.beams = beams]
      OBVIOUS
    <3>2. PICK c : c = [d EXCEPT !.step = step]
      OBVIOUS
    <3>3. call' = c
      BY <2>3, <3>1, <3>2, Zenon
    <3>4. "kind" \in DOMAIN c /\ c.kind = "beam"
      BY <1>1, <2>2, <3>1, <3>2
    <3> QED BY <3>3, <3>4, OtherCall
  <2> QED BY <2>1, <2>3, NoCallKept
<1>4. ASSUME call.kind = "batch", NEW at, call' = [call EXCEPT !.at = at] PROVE CallKept(s)'
  <2>1. PICK c : c = [call EXCEPT !.at = at]
    OBVIOUS
  <2>2. "kind" \in DOMAIN c /\ c.kind = "batch"
    BY <1>1, <1>4, <2>1
  <2> QED BY <1>4, <2>1, <2>2, OtherCall
<1>5. CASE ServeRequest
  <2>1. call.kind = "batch"
    BY <1>5 DEF ServeRequest
  <2> DEFINE r == batch.reqs[call.at]
             out == Append(r.out, Decode(r.prompt, r.out, Tokens))
  <2>2. \/ call' = [call EXCEPT !.at = call.at + 1]
        \/ call' = [call EXCEPT !.at = call.at + 1, !.out[call.slot[r.id]] = out]
    BY <1>5, Zenon DEF ServeRequest
  <2> HIDE DEF r, out
  <2>3. ASSUME NEW at, NEW slot, NEW o, call' = [call EXCEPT !.at = at, !.out[slot] = o]
        PROVE  CallKept(s)'
    <3>1. PICK d : d = [call EXCEPT !.at = at]
      OBVIOUS
    <3>2. PICK c : c = [d EXCEPT !.out[slot] = o]
      OBVIOUS
    <3>3. call' = c
      BY <2>3, <3>1, <3>2, Zenon
    <3>4. "kind" \in DOMAIN c /\ c.kind = "batch"
      BY <1>1, <2>1, <3>1, <3>2
    <3> QED BY <3>3, <3>4, OtherCall
  <2> QED BY <1>4, <2>1, <2>2, <2>3
<1>6. CASE EndOfPass
  <2>1. call' = NoCall \/ call' = [call EXCEPT !.at = 1]
    BY <1>6 DEF EndOfPass, Return
  <2>2. call.kind = "batch"
    BY <1>6 DEF EndOfPass
  <2> QED BY <1>4, <2>1, <2>2, NoCallKept
<1> QED BY <1>2, <1>3, <1>5, <1>6
-----------------------------------------------------------------------------
(* The invariant of the client's calls is inductive                        *)

LEMMA ClientInvFirst == ServingInit => ClientInv
<1>1. ASSUME KvInit, LLMIdle PROVE ClientInv
  <2>1. caller \in {"sequence", "paged", "pages", "prefix"}
    BY <1>1, KvAssumption DEF KvInit
  <2>2. caller # "firmware" /\ call = NoCall
    BY <1>1, <2>1 DEF LLMIdle
  <2> QED BY <2>2 DEF ClientInv
<1>2. ASSUME LLMInit PROVE ClientInv
  <2>1. PICK s \in LLMSetups : NewLLMClient(s.model, s.config, s.preload)
    BY <1>2 DEF LLMInit
  <2>2. PICK d : d = chassis
    OBVIOUS
  <2>3. "m" \in DOMAIN d /\ d.m = s.model
    BY <2>1, <2>2 DEF NewLLMClient, NewDriver
  <2>4. caller = "firmware" /\ cfg = s.config /\ call = [kind |-> "boot"]
    BY <2>1 DEF NewLLMClient
  <2>5. Client(s)
    BY <2>2, <2>3, <2>4 DEF Client
  <2>6. CallKept(s)
    BY <2>4 DEF CallKept, Kinds
  <2> QED BY <2>4, <2>5, <2>6 DEF ClientInv
<1> QED BY <1>1, <1>2 DEF ServingInit

LEMMA CallerFixed == ServingNext => caller' = caller
<1>1. ASSUME KvNext PROVE caller' = caller
  BY <1>1, ZenonT(30)
     DEF KvNext, InitNVMe, Offload, StoreNext, StorePagedInOrder, StorePaged, StorePagedAt,
         AllocVirt, FreeVirt, ShareVirt, PageCall, StorePrefix, LookupPrefix
<1>2. ASSUME LLMNext PROVE caller' = caller
  BY <1>2 DEF LLMNext, Boot, Configure, BeginGenerate, BeginSpeculative, BeginLogprobs,
     BeginBeamSearch, BeginStructured, StructuredPanics, Prefilled, BeginBatch, GenerateStep,
     SpeculativeStep,
     StructuredStep, BeamStep, ServeRequest, EndOfPass, kvVars
<1> QED BY <1>1, <1>2 DEF ServingNext

LEMMA ClientFixed ==
    ASSUME NEW s, Client(s), LLMNext
    PROVE  Client(s)' /\ cfg' = cfg
<1>1. cfg' = cfg
  BY DEF LLMNext, Boot, Configure, BeginGenerate, BeginSpeculative, BeginLogprobs,
     BeginBeamSearch, BeginStructured, StructuredPanics, Prefilled, BeginBatch, GenerateStep,
     SpeculativeStep,
     StructuredStep, BeamStep, ServeRequest, EndOfPass
<1>2. \/ chassis' = chassis
      \/ chassis' = [chassis EXCEPT !.sent = BuildWeightCommands(chassis)]
  BY DEF LLMNext, Boot, Configure, BeginGenerate, BeginSpeculative, BeginLogprobs,
     BeginBeamSearch, BeginStructured, StructuredPanics, Prefilled, BeginBatch, GenerateStep,
     SpeculativeStep,
     StructuredStep, BeamStep, ServeRequest, EndOfPass
<1> QED BY <1>1, <1>2, ClientStays

LEMMA BeginOtherKeeps ==
    ASSUME NEW s, NEW prompt,
           \/ BeginSpeculative(prompt)
           \/ BeginBeamSearch(prompt)
           \/ \E prompts \in BatchCalls : BeginBatch(prompts)
    PROVE  CallKept(s)'
<1>1. ASSUME BeginSpeculative(prompt) PROVE CallKept(s)'
  <2>1. PICK c : call' = c /\ c = [kind |-> "speculative", prompt |-> prompt, out |-> <<>>]
    BY <1>1 DEF BeginSpeculative, Prefilled
  <2>2. "kind" \in DOMAIN c /\ c.kind = "speculative"
    BY <2>1
  <2> QED BY <2>1, <2>2, OtherCall
<1>2. ASSUME BeginBeamSearch(prompt) PROVE CallKept(s)'
  <2>1. \E beams : call' = [kind |-> "beam", prompt |-> prompt, out |-> <<>>, step |-> 0,
                            beams |-> beams]
    BY <1>2 DEF BeginBeamSearch, Prefilled
  <2>2. PICK c, beams : /\ call' = c
                        /\ c = [kind |-> "beam", prompt |-> prompt, out |-> <<>>, step |-> 0,
                                beams |-> beams]
    BY <2>1
  <2>3. "kind" \in DOMAIN c /\ c.kind = "beam"
    BY <2>2
  <2> QED BY <2>2, <2>3, OtherCall
<1>3. ASSUME NEW prompts, BeginBatch(prompts) PROVE CallKept(s)'
  <2>1. \/ call' = NoCall
        \/ \E slot, out : call' = [kind |-> "batch", prompt |-> prompts, at |-> 1,
                                   slot |-> slot, out |-> out]
    BY <1>3, Zenon DEF BeginBatch
  <2>2. ASSUME NEW slot, NEW out,
               call' = [kind |-> "batch", prompt |-> prompts, at |-> 1, slot |-> slot, out |-> out]
        PROVE  CallKept(s)'
    <3>1. PICK c : /\ call' = c
                   /\ c = [kind |-> "batch", prompt |-> prompts, at |-> 1, slot |-> slot,
                           out |-> out]
      BY <2>2
    <3>2. "kind" \in DOMAIN c /\ c.kind = "batch"
      BY <3>1
    <3> QED BY <3>1, <3>2, OtherCall
  <2> QED BY <2>1, <2>2, NoCallKept
<1> QED BY <1>1, <1>2, <1>3

(* Without a client there is no call, so only the cache moves.             *)
LEMMA NoLLMStep ==
    ASSUME caller # "firmware", call = NoCall, LLMNext
    PROVE  FALSE
<1>1. call.kind = "none" /\ call # [kind |-> "boot"]
  BY DEF NoCall
<1> QED BY <1>1 DEF LLMNext, Boot, Configure, BeginGenerate, BeginSpeculative, BeginLogprobs,
     BeginBeamSearch, BeginStructured, StructuredPanics, Prefilled, BeginBatch, Idle, GenerateStep,
     SpeculativeStep,
     StructuredStep, BeamStep, ServeRequest, EndOfPass

LEMMA NoClientNoCall ==
    ASSUME caller # "firmware", call = NoCall, ServingNext
    PROVE  call' = NoCall
  BY NoLLMStep DEF ServingNext, llmVars

LEMMA LLMKeepsCall ==
    ASSUME NEW s, Client(s), CallKept(s), LLMNext
    PROVE  CallKept(s)'
<1>1. ASSUME Boot PROVE CallKept(s)'
  BY <1>1, CallStays DEF Boot
<1>2. ASSUME Configure PROVE CallKept(s)'
  BY <1>2, NoCallKept DEF Configure
<1>3. ASSUME NEW prompt \in Prompts,
             \/ BeginGenerate(prompt)
             \/ BeginSpeculative(prompt)
             \/ BeginLogprobs(prompt)
             \/ BeginBeamSearch(prompt)
             \/ \E pattern \in Patterns : BeginStructured(prompt, pattern)
      PROVE  CallKept(s)'
  BY <1>3, BeginGenerateKeeps, BeginLogprobsKeeps, BeginStructuredKeeps, BeginOtherKeeps
<1>4. ASSUME NEW prompts \in BatchCalls, BeginBatch(prompts) PROVE CallKept(s)'
  BY <1>4, BeginOtherKeeps
<1>5. ASSUME NEW pattern \in Patterns, StructuredPanics(pattern) PROVE CallKept(s)'
  BY <1>5, StructuredPanicsKeeps
<1> QED BY <1>1, <1>2, <1>3, <1>4, <1>5, GenerateStepKeeps, StructuredStepKeeps, OtherCallKeeps
        DEF LLMNext

LEMMA ClientInvNext == ClientInv /\ [ServingNext]_servingVars => ClientInv'
<1> SUFFICES ASSUME ClientInv, [ServingNext]_servingVars PROVE ClientInv'
  OBVIOUS
<1>1. caller' = caller
  BY CallerFixed DEF servingVars, kvVars
<1>2. CASE caller = "firmware"
  <2>1. PICK s : Client(s) /\ CallKept(s)
    BY <1>2 DEF ClientInv
  <2>2. CASE UNCHANGED llmVars
    <3>1. cfg' = cfg /\ chassis' = chassis /\ call' = call
      BY <2>2 DEF llmVars
    <3>2. Client(s)' /\ CallKept(s)'
      BY <2>1, <3>1, ClientStays, CallStays
    <3> QED BY <1>1, <1>2, <3>2 DEF ClientInv
  <2>3. CASE LLMNext
    <3>1. Client(s)' /\ CallKept(s)'
      BY <2>1, <2>3, ClientFixed, LLMKeepsCall
    <3> QED BY <1>1, <1>2, <3>1 DEF ClientInv
  <2> QED BY <2>2, <2>3 DEF ServingNext, servingVars
<1>3. CASE caller # "firmware"
  <2>1. call = NoCall
    BY <1>3 DEF ClientInv
  <2>2. call' = NoCall
    BY <1>3, <2>1, NoClientNoCall DEF servingVars, llmVars
  <2> QED BY <1>1, <1>3, <2>2 DEF ClientInv
<1> QED BY <1>2, <1>3

LEMMA ClientInvAlways == ServingSpec => []ClientInv
<1> QED BY ClientInvFirst, ClientInvNext, PTL DEF ServingSpec

(* A sampled token has passed the filters that are set: it is among the    *)
(* top-k, its probability is at least the min-p share of the best token's, *)
(* and the tokens above it have not reached top-p without it               *)
(* (sampleFromLogits), for every configuration and every logits.           *)
THEOREM SampledFromFilter == ServingSpec => []SamplesFromFilter
<1>1. ClientInv => SamplesFromFilter
  <2> SUFFICES ASSUME ClientInv PROVE SamplesFromFilter
    OBVIOUS
  <2>1. CASE caller = "firmware"
    <3>1. PICK s : Client(s) /\ CallKept(s)
      BY <2>1 DEF ClientInv
    <3> QED BY <3>1, SamplingFiltered DEF CallKept
  <2>2. CASE caller # "firmware"
    <3>1. call.kind = "none"
      BY <2>2 DEF ClientInv, NoCall
    <3> QED BY <3>1 DEF SamplesFromFilter
  <2> QED BY <2>1, <2>2
<1> QED BY <1>1, ClientInvAlways, PTL

(* Compiling a pattern panics where a + stands behind a starred class, and *)
(* nowhere else.  Once a pattern is compiled and can be completed from its *)
(* beginning, the mask never leads a structured generation into a state    *)
(* where no token fits (TokenMask over ensureCompletable), and a text it   *)
(* completes is one the pattern denotes, if its syntax is one the compiler *)
(* reads as it is documented; for every vocabulary and every pattern.      *)
THEOREM NeverStrandedThm == ServingSpec => []NeverStranded
<1>1. ClientInv => NeverStranded
  <2> SUFFICES ASSUME ClientInv, call.kind \in {"structured", "panicked"} PROVE NeverStranded
    BY DEF NeverStranded
  <2>1. caller = "firmware"
    BY DEF ClientInv, NoCall
  <2>2. PICK s : CallKept(s)
    BY <2>1 DEF ClientInv
  <2>3. call.pattern \in Patterns /\ (call.kind = "panicked" <=> CompilePanics(call.pattern))
    BY <2>2 DEF CallKept
  <2>4. PatternShaped(call.pattern)
    BY <2>3, PatternAssumption
  <2>5. CompilePanics(call.pattern) <=> PlusBehindStar(call.pattern)
    BY <2>4, PanicsWhere
  <2>6. ASSUME call.kind = "structured", 0 \in Completable(call.fsm.states)
        PROVE  /\ ~call.fsm.broken
               /\ call.fsm.complete /\ Regular(call.pattern) =>
                    Denotes(call.pattern, StructuredText(call.out))
    <3>1. Guided(call.pattern, call.out, call.fsm)
      BY <2>2, <2>6 DEF CallKept
    <3> QED BY <2>4, <2>6, <3>1, GuidedText
  <2> QED BY <2>3, <2>5, <2>6 DEF NeverStranded
<1> QED BY <1>1, ClientInvAlways, PTL

-----------------------------------------------------------------------------
(* The types of the cache, whoever uses it                                 *)

SinkBlocks == UNION {[D -> KvLayerIds \X Int] : D \in SUBSET Int}

(* The caches that stores and offloads can make of s.                      *)
Typed(s) ==
  [ mode : {s.mode}, banks : Banks, window : {s.window}, lba : 0 .. LBAEnd - 1, stats : Stats,
    nvme : [present : {s.nvme.present}, ready : {s.nvme.ready}, blocks : SinkBlocks] ]

LEMMA TypedAgain ==
    ASSUME NEW s, NEW t \in Typed(s)
    PROVE  t \in Typed(t)
<1>1. /\ t.mode = s.mode /\ t.window = s.window /\ t.nvme.present = s.nvme.present
      /\ t.nvme.ready = s.nvme.ready
  BY DEF Typed
<1> QED BY <1>1 DEF Typed

LEMMA NewBankTyped == NewBank \in Bank
<1>1. 0 \in Places /\ 0 \in 0 .. Depth
  BY KvAssumption DEF Places
<1>2. [i \in 0 .. Depth - 1 |-> NoEntry] \in [Places -> Int]
  BY DEF Places, NoEntry
<1>3. [i \in 0 .. Depth - 1 |-> -1] \in [Places -> Int]
  BY DEF Places
<1> QED BY <1>1, <1>2, <1>3 DEF NewBank, Bank

(* The pointers stay in the ring.                                          *)
LEMMA Around ==
    ASSUME NEW n \in Int
    PROVE  (n + 1) % Depth \in Places
<1>1. PICK D \in Nat \ {0} : D = Depth
  BY KvAssumption
<1>2. (n + 1) % D \in 0 .. D - 1
  OBVIOUS
<1> QED BY <1>1, <1>2 DEF Places

LEMMA BankStoreTyped ==
    ASSUME NEW b \in Bank, NEW entry \in Int, NEW pos \in Int
    PROVE  BankStore(b, entry, pos) \in Bank
<1>1. CASE BankFull(b)
  BY <1>1 DEF BankStore
<1>2. CASE ~BankFull(b)
  <2>1. PICK w \in Places : w = b.wr
    BY DEF Bank
  <2>2. PICK o \in 0 .. Depth : o = b.occ /\ o + 1 \in 0 .. Depth
    <3>1. PICK o \in 0 .. Depth : o = b.occ
      BY DEF Bank
    <3>2. o # Depth
      BY <1>2, <3>1 DEF BankFull
    <3> QED BY <3>1, <3>2, KvAssumption
  <2>3. PICK e \in [Places -> Int] : e = [b.entries EXCEPT ![w] = entry]
    BY DEF Bank
  <2>4. PICK q \in [Places -> Int] : q = [b.seq EXCEPT ![w] = pos]
    BY DEF Bank
  <2>5. PICK v \in Places : v = (w + 1) % Depth
    BY <2>1, Around DEF Places
  <2>6. BankStore(b, entry, pos)
          = [b EXCEPT !.entries = e, !.seq = q, !.wr = v, !.occ = o + 1]
    BY <1>2, <2>1, <2>2, <2>3, <2>4, <2>5 DEF BankStore
  <2> QED BY <2>2, <2>6 DEF Bank
<1> QED BY <1>1, <1>2

LEMMA BankEvictTyped ==
    ASSUME NEW b \in Bank
    PROVE  BankEvict(b) \in Bank
<1>1. CASE b.occ = 0
  BY <1>1 DEF BankEvict
<1>2. CASE b.occ # 0
  <2>1. PICK r \in Places : r = b.rd
    BY DEF Bank
  <2>2. PICK o \in 0 .. Depth : o = b.occ /\ o - 1 \in 0 .. Depth
    <3>1. PICK o \in 0 .. Depth : o = b.occ
      BY DEF Bank
    <3> QED BY <1>2, <3>1, KvAssumption
  <2>3. PICK e \in [Places -> Int] : e = [b.entries EXCEPT ![r] = NoEntry]
    <3>1. NoEntry \in Int
      BY DEF NoEntry
    <3> QED BY <3>1 DEF Bank
  <2>4. PICK v \in Places : v = (r + 1) % Depth
    BY <2>1, Around DEF Places
  <2>5. BankEvict(b) = [b EXCEPT !.entries = e, !.rd = v, !.occ = o - 1]
    BY <1>2, <2>1, <2>2, <2>3, <2>4 DEF BankEvict
  <2> QED BY <2>2, <2>5 DEF Bank
<1> QED BY <1>1, <1>2

LEMMA LayerStoreTyped ==
    ASSUME NEW banks \in [BankIds -> Bank], NEW pos \in Int, NEW entry \in Int
    PROVE  LayerStore(banks, pos, entry) \in [BankIds -> Bank]
<1>1. CASE pos < 0
  BY <1>1 DEF LayerStore
<1>2. CASE ~(pos < 0)
  <2>1. BankOf(pos) \in BankIds /\ LocalPos(pos) \in Int
    BY <1>2 DEF BankOf, LocalPos, BankIds, NumBanks
  <2>2. BankStore(banks[BankOf(pos)], entry, LocalPos(pos)) \in Bank
    BY <2>1, BankStoreTyped
  <2> QED BY <1>2, <2>1, <2>2 DEF LayerStore
<1> QED BY <1>1, <1>2

(* One pass of the drain loop, the loop over a layer and the whole cycle.  *)
LEMMA OffloadTyped ==
    ASSUME NEW s, NEW t \in Typed(s), NEW l \in KvLayerIds
    PROVE  OffloadOne(t, l) \in Typed(s)
<1>1. PICK banks \in Banks : banks = t.banks
  BY DEF Typed
<1>2. PICK i \in BankIds : i = FullestBank(banks[l])
  BY FullestIsBank DEF Banks
<1>3. PICK b \in Bank : b = banks[l][i]
  BY DEF Banks
<1>4. PICK e : e = PeekOldest(b)
  OBVIOUS
<1>5. e \in Int
  <2>1. b.entries[b.rd] \in Int /\ NoEntry \in Int
    BY DEF Bank, NoEntry
  <2> QED BY <1>4, <2>1 DEF PeekOldest
<1>6. PICK new \in Banks : new = [banks EXCEPT ![l][i] = BankEvict(b)]
  <2>1. BankEvict(b) \in Bank
    BY BankEvictTyped
  <2> QED BY <1>2, <2>1 DEF Banks
<1>7. PICK d : d = [t EXCEPT !.banks = new]
  OBVIOUS
<1>8. [t EXCEPT !.banks[l][i] = BankEvict(t.banks[l][i])] = d
  BY <1>1, <1>3, <1>6, <1>7 DEF Typed
<1>9. /\ d \in Typed(s) /\ d.mode = t.mode /\ d.nvme = t.nvme /\ d.lba = t.lba
      /\ d.stats = t.stats
  BY <1>7 DEF Typed
<1>10. OffloadOne(t, l) =
         CASE t.mode = "dma_bmc" -> [d EXCEPT !.stats.dmaToBMC = d.stats.dmaToBMC + 1]
           [] t.mode = "nvme" /\ t.nvme.present ->
                [d EXCEPT !.nvme = NvmeWrite(d.nvme, t.lba, l, e), !.lba = NextLBA(d.lba),
                          !.stats.nvmeWrites = d.stats.nvmeWrites + 1]
           [] OTHER -> [d EXCEPT !.stats.discarded = d.stats.discarded + 1]
  BY <1>1, <1>2, <1>3, <1>4, <1>8 DEF OffloadOne
<1>11. CASE t.mode = "dma_bmc"
  <2>1. PICK r : r = [d EXCEPT !.stats.dmaToBMC = d.stats.dmaToBMC + 1]
    OBVIOUS
  <2>2. OffloadOne(t, l) = r
    BY <1>10, <1>11, <2>1
  <2> QED BY <1>9, <2>1, <2>2 DEF Typed, Stats
<1>12. CASE ~Persists(t) /\ t.mode # "dma_bmc"
  <2>1. PICK r : r = [d EXCEPT !.stats.discarded = d.stats.discarded + 1]
    OBVIOUS
  <2>2. OffloadOne(t, l) = r
    BY <1>10, <1>12, <2>1 DEF Persists
  <2> QED BY <1>9, <2>1, <2>2 DEF Typed, Stats
<1>13. CASE Persists(t)
  <2>1. PICK lba \in 0 .. LBAEnd - 1 : lba = t.lba
    BY DEF Typed
  <2>2. PICK next \in 0 .. LBAEnd - 1 : next = NextLBA(lba)
    <3>1. PICK E \in Nat : E = LBAEnd /\ E # 0
      BY KvAssumption
    <3>2. PICK B \in Nat : B = EntryBlocks
      BY KvAssumption
    <3> QED BY <2>1, <3>1, <3>2 DEF NextLBA
  <2>3. PICK blocks \in SinkBlocks : blocks = t.nvme.blocks
    BY DEF Typed
  <2>4. PICK here : here = lba .. lba + EntryBlocks - 1
    OBVIOUS
  <2>5. PICK nb : nb = [x \in DOMAIN blocks \cup here |-> IF x \in here THEN <<l, e>> ELSE blocks[x]]
    OBVIOUS
  <2>6. nb \in SinkBlocks
    <3>1. PICK D \in SUBSET Int : blocks \in [D -> KvLayerIds \X Int]
      BY <2>3 DEF SinkBlocks
    <3>2. here \in SUBSET Int
      BY <2>1, <2>4, KvAssumption
    <3>3. nb \in [D \cup here -> KvLayerIds \X Int]
      BY <1>5, <2>5, <3>1
    <3>4. D \cup here \in SUBSET Int
      BY <3>1, <3>2
    <3> QED BY <3>3, <3>4 DEF SinkBlocks
  <2>7. PICK v : v = [t.nvme EXCEPT !.blocks = nb]
    OBVIOUS
  <2>8. NvmeWrite(d.nvme, t.lba, l, e) = v
    BY <1>9, <2>1, <2>3, <2>4, <2>5, <2>7 DEF NvmeWrite
  <2>9. v \in [present : {s.nvme.present}, ready : {s.nvme.ready}, blocks : SinkBlocks]
    BY <2>6, <2>7 DEF Typed
  <2>10. PICK u : u = [d.stats EXCEPT !.nvmeWrites = d.stats.nvmeWrites + 1]
    OBVIOUS
  <2>11. u \in Stats
    BY <1>9, <2>10 DEF Typed, Stats
  <2>12. OffloadOne(t, l) = [d EXCEPT !.nvme = v, !.lba = next, !.stats = u]
    <3>1. t.mode = "nvme" /\ t.nvme.present /\ t.mode # "dma_bmc"
      BY <1>13 DEF Persists
    <3> QED BY <1>9, <1>10, <2>1, <2>2, <2>8, <2>10, <3>1, ZenonT(30)
  <2> QED BY <1>9, <2>9, <2>11, <2>12 DEF Typed
<1> QED BY <1>11, <1>12, <1>13

LEMMA LayerTyped ==
    ASSUME NEW s, NEW t \in Typed(s), NEW l \in KvLayerIds
    PROVE  OffloadLayer(t, l) \in Typed(s)
<1>1. CASE ~NeedsOffload(t.banks[l])
  BY <1>1 DEF OffloadLayer
<1>2. CASE NeedsOffload(t.banks[l]) /\ SinkFails(t)
  <2>1. PICK r : r = [t EXCEPT !.stats.errors = t.stats.errors + 1]
    OBVIOUS
  <2>2. OffloadLayer(t, l) = r
    BY <1>2, <2>1 DEF OffloadLayer
  <2> QED BY <2>1, <2>2 DEF Typed, Stats
<1>3. CASE NeedsOffload(t.banks[l]) /\ ~SinkFails(t)
  <2>1. DrainsWithin(Typed(s), l)
    BY OffloadTyped DEF DrainsWithin, DrainOne
  <2> QED BY <1>3, <2>1, LayerLoop
<1> QED BY <1>1, <1>2, <1>3

LEMMA CycleTyped ==
    ASSUME NEW s, NEW t \in Typed(s)
    PROVE  OffloadCycle(t) \in Typed(s)
<1>1. LayersWithin(Typed(s))
  BY LayerTyped DEF LayersWithin
<1> QED BY <1>1, CycleLoop

LEMMA NewCacheTyped ==
    ASSUME NEW mode, NEW present \in BOOLEAN, NEW setting, NEW s,
           s = NewKVCache(mode, present, setting)
    PROVE  s \in Typed(s)
<1>1. s.banks \in Banks
  BY NewBankTyped DEF NewKVCache, Banks
<1>2. s.stats \in Stats
  BY DEF NewKVCache, Stats
<1>3. <<>> \in SinkBlocks
  <2>1. <<>> \in [{} -> KvLayerIds \X Int] /\ {} \in SUBSET Int
    OBVIOUS
  <2> QED BY <2>1 DEF SinkBlocks
<1>4. 0 \in 0 .. LBAEnd - 1
  BY KvAssumption
<1>5. /\ s.nvme \in [present : {s.nvme.present}, ready : {s.nvme.ready}, blocks : SinkBlocks]
      /\ s.lba = 0
  BY <1>3 DEF NewKVCache
<1>6. s = [mode |-> s.mode, banks |-> s.banks, window |-> s.window, lba |-> s.lba,
           stats |-> s.stats, nvme |-> s.nvme]
  BY DEF NewKVCache
<1> QED BY <1>1, <1>2, <1>4, <1>5, <1>6 DEF Typed

(* What another user has stored in the cache of a new client.              *)
LEMMA FirstTyped ==
    ASSUME NEW banks \in [BankIds -> Bank], NEW n \in Nat
    PROVE  StoredFirst(banks, n) \in [BankIds -> Bank]
<1>1. PICK V : V = [BankIds -> Bank]
  OBVIOUS
<1> DEFINE F == [iv \in (0 .. n - 1) \X V |-> LayerStore(iv[2], iv[1], iv[1])]
           Eqn(h) == h = [k \in 0 .. n |-> IF k = 0 THEN banks ELSE LayerStore(h[k - 1], k - 1, k - 1)]
<1>2. ASSUME NEW i \in 0 .. n - 1, NEW v \in V PROVE LayerStore(v, i, i) \in V
  <2>1. i \in Int
    OBVIOUS
  <2> QED BY <1>1, <2>1, LayerStoreTyped
<1>3. ASSUME NEW i \in 0 .. n - 1, NEW v \in V
      PROVE  F[<<i, v>>] = LayerStore(v, i, i) /\ F[<<i, v>>] \in V
  BY <1>2
<1> HIDE DEF F
<1>4. PICK f : IsRec(f, n, banks, F, V)
  BY <1>1, <1>3, RecUpTo
<1>5. f \in [0 .. n -> V] /\ f[0] = banks
  BY <1>4 DEF IsRec
<1>6. ASSUME NEW k \in 0 .. n, k # 0 PROVE f[k] = LayerStore(f[k - 1], k - 1, k - 1)
  <2>1. k - 1 \in 0 .. n - 1 /\ (k - 1) + 1 = k /\ k - 1 \in 0 .. n
    BY <1>6
  <2>2. f[(k - 1) + 1] = F[<<k - 1, f[k - 1]>>]
    BY <1>4, <2>1 DEF IsRec
  <2> QED BY <1>3, <1>5, <2>1, <2>2
<1>7. Eqn(f)
  BY <1>5, <1>6
<1> DEFINE h == CHOOSE h : Eqn(h)
<1>8. Eqn(h)
  BY <1>7
<1>9. StoredFirst(banks, n) = h[n]
  BY DEF StoredFirst
<1> HIDE DEF h
<1>10. h[0] = banks /\ \A k \in 1 .. n : h[k] = LayerStore(h[k - 1], k - 1, k - 1)
  BY <1>8
<1>11. ASSUME NEW k \in 1 .. n, h[k - 1] \in V PROVE h[k] \in V
  <2>1. k - 1 \in 0 .. n - 1
    OBVIOUS
  <2> QED BY <1>2, <1>10, <1>11, <2>1
<1>12. h[n] \in V
  BY <1>1, <1>10, <1>11, Kept
<1> QED BY <1>1, <1>9, <1>12

LEMMA FilledTyped ==
    ASSUME NEW s, s \in Typed(s), NEW n \in Nat
    PROVE  Filled(s, n) \in Typed(s)
<1>1. PICK new : new = [l \in KvLayerIds |-> StoredFirst(s.banks[l], n)]
  OBVIOUS
<1>2. \A l \in KvLayerIds : s.banks[l] \in [BankIds -> Bank]
  BY DEF Typed, Banks
<1>3. new \in Banks
  BY <1>1, <1>2, FirstTyped DEF Banks
<1>4. Filled(s, n) = [s EXCEPT !.banks = new]
  BY <1>1 DEF Filled
<1> QED BY <1>3, <1>4 DEF Typed

-----------------------------------------------------------------------------
(* The cache under its own callers                                         *)

Counts == (0 .. MaxPos) \cup (0 .. MaxPaged)

PrefixTyped(p) ==
  /\ "entries" \in DOMAIN p
  /\ IsFiniteSet(DOMAIN p.entries) /\ Cardinality(DOMAIN p.entries) <= PrefixMax

CacheTyped ==
  /\ TablesOK /\ kv \in Typed(kv) /\ stored \in [KvLayerIds -> Counts] /\ PrefixTyped(prefix)

(* A lookup counts, and counts the hit on the entry it finds.              *)
LEMMA HitTyped ==
    ASSUME NEW p, PrefixTyped(p), NEW tokens, NEW n, NEW m
    PROVE  /\ PrefixTyped([p EXCEPT !.hits = n])
           /\ PrefixTyped([p EXCEPT !.misses = n])
           /\ PrefixTyped([p EXCEPT !.entries[tokens].hits = n])
           /\ PrefixTyped([p EXCEPT !.hits = m, !.entries[tokens].hits = n])
<1>1. ASSUME NEW q, "entries" \in DOMAIN q, DOMAIN q.entries = DOMAIN p.entries
      PROVE  PrefixTyped(q)
  BY <1>1 DEF PrefixTyped
<1>2. PICK a : a = [p EXCEPT !.hits = n]
  OBVIOUS
<1>3. PICK b : b = [p EXCEPT !.misses = n]
  OBVIOUS
<1>4. PICK e : e = [p.entries EXCEPT ![tokens].hits = n]
  OBVIOUS
<1>5. PICK c : c = [p EXCEPT !.entries = e]
  OBVIOUS
<1>6. PICK h : h = [p EXCEPT !.hits = m]
  OBVIOUS
<1>7. PICK d : d = [h EXCEPT !.entries = e]
  OBVIOUS
<1>8. DOMAIN e = DOMAIN p.entries
  BY <1>4
<1>9. "entries" \in DOMAIN p
  BY DEF PrefixTyped
<1>10. /\ "entries" \in DOMAIN a /\ DOMAIN a.entries = DOMAIN p.entries
       /\ "entries" \in DOMAIN b /\ DOMAIN b.entries = DOMAIN p.entries
       /\ "entries" \in DOMAIN c /\ DOMAIN c.entries = DOMAIN p.entries
       /\ "entries" \in DOMAIN d /\ DOMAIN d.entries = DOMAIN p.entries
  BY <1>2, <1>3, <1>5, <1>6, <1>7, <1>8, <1>9
<1>11. [p EXCEPT !.entries[tokens].hits = n] = c
  BY <1>4, <1>5
<1>12. [p EXCEPT !.hits = m, !.entries[tokens].hits = n] = d
  BY <1>4, <1>6, <1>7
<1> QED BY <1>1, <1>2, <1>3, <1>10, <1>11, <1>12

LEMMA LookupTyped ==
    ASSUME PrefixTyped(prefix), NEW tokens
    PROVE  PrefixTyped(LookedUp(tokens))
<1>1. PICK m, n : LookedUp(tokens)
                    = IF tokens \in DOMAIN prefix.entries
                        THEN [prefix EXCEPT !.hits = m, !.entries[tokens].hits = n]
                        ELSE [prefix EXCEPT !.misses = prefix.misses + 1]
  BY DEF LookedUp
<1>2. /\ PrefixTyped([prefix EXCEPT !.hits = m, !.entries[tokens].hits = n])
      /\ PrefixTyped([prefix EXCEPT !.misses = prefix.misses + 1])
  BY HitTyped
<1> QED BY <1>1, <1>2

(* A full prefix cache drops as many entries as it takes in.               *)
LEMMA AddTyped ==
    ASSUME NEW p, PrefixTyped(p), NEW tokens, tokens \notin DOMAIN p.entries,
           NEW layer, NEW virtPages, NEW q \in AddPrefix(p, tokens, layer, virtPages)
    PROVE  PrefixTyped(q)
<1>1. PICK old : old = DOMAIN p.entries
  OBVIOUS
<1>2. PICK n \in Nat : n = Cardinality(old) /\ n <= PrefixMax /\ IsFiniteSet(old)
  BY <1>1, FS_CardinalityType DEF PrefixTyped
<1>3. PICK D : D = old \cup {tokens}
  OBVIOUS
<1>4. IsFiniteSet(D) /\ Cardinality(D) = n + 1
  BY <1>1, <1>2, <1>3, FS_AddElement
<1>5. \E f : /\ DOMAIN f \subseteq D /\ q = [p EXCEPT !.entries = f]
             /\ \/ Cardinality(D) <= PrefixMax /\ DOMAIN f = D
                \/ \E gone \in old : DOMAIN f = D \ {gone}
  <2> DEFINE added == [t \in DOMAIN p.entries \cup {tokens} |->
                         IF t = tokens THEN [layer |-> layer, pages |-> virtPages, hits |-> 1]
                                       ELSE p.entries[t]]
             least == { t \in DOMAIN p.entries : \A u \in DOMAIN p.entries :
                          p.entries[t].hits <= p.entries[u].hits }
  <2>1. DOMAIN added = D
    BY <1>1, <1>3
  <2>2. q \in IF Cardinality(DOMAIN added) <= PrefixMax
                THEN { [p EXCEPT !.entries = added] }
                ELSE { [p EXCEPT !.entries = [t \in DOMAIN added \ {gone} |-> added[t]]] : gone \in least }
    BY Zenon DEF AddPrefix
  <2>3. least \subseteq old
    BY <1>1
  <2> HIDE DEF added, least
  <2>4. CASE Cardinality(DOMAIN added) <= PrefixMax
    <3>1. q = [p EXCEPT !.entries = added]
      BY <2>2, <2>4
    <3> QED BY <2>1, <2>4, <3>1
  <2>5. CASE ~(Cardinality(DOMAIN added) <= PrefixMax)
    <3>1. PICK gone \in least : q = [p EXCEPT !.entries = [t \in DOMAIN added \ {gone} |-> added[t]]]
      BY <2>2, <2>5
    <3>2. PICK f : f = [t \in DOMAIN added \ {gone} |-> added[t]]
      OBVIOUS
    <3>3. DOMAIN f = D \ {gone} /\ gone \in old /\ q = [p EXCEPT !.entries = f]
      BY <2>1, <2>3, <3>1, <3>2
    <3> QED BY <3>3
  <2> QED BY <2>4, <2>5
<1>6. PICK f : /\ q = [p EXCEPT !.entries = f]
               /\ \/ Cardinality(D) <= PrefixMax /\ DOMAIN f = D
                  \/ \E gone \in old : DOMAIN f = D \ {gone}
  BY <1>5
<1>7. "entries" \in DOMAIN q /\ q.entries = f
  BY <1>6 DEF PrefixTyped
<1>8. CASE Cardinality(D) <= PrefixMax /\ DOMAIN f = D
  BY <1>4, <1>7, <1>8 DEF PrefixTyped
<1>9. ASSUME NEW gone \in old, DOMAIN f = D \ {gone} PROVE PrefixTyped(q)
  <2>1. gone \in D
    BY <1>3
  <2>2. IsFiniteSet(D \ {gone}) /\ Cardinality(D \ {gone}) = Cardinality(D) - 1
    BY <1>4, <2>1, FS_RemoveElement
  <2>3. (n + 1) - 1 <= PrefixMax
    BY <1>2
  <2> QED BY <1>4, <1>7, <1>9, <2>2, <2>3 DEF PrefixTyped
<1> QED BY <1>6, <1>8, <1>9

LEMMA StoreTyped ==
    ASSUME CacheTyped, NEW l \in KvLayerIds, NEW pos \in Int, NEW entry \in Int, NEW n \in Counts,
           kv' = [kv EXCEPT !.banks[l] = LayerStore(kv.banks[l], pos, entry)],
           stored' = [stored EXCEPT ![l] = n] \/ stored' = stored
    PROVE  kv' \in Typed(kv') /\ stored' \in [KvLayerIds -> Counts]
<1>1. PICK banks \in Banks : banks = kv.banks
  BY DEF CacheTyped, Typed
<1>2. PICK new : new = [banks EXCEPT ![l] = LayerStore(banks[l], pos, entry)]
  OBVIOUS
<1>3. LayerStore(banks[l], pos, entry) \in [BankIds -> Bank]
  <2>1. banks[l] \in [BankIds -> Bank]
    BY DEF Banks
  <2> QED BY <2>1, LayerStoreTyped
<1>4. new \in Banks
  BY <1>2, <1>3 DEF Banks
<1>5. PICK t : t = [kv EXCEPT !.banks = new]
  OBVIOUS
<1>6. kv' = t
  BY <1>1, <1>2, <1>5
<1>7. t \in Typed(kv)
  BY <1>4, <1>5 DEF CacheTyped, Typed
<1>8. stored' \in [KvLayerIds -> Counts]
  BY DEF CacheTyped
<1> QED BY <1>6, <1>7, <1>8, TypedAgain

LEMMA StorePagedTyped ==
    ASSUME CacheTyped, NEW l \in KvLayerIds, NEW v \in Int, NEW o \in Int, StorePagedAt(l, v, o),
           stored[l] + 1 \in Counts
    PROVE  CacheTyped'
<1>1. TablesOK'
  BY StoreStep DEF CacheTyped
<1>2. PrefixTyped(prefix)'
  BY DEF CacheTyped, PrefixTyped, StorePagedAt
<1>3. PICK pt : pt = IF Resident(pages[l], v) THEN pages[l] ELSE AllocPage(pages[l], v)
  OBVIOUS
<1>4. pages' = [pages EXCEPT ![l] = pt] /\ pages' \in [KvLayerIds -> Table]
  BY <1>1, <1>3 DEF StorePagedAt, TablesOK
<1>5. pt \in Table
  <2>1. pages'[l] = pt
    BY <1>4 DEF CacheTyped, TablesOK
  <2> QED BY <1>4, <2>1
<1>6. PICK idx \in Int : idx = PagedIdx(pt, v, o)
  <2>1. Translate(pt, v) \in Int
    BY <1>5 DEF Translate, Table, NotResident
  <2>2. PICK t \in Int : t = Translate(pt, v)
    BY <2>1
  <2>3. PICK size \in Int : size = PageSize
    BY KvAssumption
  <2>4. t * size + o \in Int
    OBVIOUS
  <2> QED BY <2>2, <2>3, <2>4 DEF PagedIdx
<1>7. v * PageSize + o \in Int
  <2>1. PICK size \in Int : size = PageSize
    BY KvAssumption
  <2>2. v * size + o \in Int
    OBVIOUS
  <2> QED BY <2>1, <2>2
<1>8. \/ UNCHANGED <<kv, stored>>
      \/ /\ kv' = [kv EXCEPT !.banks[l] = LayerStore(kv.banks[l], idx, v * PageSize + o)]
         /\ stored' = [stored EXCEPT ![l] = stored[l] + 1]
  BY <1>3, <1>6 DEF StorePagedAt
<1>9. kv' \in Typed(kv') /\ stored' \in [KvLayerIds -> Counts]
  <2>1. CASE UNCHANGED <<kv, stored>>
    BY <2>1 DEF CacheTyped
  <2> QED BY <1>6, <1>7, <1>8, <2>1, StoreTyped
<1> QED BY <1>1, <1>2, <1>9 DEF CacheTyped

(* What the callers of the library do keeps the cache well-typed.          *)
LEMMA KvKeepsTypes ==
    ASSUME CacheTyped, [KvNext]_kvVars
    PROVE  CacheTyped'
<1>1. TablesOK'
  BY TablesInductive DEF CacheTyped
<1>2. ASSUME UNCHANGED <<kv, prefix, stored>> PROVE CacheTyped'
  BY <1>1, <1>2 DEF CacheTyped, PrefixTyped
<1>3. CASE InitNVMe
  <2>1. PICK n : n = [kv.nvme EXCEPT !.ready = TRUE]
    OBVIOUS
  <2>2. kv' = [kv EXCEPT !.nvme = n]
    BY <1>3, <2>1 DEF InitNVMe
  <2>3. n \in [present : {n.present}, ready : {n.ready}, blocks : SinkBlocks]
    BY <2>1 DEF CacheTyped, Typed
  <2>4. kv' \in Typed(kv')
    BY <2>2, <2>3 DEF CacheTyped, Typed
  <2> QED BY <1>1, <1>3, <2>4 DEF CacheTyped, PrefixTyped, InitNVMe
<1>4. CASE Offload
  <2>1. kv' \in Typed(kv)
    BY <1>4, CycleTyped DEF Offload, CacheTyped
  <2>2. kv' \in Typed(kv')
    BY <2>1, TypedAgain
  <2> QED BY <1>1, <1>4, <2>2 DEF CacheTyped, PrefixTyped, Offload
<1>5. ASSUME NEW l \in KvLayerIds PROVE stored[l] \in Nat
  BY KvAssumption DEF CacheTyped, Counts
<1>6. ASSUME NEW l \in KvLayerIds, StoreNext(l) PROVE CacheTyped'
  <2>1. PICK pos \in Nat : pos = stored[l] /\ pos < MaxPos
    BY <1>5, <1>6 DEF StoreNext
  <2>2. pos \in Counts /\ pos + 1 \in Counts
    BY <2>1, KvAssumption DEF Counts
  <2>3. PICK n \in Counts : stored' = [stored EXCEPT ![l] = n]
    BY <1>6, <2>1, <2>2 DEF StoreNext
  <2>4. kv' = [kv EXCEPT !.banks[l] = LayerStore(kv.banks[l], pos, pos)]
    BY <1>6, <2>1 DEF StoreNext
  <2>5. kv' \in Typed(kv') /\ stored' \in [KvLayerIds -> Counts]
    <3>1. pos \in Int
      OBVIOUS
    <3> QED BY <2>3, <2>4, <3>1, StoreTyped, Zenon
  <2> QED BY <1>1, <1>6, <2>5 DEF CacheTyped, PrefixTyped, StoreNext
<1>7. ASSUME NEW l \in KvLayerIds, StorePagedInOrder(l) PROVE CacheTyped'
  <2>1. PICK n \in Nat : n = stored[l] /\ n < MaxPos
    BY <1>5, <1>7 DEF StorePagedInOrder
  <2>2. stored[l] + 1 \in Counts
    BY <2>1, KvAssumption DEF Counts
  <2>3. n \div PageSize \in Int /\ n % PageSize \in Int
    <3>1. PICK size \in Nat \ {0} : size = PageSize
      BY KvAssumption
    <3> QED BY <3>1
  <2> QED BY <1>7, <2>1, <2>2, <2>3, StorePagedTyped DEF StorePagedInOrder
<1>8. ASSUME NEW l \in KvLayerIds, NEW v \in Int, NEW o \in Int, StorePaged(l, v, o)
      PROVE  CacheTyped'
  <2>1. PICK n \in Nat : n = stored[l] /\ n < MaxPaged
    BY <1>5, <1>8 DEF StorePaged
  <2>2. stored[l] + 1 \in Counts
    BY <2>1, KvAssumption DEF Counts
  <2> QED BY <1>8, <2>2, StorePagedTyped DEF StorePaged
<1>9. ASSUME NEW l, NEW v, AllocVirt(l, v) \/ FreeVirt(l, v) \/ ShareVirt(l, v) PROVE CacheTyped'
  BY <1>2, <1>9 DEF AllocVirt, FreeVirt, ShareVirt, PageCall
<1>10. ASSUME PrefixTyped(prefix'), UNCHANGED <<kv, stored>> PROVE CacheTyped'
  BY <1>1, <1>10 DEF CacheTyped
<1>11. PrefixTyped(prefix)
  BY DEF CacheTyped
<1>12. ASSUME NEW tokens, NEW l, NEW w, StorePrefix(tokens, l, w) PROVE CacheTyped'
  <2>1. CASE tokens \in DOMAIN prefix.entries
    <3>1. PICK n : prefix' = [prefix EXCEPT !.entries[tokens].hits = n]
      BY <1>12, <2>1 DEF StorePrefix
    <3>2. PrefixTyped([prefix EXCEPT !.entries[tokens].hits = n])
      BY <1>11, HitTyped
    <3>3. PrefixTyped(prefix')
      BY <3>1, <3>2
    <3> QED BY <1>10, <1>12, <3>3 DEF StorePrefix
  <2>2. CASE tokens \notin DOMAIN prefix.entries
    <3>1. prefix' \in AddPrefix(prefix, tokens, l, w)
      BY <1>12, <2>2 DEF StorePrefix
    <3>2. PrefixTyped(prefix')
      BY <1>11, <2>2, <3>1, AddTyped
    <3> QED BY <1>10, <1>12, <3>2 DEF StorePrefix
  <2> QED BY <2>1, <2>2
<1>13. ASSUME NEW tokens, LookupPrefix(tokens) PROVE CacheTyped'
  <2>1. prefix' = LookedUp(tokens)
    BY <1>13 DEF LookupPrefix, LookedUp
  <2> QED BY <1>10, <1>11, <1>13, <2>1, LookupTyped DEF LookupPrefix
<1>14. CASE UNCHANGED kvVars
  BY <1>2, <1>14 DEF kvVars
<1>15. CASE KvNext
  <2>1. \A l \in KvLayerIds : \A v \in 0 .. MaxVirtPages - 1 : \A o \in 0 .. PageSize - 1 :
          StorePaged(l, v, o) => CacheTyped'
    BY <1>8
  <2> QED BY <1>3, <1>4, <1>6, <1>7, <1>9, <1>12, <1>13, <1>15, <2>1 DEF KvNext
<1> QED BY <1>14, <1>15

-----------------------------------------------------------------------------
(* The firmware's plans leave its state and its draft length alone, and    *)
(* change the cache by offload cycles only                                 *)

FwIs(f, q, d) == {"state", "draft"} \subseteq DOMAIN f /\ f.state = q /\ f.draft = d

Planning(V, q, d, t) == {"fw", "kv"} \subseteq DOMAIN t /\ t.kv \in V /\ FwIs(t.fw, q, d)

CyclesWithin(V) == \A v \in V : OffloadCycle(v) \in V

LEMMA FwKept ==
    ASSUME NEW f, NEW q, NEW d, FwIs(f, q, d), NEW x, NEW ml
    PROVE  /\ FwIs([f EXCEPT !.seq = x], q, d)
           /\ FwIs([f EXCEPT !.seq[ml] = x], q, d)
           /\ FwIs([f EXCEPT !.dispatched = x], q, d)
<1>1. ASSUME NEW y PROVE FwIs([f EXCEPT !.seq = y], q, d)
  BY DEF FwIs
<1>2. PICK y : y = [f.seq EXCEPT ![ml] = x]
  OBVIOUS
<1>3. [f EXCEPT !.seq[ml] = x] = [f EXCEPT !.seq = y]
  BY <1>2
<1>4. FwIs([f EXCEPT !.dispatched = x], q, d)
  BY DEF FwIs
<1> QED BY <1>1, <1>3, <1>4

LEMMA LayerPlanned ==
    ASSUME NEW V, CyclesWithin(V), NEW q, NEW d, NEW drv, NEW t, Planning(V, q, d, t),
           NEW token, NEW ml
    PROVE  Planning(V, q, d, PlanLayer(drv, t, token, ml))
<1>1. PICK p : p = PlanLayer(drv, t, token, ml)
  OBVIOUS
<1>2. PICK r : r = t.recs \o Attention(drv, t.fw, t.kv, ml) \o KvCheck(drv, t.kv, ml)
                     \o MoeDispatch(ml, GateToken(drv, token, ml))
  OBVIOUS
<1>3. PICK f : f = [t.fw EXCEPT !.seq[ml] = t.fw.seq[ml] + 1]
  OBVIOUS
<1>4. PICK k : k = IF KvCheck(drv, t.kv, ml) # <<>> THEN OffloadCycle(t.kv) ELSE t.kv
  OBVIOUS
<1>5. p = [fw |-> f, kv |-> k, recs |-> r]
  BY <1>1, <1>2, <1>3, <1>4 DEF PlanLayer
<1>6. FwIs(f, q, d)
  <2>1. FwIs(t.fw, q, d)
    BY DEF Planning
  <2> QED BY <1>3, <2>1, FwKept
<1>7. k \in V
  BY <1>4 DEF CyclesWithin, Planning
<1> QED BY <1>1, <1>5, <1>6, <1>7 DEF Planning

(* The recursion over the model's layers has a solution.                   *)
LEMMA LayersPlanned ==
    ASSUME NEW drv, NEW st, NEW token, drv.m.layers \in Nat
    PROVE  \E h : /\ h[0] = [fw |-> st.fw, kv |-> st.kv, recs |-> <<>>]
                  /\ \A n \in 1 .. drv.m.layers : h[n] = PlanLayer(drv, h[n - 1], token, n - 1)
                  /\ PlanInference(drv, st, token) = Dispatched(h[drv.m.layers])
<1>1. PICK first : first = [fw |-> st.fw, kv |-> st.kv, recs |-> <<>>]
  OBVIOUS
<1>2. PICK N \in Nat : N = drv.m.layers
  OBVIOUS
<1> DEFINE Eqn(h, m) == h = [n \in 0 .. m |-> IF n = 0 THEN first
                                              ELSE PlanLayer(drv, h[n - 1], token, n - 1)]
           S == {m \in Nat : \E h : Eqn(h, m)}
<1>3. 0 \in S
  <2>1. PICK h : h = [n \in 0 .. 0 |-> first]
    OBVIOUS
  <2>2. \A n \in 0 .. 0 : n = 0
    OBVIOUS
  <2>3. Eqn(h, 0)
    BY <2>1, <2>2
  <2> QED BY <2>3
<1>4. ASSUME NEW m \in Nat, m \in S PROVE m + 1 \in S
  <2>1. PICK h : Eqn(h, m)
    BY <1>4
  <2>2. PICK next : next = PlanLayer(drv, h[m], token, m)
    OBVIOUS
  <2>3. PICK g : g = [n \in 0 .. m + 1 |-> IF n = m + 1 THEN next ELSE h[n]]
    OBVIOUS
  <2>4. ASSUME NEW n \in 0 .. m + 1
        PROVE  g[n] = IF n = 0 THEN first ELSE PlanLayer(drv, g[n - 1], token, n - 1)
    <3>1. CASE n = m + 1
      <4>1. n - 1 = m /\ n # 0 /\ m \in 0 .. m + 1 /\ m # m + 1
        BY <3>1
      <4>2. g[n - 1] = h[m] /\ g[n] = next
        BY <2>3, <3>1, <4>1
      <4> QED BY <2>2, <4>1, <4>2
    <3>2. CASE n # m + 1
      <4>1. n \in 0 .. m /\ g[n] = h[n]
        BY <2>3, <3>2
      <4>2. h[n] = IF n = 0 THEN first ELSE PlanLayer(drv, h[n - 1], token, n - 1)
        BY <2>1, <4>1
      <4>3. CASE n = 0
        BY <4>1, <4>2, <4>3
      <4>4. CASE n # 0
        <5>1. n - 1 \in 0 .. m + 1 /\ n - 1 # m + 1
          BY <4>1, <4>4
        <5>2. g[n - 1] = h[n - 1]
          BY <2>3, <5>1
        <5> QED BY <4>1, <4>2, <4>4, <5>2
      <4> QED BY <4>3, <4>4
    <3> QED BY <3>1, <3>2
  <2>5. Eqn(g, m + 1)
    BY <2>3, <2>4
  <2>6. m + 1 \in Nat
    OBVIOUS
  <2> QED BY <2>5, <2>6
<1> HIDE DEF S
<1>5. Nat \subseteq S
  BY <1>3, <1>4, SetInduction
<1>6. \E h : Eqn(h, N)
  BY <1>5 DEF S
<1> DEFINE h == CHOOSE h : Eqn(h, N)
<1>7. Eqn(h, N)
  BY <1>6
<1>8. PlanInference(drv, st, token) = Dispatched(h[N])
  BY <1>1, <1>2 DEF PlanInference
<1> HIDE DEF h
<1>9. \A n \in 0 .. N : h[n] = IF n = 0 THEN first ELSE PlanLayer(drv, h[n - 1], token, n - 1)
  BY <1>7
<1>10. 0 \in 0 .. N /\ \A n \in 1 .. N : n \in 0 .. N /\ n # 0
  OBVIOUS
<1>11. h[0] = first /\ \A n \in 1 .. N : h[n] = PlanLayer(drv, h[n - 1], token, n - 1)
  BY <1>9, <1>10
<1> QED BY <1>1, <1>2, <1>8, <1>11

LEMMA TokenPlanned ==
    ASSUME NEW V, CyclesWithin(V), NEW q, NEW d, NEW drv, drv.m.layers \in Nat,
           NEW st, Planning(V, q, d, st), NEW token
    PROVE  Planning(V, q, d, PlanInference(drv, st, token))
<1>1. PICK N \in Nat : N = drv.m.layers
  OBVIOUS
<1>2. PICK h : /\ h[0] = [fw |-> st.fw, kv |-> st.kv, recs |-> <<>>]
               /\ \A n \in 1 .. N : h[n] = PlanLayer(drv, h[n - 1], token, n - 1)
               /\ PlanInference(drv, st, token) = Dispatched(h[N])
  <2>1. PICK h : /\ h[0] = [fw |-> st.fw, kv |-> st.kv, recs |-> <<>>]
                 /\ \A n \in 1 .. drv.m.layers : h[n] = PlanLayer(drv, h[n - 1], token, n - 1)
                 /\ PlanInference(drv, st, token) = Dispatched(h[drv.m.layers])
    BY LayersPlanned
  <2> QED BY <1>1, <2>1
<1> DEFINE S == {n \in Nat : n <= N => Planning(V, q, d, h[n])}
<1>3. 0 \in S
  <2>1. Planning(V, q, d, h[0])
    BY <1>2 DEF Planning
  <2> QED BY <2>1
<1>4. ASSUME NEW n \in Nat, n \in S PROVE n + 1 \in S
  <2> SUFFICES ASSUME n + 1 <= N PROVE Planning(V, q, d, h[n + 1])
    OBVIOUS
  <2>1. n + 1 \in 1 .. N /\ (n + 1) - 1 = n
    OBVIOUS
  <2>2. h[n + 1] = PlanLayer(drv, h[n], token, n)
    BY <1>2, <2>1
  <2>3. Planning(V, q, d, h[n])
    BY <1>4
  <2> QED BY <2>2, <2>3, LayerPlanned
<1> HIDE DEF S
<1>5. Nat \subseteq S
  BY <1>3, <1>4, SetInduction
<1>6. Planning(V, q, d, h[N])
  BY <1>5 DEF S
<1>7. PICK t : t = h[N]
  OBVIOUS
<1>8. PICK f : f = [t.fw EXCEPT !.dispatched = t.fw.dispatched + Len(t.recs)]
  OBVIOUS
<1>9. Dispatched(t) = [t EXCEPT !.fw = f]
  BY <1>8 DEF Dispatched
<1>10. FwIs(f, q, d)
  <2>1. FwIs(t.fw, q, d)
    BY <1>6, <1>7 DEF Planning
  <2> QED BY <1>8, <2>1, FwKept
<1> QED BY <1>2, <1>6, <1>7, <1>9, <1>10 DEF Planning

(* The states after each of the tokens, N of them.                         *)
TokenStates(h, drv, st, tokens, N) ==
  /\ h[0] = [fw |-> st.fw, kv |-> st.kv, plans |-> <<>>]
  /\ \A n \in 1 .. N : h[n] = PlanOneMore(drv, h[n - 1], tokens[n])
  /\ PlanAll(drv, st, tokens) = h[N]

(* The recursion over the tokens has a solution.                           *)
LEMMA OnePlanned ==
    ASSUME NEW drv, NEW st, NEW tokens, NEW N \in Nat, N = Len(tokens)
    PROVE  \E h : TokenStates(h, drv, st, tokens, N)
<1>1. PICK first : first = [fw |-> st.fw, kv |-> st.kv, plans |-> <<>>]
  OBVIOUS
<1> DEFINE Eqn(h, m) == h = [n \in 0 .. m |-> IF n = 0 THEN first
                                              ELSE PlanOneMore(drv, h[n - 1], tokens[n])]
           S == {m \in Nat : \E h : Eqn(h, m)}
<1>3. 0 \in S
  <2>1. PICK h : h = [n \in 0 .. 0 |-> first]
    OBVIOUS
  <2>2. \A n \in 0 .. 0 : n = 0
    OBVIOUS
  <2>3. Eqn(h, 0)
    BY <2>1, <2>2
  <2> QED BY <2>3
<1>4. ASSUME NEW m \in Nat, m \in S PROVE m + 1 \in S
  <2>1. PICK h : Eqn(h, m)
    BY <1>4
  <2>2. PICK next : next = PlanOneMore(drv, h[m], tokens[m + 1])
    OBVIOUS
  <2>3. PICK g : g = [n \in 0 .. m + 1 |-> IF n = m + 1 THEN next ELSE h[n]]
    OBVIOUS
  <2>4. ASSUME NEW n \in 0 .. m + 1
        PROVE  g[n] = IF n = 0 THEN first ELSE PlanOneMore(drv, g[n - 1], tokens[n])
    <3>1. CASE n = m + 1
      <4>1. n - 1 = m /\ n # 0 /\ m \in 0 .. m + 1 /\ m # m + 1
        BY <3>1
      <4>2. g[n - 1] = h[m] /\ g[n] = next
        BY <2>3, <3>1, <4>1
      <4> QED BY <2>2, <3>1, <4>1, <4>2
    <3>2. CASE n # m + 1
      <4>1. n \in 0 .. m /\ g[n] = h[n]
        BY <2>3, <3>2
      <4>2. h[n] = IF n = 0 THEN first ELSE PlanOneMore(drv, h[n - 1], tokens[n])
        BY <2>1, <4>1
      <4>3. CASE n = 0
        BY <4>1, <4>2, <4>3
      <4>4. CASE n # 0
        <5>1. n - 1 \in 0 .. m + 1 /\ n - 1 # m + 1
          BY <4>1, <4>4
        <5>2. g[n - 1] = h[n - 1]
          BY <2>3, <5>1
        <5> QED BY <4>1, <4>2, <4>4, <5>2
      <4> QED BY <4>3, <4>4
    <3> QED BY <3>1, <3>2
  <2>5. Eqn(g, m + 1)
    BY <2>3, <2>4
  <2>6. m + 1 \in Nat
    OBVIOUS
  <2> QED BY <2>5, <2>6
<1> HIDE DEF S
<1>5. Nat \subseteq S
  BY <1>3, <1>4, SetInduction
<1>6. \E h : Eqn(h, N)
  BY <1>5 DEF S
<1> DEFINE h == CHOOSE h : Eqn(h, N)
<1>7. Eqn(h, N)
  BY <1>6
<1>8. PlanAll(drv, st, tokens) = h[N]
  BY <1>1 DEF PlanAll
<1> HIDE DEF h
<1>9. \A n \in 0 .. N : h[n] = IF n = 0 THEN first ELSE PlanOneMore(drv, h[n - 1], tokens[n])
  BY <1>7
<1>10. 0 \in 0 .. N /\ \A n \in 1 .. N : n \in 0 .. N /\ n # 0
  OBVIOUS
<1>11. h[0] = first /\ \A n \in 1 .. N : h[n] = PlanOneMore(drv, h[n - 1], tokens[n])
  BY <1>9, <1>10
<1> QED BY <1>1, <1>8, <1>11 DEF TokenStates

LEMMA TokensPlanned ==
    ASSUME NEW V, CyclesWithin(V), NEW q, NEW d, NEW drv, drv.m.layers \in Nat,
           NEW st, Planning(V, q, d, st), NEW tokens, Len(tokens) \in Nat
    PROVE  Planning(V, q, d, PlanAll(drv, st, tokens))
<1>1. PICK N \in Nat : N = Len(tokens)
  OBVIOUS
<1>2. PICK h : TokenStates(h, drv, st, tokens, N)
  BY <1>1, OnePlanned
<1> DEFINE S == {n \in Nat : n <= N => Planning(V, q, d, h[n])}
<1>3. 0 \in S
  <2>1. Planning(V, q, d, h[0])
    BY <1>2 DEF Planning, TokenStates
  <2> QED BY <2>1
<1>4. ASSUME NEW n \in Nat, n \in S PROVE n + 1 \in S
  <2> SUFFICES ASSUME n + 1 <= N PROVE Planning(V, q, d, h[n + 1])
    OBVIOUS
  <2>1. n + 1 \in 1 .. N /\ (n + 1) - 1 = n
    OBVIOUS
  <2>2. h[n + 1] = PlanOneMore(drv, h[n], tokens[n + 1])
    BY <1>2, <2>1 DEF TokenStates
  <2>3. Planning(V, q, d, h[n])
    BY <1>4
  <2>4. PICK p : p = PlanInference(drv, h[n], tokens[n + 1])
    OBVIOUS
  <2>5. Planning(V, q, d, p)
    BY <2>3, <2>4, TokenPlanned
  <2>6. h[n + 1] = [fw |-> p.fw, kv |-> p.kv, plans |-> Append(h[n].plans, p.recs)]
    BY <2>2, <2>4 DEF PlanOneMore, AddPlan
  <2> QED BY <2>5, <2>6 DEF Planning
<1> HIDE DEF S
<1>5. Nat \subseteq S
  BY <1>3, <1>4, SetInduction
<1>6. Planning(V, q, d, h[N])
  BY <1>5 DEF S
<1> QED BY <1>2, <1>6 DEF TokenStates

LEMMA ChunksPlanned ==
    ASSUME NEW V, CyclesWithin(V), NEW q, NEW d, NEW drv, drv.m.layers \in Nat,
           NEW st, Planning(V, q, d, st), NEW prompt, Len(prompt) \in Nat
    PROVE  Planning(V, q, d, PlanInferenceChunked(drv, st, prompt))
<1>1. PICK t : t = PlanAll(drv, st, prompt)
  OBVIOUS
<1>2. Planning(V, q, d, t)
  BY <1>1, TokensPlanned
<1>3. \E plans : PlanInferenceChunked(drv, st, prompt) = [t EXCEPT !.plans = plans]
  BY <1>1 DEF PlanInferenceChunked, ByChunk
<1>4. ASSUME NEW plans PROVE Planning(V, q, d, [t EXCEPT !.plans = plans])
  BY <1>2 DEF Planning
<1> QED BY <1>3, <1>4

LEMMA DraftsPlanned ==
    ASSUME NEW V, CyclesWithin(V), NEW q, NEW d \in Int, NEW drv, drv.m.layers \in Nat,
           NEW st, Planning(V, q, d, st), NEW prev
    PROVE  Planning(V, q, d, PlanInferenceSpeculative(drv, st, prev))
<1>1. PICK n \in Nat : n = DraftCount(st.fw) /\ n # 0
  BY DEF DraftCount, Planning, FwIs
<1>2. PICK drafted : drafted = Drafted(prev, n)
  OBVIOUS
<1>3. PICK D : drafted \in Seq(D) /\ Len(drafted) = n
  <2> DEFINE c == CHOOSE c : c = [i \in 0 .. n |-> IF i = 0 THEN prev ELSE Draft(c[i - 1], i - 1)]
  <2>1. Drafted(prev, n) = [i \in 1 .. n |-> c[i]]
    BY DEF Drafted
  <2> HIDE DEF c
  <2>2. drafted \in Seq({c[i] : i \in 1 .. n}) /\ Len(drafted) = n
    BY <1>2, <2>1
  <2> QED BY <2>2
<1>4. PICK draft : draft = DraftPhase(drv, st, prev, drafted)
  OBVIOUS
<1>5. Planning(V, q, d, draft)
  <2>1. Len(<<prev>> \o SubSeq(drafted, 1, n - 1)) \in Nat
    <3>1. <<prev>> \in Seq(D \cup {prev})
      OBVIOUS
    <3>2. SubSeq(drafted, 1, n - 1) \in Seq(D)
      BY <1>1, <1>3
    <3>3. Seq(D) \subseteq Seq(D \cup {prev})
      OBVIOUS
    <3>4. <<prev>> \o SubSeq(drafted, 1, n - 1) \in Seq(D \cup {prev})
      BY <3>1, <3>2, <3>3
    <3> QED BY <3>4
  <2> QED BY <1>3, <1>4, <2>1, TokensPlanned DEF DraftPhase
<1>6. PICK back : back = [draft EXCEPT !.fw.seq = st.fw.seq]
  OBVIOUS
<1>7. Planning(V, q, d, back)
  <2>1. PICK f : f = [draft.fw EXCEPT !.seq = st.fw.seq]
    OBVIOUS
  <2>2. back = [draft EXCEPT !.fw = f]
    BY <1>6, <2>1
  <2>3. FwIs(f, q, d)
    BY <1>5, <2>1, FwKept DEF Planning
  <2> QED BY <1>5, <2>2, <2>3 DEF Planning
<1>8. PICK verify : verify = PlanAll(drv, back, drafted)
  OBVIOUS
<1>9. Planning(V, q, d, verify)
  BY <1>1, <1>3, <1>7, <1>8, TokensPlanned
<1>10. PICK accepted : accepted = Accepted(prev, drafted)
  OBVIOUS
<1>11. PICK p : p = Commit(st.fw.seq, draft, verify, drafted, accepted)
  OBVIOUS
<1>12. PlanInferenceSpeculative(drv, st, prev) = p
  BY <1>1, <1>2, <1>4, <1>6, <1>8, <1>10, <1>11
     DEF PlanInferenceSpeculative, Speculate, VerifyPhase
<1>13. PICK g : g = [verify.fw EXCEPT !.seq = Advanced(st.fw.seq, Len(accepted))]
  OBVIOUS
<1>14. FwIs(g, q, d)
  BY <1>9, <1>13, FwKept DEF Planning
<1>15. {"fw", "kv"} \subseteq DOMAIN p /\ p.fw = g /\ p.kv = verify.kv
  BY <1>11, <1>13 DEF Commit
<1> QED BY <1>9, <1>12, <1>14, <1>15 DEF Planning

-----------------------------------------------------------------------------
(* The types of the client: its firmware, its batch and its call           *)

FwStates == {"reset", "post", "routing", "weights", "moe", "ready"}

FirmwareTyped == \E q \in FwStates, d \in Int : FwIs(fw, q, d)

Sequential(x) == \E D : x \in Seq(D)

RequestTyped(r) ==
  /\ {"prompt", "prefill", "out", "finished"} \subseteq DOMAIN r
  /\ Sequential(r.prompt) /\ r.prefill \in 0 .. Len(r.prompt)

Requests(reqs) == \E D : reqs \in Seq(D) /\ \A r \in D : RequestTyped(r)

BatchTyped == "reqs" \in DOMAIN batch /\ Requests(batch.reqs) /\ Len(batch.reqs) <= cfg.batch

CallTyped ==
  /\ call.kind = "batch" => "at" \in DOMAIN call /\ call.at \in Nat \ {0}
  /\ call.kind = "beam" => "beams" \in DOMAIN call /\ Sequential(call.beams) /\ cfg.beams \in Nat

ServingTyped ==
  CacheTyped /\ (caller = "firmware" => FirmwareTyped /\ BatchTyped /\ CallTyped)

LEMMA ListIs ==
    ASSUME NEW n \in Nat, NEW F, NEW x, x = [i \in 1 .. n |-> F[i]]
    PROVE  Sequential(x) /\ Len(x) = n
<1>1. PICK D : D = {F[i] : i \in 1 .. n}
  OBVIOUS
<1>2. x \in [1 .. n -> D]
  BY <1>1
<1>3. x \in Seq(D) /\ Len(x) = n
  BY <1>2
<1> QED BY <1>3 DEF Sequential

(* A row of sequences is a row over one set, and flattens to a sequence.   *)
LEMMA RowFlattens ==
    ASSUME NEW n \in Nat, NEW p, p = [i \in 1 .. n |-> p[i]], \A i \in 1 .. n : Sequential(p[i])
    PROVE  Sequential(FlattenSeq(p))
<1>1. PICK B : B = UNION { {p[i][k] : k \in DOMAIN p[i]} : i \in 1 .. n }
  OBVIOUS
<1>2. ASSUME NEW i \in 1 .. n PROVE p[i] \in Seq(B)
  <2>1. PICK D : p[i] \in Seq(D)
    BY DEF Sequential
  <2>2. PICK x : x = p[i]
    OBVIOUS
  <2>3. PICK m \in Nat : m = Len(x)
    BY <2>1, <2>2
  <2>4. x = [k \in 1 .. m |-> x[k]] /\ DOMAIN x = 1 .. m
    BY <2>1, <2>2, <2>3
  <2>5. \A k \in 1 .. m : x[k] \in B
    BY <1>1, <2>2, <2>4
  <2>6. x \in [1 .. m -> B]
    BY <2>4, <2>5
  <2>7. x \in Seq(B)
    BY <2>6
  <2> QED BY <2>2, <2>7
<1>3. p \in [1 .. n -> Seq(B)]
  BY <1>2
<1>4. PICK g : IsFlatten(g, p, n, B)
  BY <1>3, FlattenPrefixes
<1>5. FlattenSeq(p) \in Seq(B)
  BY <1>4 DEF IsFlatten
<1> QED BY <1>5 DEF Sequential

LEMMA AmongShort ==
    ASSUME NEW D, NEW ts \in Seq(D), NEW set
    PROVE  Among(ts, set) \in Seq(D) /\ Len(Among(ts, set)) <= Len(ts)
<1>1. PICK n \in Nat : n = Len(ts) /\ DOMAIN ts = 1 .. n
  OBVIOUS
<1>2. PICK p : p = [i \in DOMAIN ts |-> IF ts[i] \in set THEN <<ts[i]>> ELSE <<>>]
  OBVIOUS
<1>3. ASSUME NEW i \in 1 .. n PROVE p[i] \in Seq(D) /\ Len(p[i]) <= 1
  <2>1. ts[i] \in D
    BY <1>1
  <2>2. <<ts[i]>> \in Seq(D) /\ Len(<<ts[i]>>) = 1 /\ <<>> \in Seq(D) /\ Len(<<>>) = 0
    BY <2>1
  <2> QED BY <1>1, <1>2, <2>2
<1>4. p \in [1 .. n -> Seq(D)]
  BY <1>1, <1>2, <1>3
<1>5. FlattenSeq(p) \in Seq(D) /\ Len(FlattenSeq(p)) <= n
  BY <1>3, <1>4, FlattenShort
<1> QED BY <1>1, <1>2, <1>5 DEF Among

(* The settings of a client that its types need.                           *)
LEMMA ClientIs ==
    ASSUME NEW s, Client(s)
    PROVE  /\ chassis.m.layers \in Nat /\ chassis.m.vocab \in Nat
           /\ {cfg.batch, cfg.chunk, cfg.draft} \subseteq Nat \ {0} /\ cfg.beams \in Int
<1>1. s \in LLMSetups /\ cfg = s.config /\ chassis.m = s.model
  BY DEF Client
<1> QED BY <1>1, ClientAssumption

(* What a plan leaves is well-typed, and the firmware keeps its state and  *)
(* its draft length.                                                       *)
FirmwareKept == \A q \in FwStates, d \in Int : FwIs(fw, q, d) => FwIs(fw', q, d)

LEMMA PlanTyped ==
    ASSUME CacheTyped, NEW st, Planned(st),
           \A q \in FwStates, d \in Int :
             Planning(Typed(kv), q, d, Now) => Planning(Typed(kv), q, d, st),
           FirmwareTyped, UNCHANGED <<pages, stored>>, PrefixTyped(prefix')
    PROVE  CacheTyped' /\ FirmwareKept
<1>1. PICK V : V = Typed(kv)
  OBVIOUS
<1>2. ASSUME NEW q \in FwStates, NEW d \in Int, FwIs(fw, q, d)
      PROVE  kv' \in V /\ FwIs(fw', q, d)
  <2>1. Planning(V, q, d, Now)
    BY <1>1, <1>2 DEF Planning, Now, CacheTyped
  <2>2. Planning(V, q, d, st)
    BY <1>1, <2>1
  <2> QED BY <2>2 DEF Planned, Planning
<1>3. kv' \in Typed(kv)
  BY <1>1, <1>2 DEF FirmwareTyped
<1>4. kv' \in Typed(kv')
  BY <1>3, TypedAgain
<1>5. CacheTyped'
  BY <1>4 DEF CacheTyped, TablesOK
<1>6. FirmwareKept
  BY <1>2 DEF FirmwareKept
<1> QED BY <1>5, <1>6

CyclesTyped == CyclesWithin(Typed(kv))

LEMMA CyclesAlways == CyclesTyped
  BY CycleTyped DEF CyclesTyped, CyclesWithin

(* The plans the client makes: all that moves the firmware after its boot. *)
OnlyPlans ==
  \/ UNCHANGED <<fw, kv>>
  \/ \E tokens : /\ Len(tokens) \in Nat
                 /\ \/ Planned(PlanAll(chassis, Now, tokens))
                    \/ Planned(PlanInferenceChunked(chassis, Now, tokens))
  \/ \E token : \/ Planned(PlanInference(chassis, Now, token))
                \/ Planned(PlanInferenceSpeculative(chassis, Now, token))

Steady == FirmwareKept /\ OnlyPlans

LEMMA FwUnmoved ==
    ASSUME UNCHANGED <<fw, kv>>
    PROVE  Steady
  BY DEF Steady, FirmwareKept, OnlyPlans

LEMMA ListPlanned ==
    ASSUME NEW s, Client(s), CacheTyped, FirmwareTyped, NEW tokens, Len(tokens) \in Nat,
           UNCHANGED <<pages, stored>>, PrefixTyped(prefix'),
           \/ Planned(PlanAll(chassis, Now, tokens))
           \/ Planned(PlanInferenceChunked(chassis, Now, tokens))
    PROVE  CacheTyped' /\ Steady
<1>1. chassis.m.layers \in Nat
  BY ClientIs
<1>2. CyclesWithin(Typed(kv))
  BY CyclesAlways DEF CyclesTyped
<1>3. ASSUME NEW q \in FwStates, NEW d \in Int, Planning(Typed(kv), q, d, Now)
      PROVE  /\ Planning(Typed(kv), q, d, PlanAll(chassis, Now, tokens))
             /\ Planning(Typed(kv), q, d, PlanInferenceChunked(chassis, Now, tokens))
  BY <1>1, <1>2, <1>3, TokensPlanned, ChunksPlanned
<1>4. CacheTyped' /\ FirmwareKept
  <2>1. CASE Planned(PlanAll(chassis, Now, tokens))
    BY <1>3, <2>1, PlanTyped
  <2>2. CASE Planned(PlanInferenceChunked(chassis, Now, tokens))
    BY <1>3, <2>2, PlanTyped
  <2> QED BY <2>1, <2>2
<1>5. OnlyPlans
  BY Zenon DEF OnlyPlans
<1> QED BY <1>4, <1>5 DEF Steady

LEMMA NextPlanned ==
    ASSUME NEW s, Client(s), CacheTyped, FirmwareTyped, NEW token,
           UNCHANGED <<pages, stored, prefix>>,
           \/ Planned(PlanInference(chassis, Now, token))
           \/ Planned(PlanInferenceSpeculative(chassis, Now, token))
    PROVE  CacheTyped' /\ Steady
<1>1. chassis.m.layers \in Nat
  BY ClientIs
<1>2. CyclesWithin(Typed(kv))
  BY CyclesAlways DEF CyclesTyped
<1>3. PrefixTyped(prefix')
  BY DEF CacheTyped
<1>4. ASSUME NEW q \in FwStates, NEW d \in Int, Planning(Typed(kv), q, d, Now)
      PROVE  /\ Planning(Typed(kv), q, d, PlanInference(chassis, Now, token))
             /\ Planning(Typed(kv), q, d, PlanInferenceSpeculative(chassis, Now, token))
  BY <1>1, <1>2, <1>4, TokenPlanned, DraftsPlanned
<1>5. CacheTyped' /\ FirmwareKept
  <2>1. CASE Planned(PlanInference(chassis, Now, token))
    BY <1>3, <1>4, <2>1, PlanTyped
  <2>2. CASE Planned(PlanInferenceSpeculative(chassis, Now, token))
    BY <1>3, <1>4, <2>2, PlanTyped
  <2> QED BY <2>1, <2>2
<1>6. OnlyPlans
  BY Zenon DEF OnlyPlans
<1> QED BY <1>5, <1>6 DEF Steady

(* The types under each of the client's steps                              *)
LEMMA BatchStays ==
    ASSUME BatchTyped, UNCHANGED <<batch, cfg>>
    PROVE  BatchTyped'
  BY DEF BatchTyped

LEMMA CallTypeStays ==
    ASSUME CallTyped, UNCHANGED <<call, cfg>>
    PROVE  CallTyped'
  BY DEF CallTyped

(* Only a batch and a beam search keep lists in their call.                *)
LEMMA PlainCall ==
    ASSUME NEW c, call' = c, c.kind \notin {"batch", "beam"}
    PROVE  CallTyped'
  BY DEF CallTyped

LEMMA NoCallTyped ==
    ASSUME call' = NoCall
    PROVE  CallTyped'
<1>1. NoCall.kind = "none"
  BY DEF NoCall
<1> QED BY <1>1, PlainCall

LEMMA BootTyped ==
    ASSUME NEW s, Client(s), CacheTyped, FirmwareTyped, BatchTyped, CallTyped, Boot \/ Configure
    PROVE  CacheTyped' /\ FirmwareTyped' /\ BatchTyped' /\ CallTyped'
<1>1. CacheTyped'
  BY KvKeepsTypes DEF Boot, Configure
<1>2. BatchTyped'
  BY BatchStays DEF Boot, Configure
<1>3. PICK q \in FwStates, d \in Int : FwIs(fw, q, d)
  BY DEF FirmwareTyped
<1>4. CASE Boot
  <2>1. CallTyped'
    BY <1>4, CallTypeStays DEF Boot
  <2>2. q # "ready" /\ fw' = BootPhase(chassis, fw) /\ fw.state = q
    BY <1>3, <1>4 DEF Boot, FwIs
  <2>3. ASSUME NEW r \in FwStates, NEW x
        PROVE  /\ FwIs([fw EXCEPT !.state = r, !.nodes = x], r, d)
               /\ FwIs([fw EXCEPT !.state = r, !.routing = x], r, d)
               /\ FwIs([fw EXCEPT !.state = r, !.weights = x], r, d)
               /\ FwIs([fw EXCEPT !.state = r, !.gating = x], r, d)
               /\ FwIs([fw EXCEPT !.state = r], r, d)
    <3>1. PICK f : f = [fw EXCEPT !.state = r]
      OBVIOUS
    <3>2. FwIs(f, r, d)
      BY <1>3, <3>1 DEF FwIs
    <3>3. /\ FwIs([f EXCEPT !.nodes = x], r, d) /\ FwIs([f EXCEPT !.routing = x], r, d)
          /\ FwIs([f EXCEPT !.weights = x], r, d) /\ FwIs([f EXCEPT !.gating = x], r, d)
      BY <3>2 DEF FwIs
    <3>4. /\ [fw EXCEPT !.state = r, !.nodes = x] = [f EXCEPT !.nodes = x]
          /\ [fw EXCEPT !.state = r, !.routing = x] = [f EXCEPT !.routing = x]
          /\ [fw EXCEPT !.state = r, !.weights = x] = [f EXCEPT !.weights = x]
          /\ [fw EXCEPT !.state = r, !.gating = x] = [f EXCEPT !.gating = x]
      BY <3>1
    <3> QED BY <3>1, <3>2, <3>3, <3>4
  <2>4. \E r \in FwStates : FwIs(fw', r, d)
    <3>1. q \in {"reset", "post", "routing", "weights", "moe"}
      BY <1>3, <2>2 DEF FwStates
    <3>2. {"reset", "post", "routing", "weights", "moe", "ready"} \subseteq FwStates
      BY DEF FwStates
    <3>3. CASE q = "reset"
      <4>1. PICK x : fw' = [fw EXCEPT !.state = "post", !.nodes = x]
        BY <2>2, <3>3 DEF BootPhase
      <4>2. FwIs([fw EXCEPT !.state = "post", !.nodes = x], "post", d)
        BY <2>3, <3>2
      <4> QED BY <3>2, <4>1, <4>2
    <3>4. CASE q = "post"
      <4>1. PICK x : fw' = [fw EXCEPT !.state = "routing", !.routing = x]
        BY <2>2, <3>4 DEF BootPhase
      <4>2. FwIs([fw EXCEPT !.state = "routing", !.routing = x], "routing", d)
        BY <2>3, <3>2
      <4> QED BY <3>2, <4>1, <4>2
    <3>5. CASE q = "routing"
      <4>1. PICK x : fw' = [fw EXCEPT !.state = "weights", !.weights = x]
        BY <2>2, <3>5 DEF BootPhase
      <4>2. FwIs([fw EXCEPT !.state = "weights", !.weights = x], "weights", d)
        BY <2>3, <3>2
      <4> QED BY <3>2, <4>1, <4>2
    <3>6. CASE q = "weights"
      <4>1. PICK x : fw' = [fw EXCEPT !.state = "moe", !.gating = x]
        BY <2>2, <3>6 DEF BootPhase
      <4>2. FwIs([fw EXCEPT !.state = "moe", !.gating = x], "moe", d)
        BY <2>3, <3>2
      <4> QED BY <3>2, <4>1, <4>2
    <3>7. CASE q = "moe"
      <4>1. fw' = [fw EXCEPT !.state = "ready"]
        BY <2>2, <3>7 DEF BootPhase
      <4> QED BY <2>3, <3>2, <4>1
    <3> QED BY <3>1, <3>3, <3>4, <3>5, <3>6, <3>7
  <2> QED BY <1>1, <1>2, <2>1, <2>4 DEF FirmwareTyped
<1>5. CASE Configure
  <2>1. CallTyped'
    BY <1>5, NoCallTyped DEF Configure
  <2>2. PICK chunk : chunk = IF cfg.chunked THEN cfg.chunk ELSE fw.chunk
    OBVIOUS
  <2>3. PICK draft \in Int : draft = IF cfg.speculative THEN cfg.draft ELSE fw.draft
    <3>1. cfg.draft \in Int /\ fw.draft \in Int
      BY <1>3, ClientIs DEF FwIs
    <3> QED BY <3>1
  <2>4. PICK f : f = [fw EXCEPT !.chunk = chunk]
    OBVIOUS
  <2>5. fw' = [f EXCEPT !.draft = draft]
    BY <1>5, <2>2, <2>3, <2>4 DEF Configure
  <2>6. FwIs(f, q, d)
    BY <1>3, <2>4 DEF FwIs
  <2>7. FwIs(fw', q, draft)
    BY <2>5, <2>6 DEF FwIs
  <2> QED BY <1>1, <1>2, <2>1, <2>3, <2>7 DEF FirmwareTyped
<1> QED BY <1>4, <1>5

LEMMA BeginTyped ==
    ASSUME NEW s, Client(s), CacheTyped, FirmwareTyped, BatchTyped, NEW prompt \in Prompts,
           \/ BeginGenerate(prompt)
           \/ BeginSpeculative(prompt)
           \/ BeginLogprobs(prompt)
           \/ BeginBeamSearch(prompt)
           \/ \E pattern \in Patterns : BeginStructured(prompt, pattern)
    PROVE  CacheTyped' /\ Steady /\ BatchTyped' /\ CallTyped'
<1>1. Len(prompt) \in Nat
  BY PromptIs
<1>2. PrefixTyped(prefix)
  BY DEF CacheTyped
<1>3. CASE BeginGenerate(prompt)
  <2>1. PrefixTyped(prefix')
    BY <1>2, <1>3, LookupTyped DEF BeginGenerate
  <2>2. CacheTyped' /\ Steady
    BY <1>1, <1>3, <2>1, ListPlanned DEF BeginGenerate
  <2>3. PICK c : /\ call' = c
                 /\ c = [kind |-> IF cfg.speculative THEN "speculative" ELSE "generate",
                         prompt |-> prompt, out |-> <<>>]
    BY <1>3 DEF BeginGenerate
  <2>4. c.kind \notin {"batch", "beam"}
    BY <2>3
  <2>5. CallTyped'
    BY <2>3, <2>4, PlainCall
  <2>6. BatchTyped'
    BY <1>3, BatchStays DEF BeginGenerate
  <2> QED BY <2>2, <2>5, <2>6
<1>4. ASSUME NEW c, Prefilled(prompt, c) PROVE CacheTyped' /\ Steady /\ BatchTyped'
  <2>1. CacheTyped' /\ Steady
    BY <1>1, <1>2, <1>4, ListPlanned DEF Prefilled
  <2>2. BatchTyped'
    BY <1>4, BatchStays DEF Prefilled
  <2> QED BY <2>1, <2>2
<1>5. ASSUME NEW c, Prefilled(prompt, c), c.kind \notin {"batch", "beam"} PROVE CallTyped'
  BY <1>5, PlainCall DEF Prefilled
<1>6. CASE BeginSpeculative(prompt)
  <2>1. PICK c : c = [kind |-> "speculative", prompt |-> prompt, out |-> <<>>]
    OBVIOUS
  <2>2. Prefilled(prompt, c)
    BY <1>6, <2>1 DEF BeginSpeculative
  <2>3. c.kind = "speculative"
    BY <2>1
  <2> QED BY <1>4, <1>5, <2>2, <2>3
<1>7. CASE BeginLogprobs(prompt)
  <2>1. PICK c : c = [kind |-> "logprobs", prompt |-> prompt, out |-> <<>>, entries |-> <<>>]
    OBVIOUS
  <2>2. Prefilled(prompt, c)
    BY <1>7, <2>1 DEF BeginLogprobs
  <2>3. c.kind = "logprobs"
    BY <2>1
  <2> QED BY <1>4, <1>5, <2>2, <2>3
<1>8. CASE BeginBeamSearch(prompt)
  <2>1. PICK beam : beam = Beam(<<>>, 0, FALSE)
    OBVIOUS
  <2>2. PICK beams : beams = [i \in 1 .. cfg.beams |-> beam]
    OBVIOUS
  <2>3. PICK c : c = [kind |-> "beam", prompt |-> prompt, out |-> <<>>, step |-> 0, beams |-> beams]
    OBVIOUS
  <2>4. Prefilled(prompt, c) /\ cfg.beams > 1
    BY <1>8, <2>1, <2>2, <2>3 DEF BeginBeamSearch
  <2>5. cfg.beams \in Nat
    BY <2>4, ClientIs
  <2>6. beams \in Seq({beam})
    BY <2>2, <2>5
  <2>7. "beams" \in DOMAIN c /\ c.kind = "beam" /\ c.beams = beams
    BY <2>3
  <2>8. call' = c /\ cfg' = cfg
    BY <2>4 DEF Prefilled
  <2>9. CallTyped'
    BY <2>5, <2>6, <2>7, <2>8 DEF CallTyped, Sequential
  <2> QED BY <1>4, <2>4, <2>9
<1>9. ASSUME NEW pattern, BeginStructured(prompt, pattern)
      PROVE  CacheTyped' /\ Steady /\ BatchTyped' /\ CallTyped'
  <2>1. PICK c : c = [kind |-> "structured", prompt |-> prompt, out |-> <<>>,
                      pattern |-> pattern, fsm |-> Compile(pattern)]
    OBVIOUS
  <2>2. Prefilled(prompt, c)
    BY <1>9, <2>1 DEF BeginStructured
  <2>3. c.kind = "structured"
    BY <2>1
  <2> QED BY <1>4, <1>5, <2>2, <2>3
<1> QED BY <1>3, <1>6, <1>7, <1>8, <1>9

(* One pass of the calls that keep no list.                                *)
LEMMA PassTyped ==
    ASSUME NEW s, Client(s), CallKept(s), CacheTyped, FirmwareTyped, BatchTyped,
           GenerateStep \/ SpeculativeStep \/ StructuredStep
    PROVE  CacheTyped' /\ Steady /\ BatchTyped' /\ CallTyped'
<1>1. "kind" \in DOMAIN call
  BY DEF CallKept
<1>2. BatchTyped'
  BY BatchStays DEF GenerateStep, SpeculativeStep, StructuredStep
<1>3. CASE GenerateStep
  <2>1. CacheTyped' /\ Steady
    BY <1>3, NextPlanned DEF GenerateStep, PlanNext
  <2>2. call.kind \in {"generate", "logprobs"}
    BY <1>3 DEF GenerateStep
  <2>3. \/ call' = NoCall
        \/ \E out : call' = [call EXCEPT !.out = out]
        \/ \E out, entries : call' = [call EXCEPT !.out = out, !.entries = entries]
    <3> DEFINE t == Decode(call.prompt, call.out, Tokens)
               out == Append(call.out, t)
               next == IF call.kind = "generate" THEN [call EXCEPT !.out = out]
                       ELSE [call EXCEPT !.out = out, !.entries = Append(call.entries,
                               LogprobEntry(LogitsOf(call.prompt, call.out), t, cfg.logprobs))]
    <3>1. call' = NoCall \/ call' = next
      BY <1>3, Zenon DEF GenerateStep
    <3> HIDE DEF t, out
    <3> QED BY <3>1, Zenon
  <2>4. ASSUME NEW out, call' = [call EXCEPT !.out = out] PROVE CallTyped'
    <3>1. PICK c : c = [call EXCEPT !.out = out]
      OBVIOUS
    <3>2. c.kind \notin {"batch", "beam"}
      BY <1>1, <2>2, <3>1
    <3> QED BY <2>4, <3>1, <3>2, PlainCall
  <2>5. ASSUME NEW out, NEW entries, call' = [call EXCEPT !.out = out, !.entries = entries]
        PROVE  CallTyped'
    <3>1. PICK b : b = [call EXCEPT !.out = out]
      OBVIOUS
    <3>2. PICK c : c = [b EXCEPT !.entries = entries]
      OBVIOUS
    <3>3. call' = c
      BY <2>5, <3>1, <3>2, Zenon
    <3>4. c.kind \notin {"batch", "beam"}
      BY <1>1, <2>2, <3>1, <3>2
    <3> QED BY <3>3, <3>4, PlainCall
  <2>6. CallTyped'
    BY <2>3, <2>4, <2>5, NoCallTyped
  <2> QED BY <1>2, <2>1, <2>6
<1>4. CASE SpeculativeStep
  <2>1. CacheTyped' /\ Steady
    <3>1. \E token : Planned(PlanInferenceSpeculative(chassis, Now, token))
      BY <1>4 DEF SpeculativeStep
    <3> QED BY <1>4, <3>1, NextPlanned DEF SpeculativeStep
  <2>2. call.kind = "speculative"
    BY <1>4 DEF SpeculativeStep
  <2>3. call' = NoCall \/ \E out : call' = [call EXCEPT !.out = out]
    BY <1>4 DEF SpeculativeStep, Return
  <2>4. ASSUME NEW out, call' = [call EXCEPT !.out = out] PROVE CallTyped'
    <3>1. PICK c : c = [call EXCEPT !.out = out]
      OBVIOUS
    <3>2. c.kind \notin {"batch", "beam"}
      BY <1>1, <2>2, <3>1
    <3> QED BY <2>4, <3>1, <3>2, PlainCall
  <2> QED BY <1>2, <2>1, <2>3, <2>4, NoCallTyped
<1>5. CASE StructuredStep
  <2>1. call.kind = "structured"
    BY <1>5 DEF StructuredStep
  <2>2. \/ UNCHANGED <<fw, kv>> /\ call' = NoCall
        \/ /\ PlanNext(call.prompt, call.out)
           /\ \E out, fsm : call' = [call EXCEPT !.out = out, !.fsm = fsm]
    BY <1>5, Zenon DEF StructuredStep, Return
  <2>3. ASSUME NEW out, NEW fsm, call' = [call EXCEPT !.out = out, !.fsm = fsm]
        PROVE  CallTyped'
    <3>1. PICK b : b = [call EXCEPT !.out = out]
      OBVIOUS
    <3>2. PICK c : c = [b EXCEPT !.fsm = fsm]
      OBVIOUS
    <3>3. call' = c
      BY <2>3, <3>1, <3>2, Zenon
    <3>4. c.kind \notin {"batch", "beam"}
      BY <1>1, <2>1, <3>1, <3>2
    <3> QED BY <3>3, <3>4, PlainCall
  <2>4. CallTyped'
    BY <2>2, <2>3, NoCallTyped
  <2>5. CacheTyped' /\ Steady
    <3>1. CASE UNCHANGED <<fw, kv>>
      <4>1. UNCHANGED kvVars
        BY <1>5, <3>1 DEF StructuredStep, kvVars
      <4>2. CacheTyped'
        BY <4>1, KvKeepsTypes
      <4> QED BY <3>1, <4>2, FwUnmoved
    <3>2. CASE PlanNext(call.prompt, call.out)
      BY <1>5, <3>2, NextPlanned DEF StructuredStep, PlanNext
    <3> QED BY <2>2, <3>1, <3>2
  <2> QED BY <1>2, <2>4, <2>5
<1> QED BY <1>3, <1>4, <1>5

(* A pass of the beam search keeps a list of beams.                        *)
LEMMA OffersAre ==
    ASSUME NEW s, Client(s), cfg.beams \in Nat, NEW b, NEW i
    PROVE  Sequential(BeamOffers(b, i))
<1>1. PICK m \in Nat : m = Min({cfg.beams, chassis.m.vocab})
  <2>1. {cfg.beams, chassis.m.vocab} \in SUBSET Nat
    BY ClientIs
  <2>2. Min({cfg.beams, chassis.m.vocab}) \in Nat
    BY <2>1, MinIs
  <2> QED BY <2>2
<1> DEFINE logits == LogitsOf(call.prompt, b.tokens)
           order == Descending(logits)
           best == [k \in 1 .. Min({cfg.beams, chassis.m.vocab}) |-> order[k]]
           ends(t) == t = EOS \/ IsStopToken(cfg, t) \/ Len(b.tokens) + 1 >= cfg.max
           offer(k) == Beam(Append(b.tokens, best[k]), b.score + logits[best[k]], ends(best[k]))
           offers == [k \in 1 .. Len(best) |-> offer(k)]
<1>2. BeamOffers(b, i) = IF b.finished THEN <<b>> ELSE offers
  BY Zenon DEF BeamOffers
<1>3. Len(best) = m
  <2>1. PICK x : x = best
    OBVIOUS
  <2>2. x = [k \in 1 .. m |-> x[k]]
    BY <1>1, <2>1
  <2> HIDE DEF best
  <2>3. Len(x) = m
    BY <2>2, ListIs
  <2> QED BY <2>1, <2>3
<1>4. Sequential(offers)
  <2> HIDE DEF best, offer
  <2>1. PICK x : x = offers
    OBVIOUS
  <2>2. x = [k \in 1 .. m |-> x[k]]
    BY <1>3, <2>1
  <2>3. Sequential(x)
    BY <2>2, ListIs
  <2> QED BY <2>1, <2>3
<1>5. Sequential(<<b>>)
  <2>1. <<b>> \in Seq({b})
    OBVIOUS
  <2> QED BY <2>1 DEF Sequential
<1> HIDE DEF offers
<1> QED BY <1>2, <1>4, <1>5

LEMMA KeptAre ==
    ASSUME cfg.beams \in Nat, NEW offers, Sequential(offers)
    PROVE  Sequential(KeepBest(offers))
<1>1. Len(offers) \in Nat
  BY DEF Sequential
<1>2. PICK m \in Nat : m = Min({cfg.beams, Len(offers)})
  <2>1. {cfg.beams, Len(offers)} \in SUBSET Nat
    BY <1>1
  <2>2. Min({cfg.beams, Len(offers)}) \in Nat
    BY <2>1, MinIs
  <2> QED BY <2>2
<1> DEFINE order == SortSeq([i \in DOMAIN offers |-> i],
                            LAMBDA i, j : \/ offers[i].score > offers[j].score
                                          \/ offers[i].score = offers[j].score /\ i < j)
<1>3. KeepBest(offers) = [k \in 1 .. m |-> offers[order[k]]]
  BY <1>2, Zenon DEF KeepBest
<1> HIDE DEF order
<1>4. PICK x : x = KeepBest(offers)
  OBVIOUS
<1>5. x = [k \in 1 .. m |-> x[k]]
  BY <1>3, <1>4
<1> QED BY <1>4, <1>5, ListIs

LEMMA BeamStepTyped ==
    ASSUME NEW s, Client(s), CallKept(s), CacheTyped, FirmwareTyped, BatchTyped, CallTyped, BeamStep
    PROVE  CacheTyped' /\ Steady /\ BatchTyped' /\ CallTyped'
<1>1. /\ call.kind = "beam" /\ {"kind", "beams"} \subseteq DOMAIN call /\ cfg.beams \in Nat
      /\ Sequential(call.beams)
  BY DEF BeamStep, CallTyped, CallKept
<1>2. PICK beams : beams = call.beams
  OBVIOUS
<1>3. PICK B : beams \in Seq(B)
  BY <1>1, <1>2 DEF Sequential
<1>4. PICK n \in Nat : n = Len(beams)
  BY <1>3
<1>5. PICK live : live = Active(beams)
  OBVIOUS
<1>6. PICK p : p = [i \in 1 .. n |-> BeamOffers(beams[i], i)]
  OBVIOUS
<1>7. PICK kept : kept = KeepBest(FlattenSeq(p))
  OBVIOUS
<1>8. PICK tokens : tokens = [i \in 1 .. Len(live) |-> LastOf(call.prompt, live[i].tokens)]
  OBVIOUS
<1>9. Planned(PlanAll(chassis, Now, tokens))
  BY <1>2, <1>5, <1>8, Zenon DEF BeamStep
<1>10. call' = NoCall \/ \E step : call' = [call EXCEPT !.beams = kept, !.step = step]
  BY <1>2, <1>4, <1>6, <1>7, Zenon DEF BeamStep, Return
<1>11. UNCHANGED <<chassis, cfg, batch, prefix, pages, stored, caller>>
  BY DEF BeamStep
<1>12. Len(tokens) \in Nat
  <2>1. PICK k \in Nat : k = Len(live)
    <3>1. live \in Seq(B)
      BY <1>3, <1>5, AmongShort DEF Active
    <3> QED BY <3>1
  <2>2. tokens = [i \in 1 .. k |-> tokens[i]]
    BY <1>8, <2>1
  <2> QED BY <2>1, <2>2, ListIs
<1>13. CacheTyped' /\ Steady
  <2>1. PrefixTyped(prefix')
    BY <1>11 DEF CacheTyped
  <2> QED BY <1>9, <1>11, <1>12, <2>1, ListPlanned
<1>14. BatchTyped'
  BY <1>11, BatchStays
<1>15. Sequential(kept)
  <2>1. \A i \in 1 .. n : Sequential(p[i])
    BY <1>1, <1>6, OffersAre
  <2>2. p = [i \in 1 .. n |-> p[i]]
    BY <1>6
  <2>3. Sequential(FlattenSeq(p))
    BY <2>1, <2>2, RowFlattens
  <2> QED BY <1>1, <1>7, <2>3, KeptAre
<1>16. ASSUME NEW step, call' = [call EXCEPT !.beams = kept, !.step = step] PROVE CallTyped'
  <2>1. PICK b : b = [call EXCEPT !.beams = kept]
    OBVIOUS
  <2>2. PICK c : c = [b EXCEPT !.step = step]
    OBVIOUS
  <2>3. call' = c
    BY <1>16, <2>1, <2>2, Zenon
  <2>4. b.kind = "beam" /\ "beams" \in DOMAIN b /\ b.beams = kept /\ "kind" \in DOMAIN b
    BY <1>1, <2>1
  <2>5. c.kind = "beam" /\ "beams" \in DOMAIN c /\ c.beams = kept
    BY <2>2, <2>4
  <2> QED BY <1>1, <1>11, <1>15, <2>3, <2>5 DEF CallTyped
<1> QED BY <1>10, <1>13, <1>14, <1>16, NoCallTyped

(* The batch: requests come in, are served, and leave.                     *)
LEMMA CallAt ==
    ASSUME NEW c, call' = c, c.kind = "batch", "at" \in DOMAIN c, c.at \in Nat \ {0}
    PROVE  CallTyped'
  BY DEF CallTyped

LEMMA RequestsJoin ==
    ASSUME NEW a, NEW b, Requests(a), Requests(b)
    PROVE  Requests(a \o b) /\ Len(a \o b) = Len(a) + Len(b)
<1>1. PICK D : a \in Seq(D) /\ \A r \in D : RequestTyped(r)
  BY DEF Requests
<1>2. PICK E : b \in Seq(E) /\ \A r \in E : RequestTyped(r)
  BY DEF Requests
<1>3. PICK U : U = D \cup E
  OBVIOUS
<1>4. \A r \in U : RequestTyped(r)
  BY <1>1, <1>2, <1>3
<1>5. a \in Seq(U) /\ b \in Seq(U)
  BY <1>1, <1>2, <1>3
<1>6. a \o b \in Seq(U) /\ Len(a \o b) = Len(a) + Len(b)
  BY <1>5
<1> QED BY <1>4, <1>6 DEF Requests

Requested(new, n, first, prompts) == new = [i \in 1 .. n |-> Request(first + i - 1, prompts[i])]

LEMMA NewRequests ==
    ASSUME NEW T, NEW prompts \in Seq(Seq(T)), NEW n \in Nat, n <= Len(prompts), NEW first, NEW new,
           Requested(new, n, first, prompts)
    PROVE  Requests(new) /\ Len(new) = n
<1>1. PICK D : D = {Request(first + i - 1, prompts[i]) : i \in 1 .. n}
  OBVIOUS
<1>2. ASSUME NEW i \in 1 .. n PROVE RequestTyped(Request(first + i - 1, prompts[i]))
  <2>1. PICK p \in Seq(T) : p = prompts[i]
    <3>1. i \in 1 .. Len(prompts)
      OBVIOUS
    <3>2. prompts[i] \in Seq(T)
      BY <3>1
    <3> QED BY <3>2
  <2>2. PICK r : r = Request(first + i - 1, p)
    OBVIOUS
  <2>3. /\ {"prompt", "prefill", "out", "finished"} \subseteq DOMAIN r
        /\ r.prompt = p /\ r.prefill = 0
    BY <2>2 DEF Request
  <2>4. 0 \in 0 .. Len(p)
    BY <2>1
  <2> QED BY <2>1, <2>2, <2>3, <2>4 DEF RequestTyped, Sequential
<1>3. \A r \in D : RequestTyped(r)
  BY <1>1, <1>2
<1>4. new \in [1 .. n -> D]
  BY <1>1 DEF Requested
<1>5. new \in Seq(D) /\ Len(new) = n
  BY <1>4
<1> QED BY <1>3, <1>5 DEF Requests

LEMMA BeginBatchTyped ==
    ASSUME NEW s, Client(s), CacheTyped, FirmwareTyped, BatchTyped, NEW prompts \in BatchCalls,
           BeginBatch(prompts)
    PROVE  CacheTyped' /\ Steady /\ BatchTyped' /\ CallTyped'
<1>1. CacheTyped' /\ Steady
  <2>1. CacheTyped'
    BY KvKeepsTypes DEF BeginBatch
  <2>2. UNCHANGED <<fw, kv>>
    BY DEF BeginBatch, kvVars
  <2> QED BY <2>1, <2>2, FwUnmoved
<1>2. PICK T : prompts \in Seq(Seq(T))
  BY ClientAssumption DEF Client
<1>3. PICK L \in Nat : L = Len(prompts)
  BY <1>2
<1>4. PICK used \in Nat : used = Len(batch.reqs)
  BY DEF BatchTyped, Requests
<1>5. PICK size \in Nat : size = cfg.batch
  BY ClientIs
<1>6. used <= size
  BY <1>4, <1>5 DEF BatchTyped
<1>7. PICK room \in Nat : room = size - used
  BY <1>6
<1>8. PICK n \in Nat : n = Min({room, L}) /\ n <= L /\ n <= room
  <2>1. {room, L} \in SUBSET Nat
    OBVIOUS
  <2>2. Min({room, L}) \in {room, L} /\ \A x \in {room, L} : Min({room, L}) <= x
    BY <2>1, MinIs
  <2> QED BY <2>2
<1>f. PICK first : first = batch.next
  OBVIOUS
<1>9. PICK new : new = [i \in 1 .. n |-> Request(first + i - 1, prompts[i])]
  OBVIOUS
<1>10. \E next : batch' = [reqs |-> batch.reqs \o new, next |-> next]
  BY <1>3, <1>4, <1>5, <1>7, <1>8, <1>f, <1>9 DEF BeginBatch
<1>11. "reqs" \in DOMAIN batch' /\ batch'.reqs = batch.reqs \o new
  BY <1>10
<1>12. Requests(new) /\ Len(new) = n
  <2>1. n <= Len(prompts)
    BY <1>3, <1>8
  <2>2. Requested(new, n, first, prompts)
    BY <1>9 DEF Requested
  <2> QED BY <1>2, <2>1, <2>2, NewRequests
<1>13. Requests(batch.reqs)
  BY DEF BatchTyped
<1>14. Requests(batch'.reqs) /\ Len(batch'.reqs) = used + n
  BY <1>4, <1>11, <1>12, <1>13, RequestsJoin
<1>15. used + n <= size
  BY <1>7, <1>8
<1>16. cfg' = cfg
  BY DEF BeginBatch
<1>17. BatchTyped'
  BY <1>5, <1>11, <1>14, <1>15, <1>16 DEF BatchTyped
<1>18. CallTyped'
  <2>1. \/ call' = NoCall
        \/ \E slot, out : call' = [kind |-> "batch", prompt |-> prompts, at |-> 1,
                                   slot |-> slot, out |-> out]
    BY Zenon DEF BeginBatch
  <2>2. ASSUME NEW slot, NEW out,
               call' = [kind |-> "batch", prompt |-> prompts, at |-> 1, slot |-> slot, out |-> out]
        PROVE  CallTyped'
    <3>1. PICK c : c = [kind |-> "batch", prompt |-> prompts, at |-> 1, slot |-> slot, out |-> out]
      OBVIOUS
    <3>2. c.kind = "batch" /\ "at" \in DOMAIN c /\ c.at = 1
      BY <3>1
    <3> QED BY <2>2, <3>1, <3>2, CallAt
  <2> QED BY <2>1, <2>2, NoCallTyped
<1> QED BY <1>1, <1>17, <1>18

LEMMA PanicTyped ==
    ASSUME CacheTyped, BatchTyped, NEW pattern, StructuredPanics(pattern)
    PROVE  CacheTyped' /\ Steady /\ BatchTyped' /\ CallTyped'
<1>1. UNCHANGED kvVars /\ fw' = fw /\ cfg' = cfg /\ batch' = batch
  BY DEF StructuredPanics
<1>2. CacheTyped'
  BY <1>1, KvKeepsTypes
<1>3. Steady
  <2>1. UNCHANGED <<fw, kv>>
    BY <1>1 DEF kvVars
  <2> QED BY <2>1, FwUnmoved
<1>4. BatchTyped'
  BY <1>1, BatchStays
<1>5. CallTyped'
  <2>1. PICK c : call' = c /\ c = [kind |-> "panicked", pattern |-> pattern]
    BY DEF StructuredPanics
  <2>2. c.kind \notin {"batch", "beam"}
    BY <2>1
  <2> QED BY <2>1, <2>2, PlainCall
<1> QED BY <1>2, <1>3, <1>4, <1>5

LEMMA ServeTyped ==
    ASSUME NEW s, Client(s), CallKept(s), CacheTyped, FirmwareTyped, BatchTyped, CallTyped,
           ServeRequest
    PROVE  CacheTyped' /\ Steady /\ BatchTyped' /\ CallTyped'
<1>1. /\ call.kind = "batch" /\ {"kind", "at"} \subseteq DOMAIN call /\ call.at \in Nat \ {0}
      /\ call.at <= Len(batch.reqs)
  BY DEF ServeRequest, CallTyped, CallKept
<1>2. PICK reqs : reqs = batch.reqs
  OBVIOUS
<1>3. PICK D : reqs \in Seq(D) /\ \A r \in D : RequestTyped(r)
  BY <1>2 DEF BatchTyped, Requests
<1>4. PICK n \in Nat : n = Len(reqs)
  BY <1>3
<1>5. PICK at \in 1 .. n : at = call.at
  BY <1>1, <1>2, <1>4
<1>6. PICK r : r = reqs[at]
  OBVIOUS
<1>7. r \in D /\ RequestTyped(r)
  BY <1>3, <1>4, <1>6
<1>8. PICK T : r.prompt \in Seq(T)
  BY <1>7 DEF RequestTyped, Sequential
<1>9. PICK len \in Nat : len = Len(r.prompt)
  BY <1>8
<1>10. PICK done \in 0 .. len : done = r.prefill
  BY <1>7, <1>9 DEF RequestTyped
<1>11. PICK chunk \in Nat \ {0} : chunk = cfg.chunk
  BY ClientIs
<1>12. PICK end \in done .. len : end = Min({r.prefill + cfg.chunk, Len(r.prompt)})
  <2>1. {done + chunk, len} \in SUBSET Nat
    OBVIOUS
  <2>2. Min({done + chunk, len}) \in {done + chunk, len} /\ \A x \in {done + chunk, len} :
          Min({done + chunk, len}) <= x
    BY <2>1, MinIs
  <2> QED BY <1>9, <1>10, <1>11, <2>2
<1>13. UNCHANGED <<chassis, cfg, history, prefix, pages, stored, caller>>
  BY DEF ServeRequest
<1>14. PrefixTyped(prefix')
  BY <1>13 DEF CacheTyped
<1>15. PICK out : out = Append(r.out, Decode(r.prompt, r.out, Tokens))
  OBVIOUS
<1>16. \/ /\ Planned(PlanAll(chassis, Now, SubSeq(r.prompt, r.prefill + 1, end)))
          /\ batch' = [batch EXCEPT !.reqs[at].prefill = end]
       \/ /\ PlanNext(r.prompt, r.out)
          /\ \E finished : batch' = [batch EXCEPT !.reqs[at].out = out,
                                                  !.reqs[at].finished = finished]
  BY <1>2, <1>5, <1>6, <1>12, <1>15, Zenon DEF ServeRequest
<1>17. \/ call' = [call EXCEPT !.at = call.at + 1]
       \/ \E slot : call' = [call EXCEPT !.at = call.at + 1, !.out[slot] = out]
  BY <1>2, <1>5, <1>6, <1>15, Zenon DEF ServeRequest
<1>18. CacheTyped' /\ Steady
  <2>1. Len(SubSeq(r.prompt, r.prefill + 1, end)) \in Nat
    <3>1. SubSeq(r.prompt, done + 1, end) \in Seq(T)
      BY <1>8, <1>9
    <3>2. Len(SubSeq(r.prompt, done + 1, end)) \in Nat
      BY <3>1
    <3> QED BY <1>10, <3>2
  <2>2. CASE Planned(PlanAll(chassis, Now, SubSeq(r.prompt, r.prefill + 1, end)))
    BY <1>13, <1>14, <2>1, <2>2, ListPlanned
  <2>3. CASE PlanNext(r.prompt, r.out)
    BY <1>13, <2>3, NextPlanned DEF PlanNext
  <2> QED BY <1>16, <2>2, <2>3
<1>19. ASSUME NEW new, RequestTyped(new), batch' = [batch EXCEPT !.reqs[at] = new]
       PROVE  BatchTyped'
  <2>1. PICK more : more = [reqs EXCEPT ![at] = new]
    OBVIOUS
  <2>2. batch' = [batch EXCEPT !.reqs = more]
    BY <1>2, <1>19, <2>1
  <2>3. PICK E : E = D \cup {new}
    OBVIOUS
  <2>4. \A x \in E : RequestTyped(x)
    BY <1>3, <1>19, <2>3
  <2>5. more \in Seq(E) /\ Len(more) = n
    <3>1. reqs \in Seq(E) /\ new \in E
      BY <1>3, <2>3
    <3> QED BY <1>4, <2>1, <3>1
  <2>6. "reqs" \in DOMAIN batch' /\ batch'.reqs = more
    BY <2>2 DEF BatchTyped
  <2>7. Requests(batch'.reqs) /\ Len(batch'.reqs) <= cfg'.batch
    BY <1>2, <1>4, <1>13, <2>4, <2>5, <2>6 DEF BatchTyped, Requests
  <2> QED BY <2>6, <2>7 DEF BatchTyped
<1>20. BatchTyped'
  <2>1. ASSUME batch' = [batch EXCEPT !.reqs[at].prefill = end] PROVE BatchTyped'
    <3>1. PICK new : new = [r EXCEPT !.prefill = end]
      OBVIOUS
    <3>2. batch' = [batch EXCEPT !.reqs[at] = new]
      BY <1>2, <1>6, <2>1, <3>1
    <3>3. RequestTyped(new)
      BY <1>7, <1>9, <3>1 DEF RequestTyped
    <3> QED BY <1>19, <3>2, <3>3
  <2>2. ASSUME NEW finished,
               batch' = [batch EXCEPT !.reqs[at].out = out, !.reqs[at].finished = finished]
        PROVE  BatchTyped'
    <3>1. PICK mid : mid = [r EXCEPT !.out = out]
      OBVIOUS
    <3>2. PICK new : new = [mid EXCEPT !.finished = finished]
      OBVIOUS
    <3>3. PICK first : first = [reqs EXCEPT ![at] = mid]
      OBVIOUS
    <3>4. PICK b : b = [batch EXCEPT !.reqs = first]
      OBVIOUS
    <3>5. b = [batch EXCEPT !.reqs[at].out = out]
      BY <1>2, <1>6, <3>1, <3>3, <3>4
    <3>6. batch' = [b EXCEPT !.reqs[at].finished = finished]
      BY <2>2, <3>5, Zenon
    <3>7. "reqs" \in DOMAIN batch /\ at \in DOMAIN reqs
      BY <1>3, <1>4 DEF BatchTyped
    <3>8. b.reqs = first /\ first[at] = mid
      BY <3>3, <3>4, <3>7
    <3>9. batch' = [b EXCEPT !.reqs = [first EXCEPT ![at] = new]]
      BY <3>2, <3>6, <3>8
    <3>10. [first EXCEPT ![at] = new] = [reqs EXCEPT ![at] = new]
      BY <3>3, <3>7
    <3>11. batch' = [batch EXCEPT !.reqs[at] = new]
      BY <1>2, <3>4, <3>9, <3>10
    <3>12. RequestTyped(mid)
      BY <1>7, <3>1 DEF RequestTyped
    <3>13. RequestTyped(new)
      BY <3>2, <3>12 DEF RequestTyped
    <3> QED BY <1>19, <3>11, <3>13
  <2> QED BY <1>16, <2>1, <2>2
<1>21. CallTyped'
  <2>1. call.at + 1 \in Nat \ {0}
    BY <1>1
  <2>2. PICK c : c = [call EXCEPT !.at = call.at + 1]
    OBVIOUS
  <2>3. c.kind = "batch" /\ "at" \in DOMAIN c /\ c.at \in Nat \ {0}
    BY <1>1, <2>1, <2>2
  <2>4. CASE call' = c
    BY <2>3, <2>4, CallAt
  <2>5. ASSUME NEW slot, call' = [call EXCEPT !.at = call.at + 1, !.out[slot] = out]
        PROVE  CallTyped'
    <3>1. PICK d : d = [c EXCEPT !.out[slot] = out]
      OBVIOUS
    <3>2. call' = d
      BY <2>2, <2>5, <3>1, Zenon
    <3>3. d.kind = "batch" /\ "at" \in DOMAIN d /\ d.at \in Nat \ {0}
      BY <2>3, <3>1
    <3> QED BY <3>2, <3>3, CallAt
  <2> QED BY <1>17, <2>2, <2>4, <2>5
<1> QED BY <1>18, <1>20, <1>21

LEMMA EndOfPassTyped ==
    ASSUME NEW s, Client(s), CallKept(s), CacheTyped, FirmwareTyped, BatchTyped, CallTyped, EndOfPass
    PROVE  CacheTyped' /\ Steady /\ BatchTyped' /\ CallTyped'
<1>1. CacheTyped'
  BY KvKeepsTypes DEF EndOfPass
<1>2. Steady
  BY FwUnmoved DEF EndOfPass, kvVars
<1>3. PICK D : batch.reqs \in Seq(D) /\ \A r \in D : RequestTyped(r)
  BY DEF BatchTyped, Requests
<1>4. PICK left : left = Active(batch.reqs)
  OBVIOUS
<1>5. left \in Seq(D) /\ Len(left) <= Len(batch.reqs)
  BY <1>3, <1>4, AmongShort DEF Active
<1>6. batch' = [batch EXCEPT !.reqs = left] /\ cfg' = cfg
  BY <1>4 DEF EndOfPass
<1>7. "reqs" \in DOMAIN batch' /\ batch'.reqs = left
  BY <1>6 DEF BatchTyped
<1>8. BatchTyped'
  <2>1. Len(left) \in Nat /\ Len(batch.reqs) \in Nat
    BY <1>3, <1>5
  <2>2. Requests(left)
    BY <1>3, <1>5 DEF Requests
  <2>3. PICK size \in Nat : size = cfg.batch /\ Len(batch.reqs) <= size
    BY ClientIs DEF BatchTyped
  <2> QED BY <1>5, <1>6, <1>7, <2>1, <2>2, <2>3 DEF BatchTyped
<1>9. CallTyped'
  <2>1. call' = NoCall \/ call' = [call EXCEPT !.at = 1]
    BY DEF EndOfPass, Return
  <2>2. CASE call' = [call EXCEPT !.at = 1]
    <3>1. PICK c : c = [call EXCEPT !.at = 1]
      OBVIOUS
    <3>2. call.kind = "batch" /\ {"kind", "at"} \subseteq DOMAIN call
      BY DEF EndOfPass, CallTyped, CallKept
    <3>3. c.kind = "batch" /\ "at" \in DOMAIN c /\ c.at \in Nat \ {0}
      BY <3>1, <3>2
    <3> QED BY <2>2, <3>1, <3>3, CallAt
  <2> QED BY <2>1, <2>2, NoCallTyped
<1> QED BY <1>1, <1>2, <1>8, <1>9

-----------------------------------------------------------------------------
(* The type invariant of the serving software                              *)

LEMMA ServingTypedFirst == ServingInit => ServingTyped
<1>1. PrefixTyped(NewPrefixCache)
  <2>1. NewPrefixCache.entries = <<>> /\ "entries" \in DOMAIN NewPrefixCache
    BY DEF NewPrefixCache
  <2>2. DOMAIN NewPrefixCache.entries = {}
    BY <2>1
  <2>3. IsFiniteSet({}) /\ Cardinality({}) = 0
    BY FS_EmptySet
  <2> QED BY <2>1, <2>2, <2>3, KvAssumption DEF PrefixTyped
<1>2. ASSUME pages = [l \in KvLayerIds |-> NewPageTable(MaxVirtPages, MaxPages)] PROVE TablesOK
  <2>1. NewPageTable(MaxVirtPages, MaxPages) \in Table
    BY NewTableOK DEF TableOK
  <2> QED BY <1>2, <2>1, NewTableOK DEF TablesOK
<1>3. ASSUME KvInit, LLMIdle PROVE ServingTyped
  <2>1. PICK use \in KvUses : kv = NewKVCache(use.mode, use.nvme, use) /\ caller = use.caller
    BY <1>3 DEF KvInit
  <2>2. use.nvme \in BOOLEAN /\ caller # "firmware"
    BY <2>1, KvAssumption
  <2>3. kv \in Typed(kv)
    BY <2>1, <2>2, NewCacheTyped
  <2>4. 0 \in Counts
    BY KvAssumption DEF Counts
  <2>5. CacheTyped
    BY <1>1, <1>2, <1>3, <2>3, <2>4 DEF CacheTyped, KvInit
  <2> QED BY <2>2, <2>5 DEF ServingTyped
<1>4. ASSUME NEW s \in LLMSetups, NewLLMClient(s.model, s.config, s.preload) PROVE ServingTyped
  <2>1. PICK n \in Counts : n = s.preload /\ n \in Nat
    BY ClientAssumption, KvAssumption DEF Counts
  <2>2. PICK empty : empty = NewKVCache("none", FALSE, s.model)
    OBVIOUS
  <2>3. empty \in Typed(empty)
    BY <2>2, NewCacheTyped
  <2>4. kv = Filled(empty, n)
    BY <1>4, <2>1, <2>2 DEF NewLLMClient
  <2>5. kv \in Typed(empty)
    BY <2>1, <2>3, <2>4, FilledTyped
  <2>6. kv \in Typed(kv)
    BY <2>5, TypedAgain
  <2>7. stored \in [KvLayerIds -> Counts]
    BY <1>4, <2>1 DEF NewLLMClient
  <2>8. CacheTyped
    BY <1>1, <1>2, <1>4, <2>6, <2>7 DEF CacheTyped, NewLLMClient
  <2>9. FirmwareTyped
    <3>1. fw = NewFirmware(s.model, Settings(s.config))
      BY <1>4 DEF NewLLMClient
    <3>2. Settings(s.config).draft = 4
      BY DEF Settings
    <3>3. {"state", "draft"} \subseteq DOMAIN fw /\ fw.state = "reset" /\ fw.draft = 4
      BY <3>1, <3>2 DEF NewFirmware
    <3>4. FwIs(fw, "reset", 4)
      BY <3>3 DEF FwIs
    <3> QED BY <3>4 DEF FirmwareTyped, FwStates
  <2>10. BatchTyped
    <3>1. batch = [reqs |-> <<>>, next |-> 1] /\ cfg = s.config
      BY <1>4 DEF NewLLMClient
    <3>2. "reqs" \in DOMAIN batch /\ batch.reqs = <<>>
      BY <3>1
    <3>3. <<>> \in Seq({}) /\ Len(<<>>) = 0
      OBVIOUS
    <3>4. cfg.batch \in Nat \ {0}
      BY <3>1, ClientAssumption
    <3>5. Requests(<<>>)
      <4>1. PICK none : none = <<>>
        OBVIOUS
      <4>2. PICK E : E = {}
        OBVIOUS
      <4>3. none \in Seq(E) /\ \A r \in E : RequestTyped(r)
        BY <4>1, <4>2
      <4>4. Requests(none)
        BY <4>3 DEF Requests
      <4> QED BY <4>1, <4>4
    <3> QED BY <3>2, <3>3, <3>4, <3>5 DEF BatchTyped
  <2>11. CallTyped
    <3>1. call.kind = "boot"
      BY <1>4 DEF NewLLMClient
    <3> QED BY <3>1 DEF CallTyped
  <2> QED BY <2>8, <2>9, <2>10, <2>11 DEF ServingTyped
<1> QED BY <1>3, <1>4 DEF ServingInit, LLMInit

LEMMA SteadyTyped ==
    ASSUME FirmwareTyped, Steady
    PROVE  FirmwareTyped'
  BY DEF FirmwareTyped, Steady, FirmwareKept

LEMMA LLMKeepsTypes ==
    ASSUME NEW s, Client(s), CallKept(s), CacheTyped, FirmwareTyped, BatchTyped, CallTyped, LLMNext
    PROVE  /\ CacheTyped' /\ FirmwareTyped' /\ BatchTyped' /\ CallTyped'
           /\ Boot \/ Configure \/ Steady
<1> DEFINE Kept4 == CacheTyped' /\ Steady /\ BatchTyped' /\ CallTyped'
<1>1. ASSUME Boot \/ Configure PROVE CacheTyped' /\ FirmwareTyped' /\ BatchTyped' /\ CallTyped'
  BY <1>1, BootTyped
<1>2. ASSUME NEW prompt \in Prompts,
             \/ BeginGenerate(prompt)
             \/ BeginSpeculative(prompt)
             \/ BeginLogprobs(prompt)
             \/ BeginBeamSearch(prompt)
             \/ \E pattern \in Patterns : BeginStructured(prompt, pattern)
      PROVE  Kept4
  BY <1>2, BeginTyped
<1>3. ASSUME NEW prompts \in BatchCalls, BeginBatch(prompts) PROVE Kept4
  BY <1>3, BeginBatchTyped
<1>4. ASSUME GenerateStep \/ SpeculativeStep \/ StructuredStep PROVE Kept4
  BY <1>4, PassTyped
<1>5. ASSUME BeamStep PROVE Kept4
  BY <1>5, BeamStepTyped
<1>6. ASSUME ServeRequest PROVE Kept4
  BY <1>6, ServeTyped
<1>7. ASSUME EndOfPass PROVE Kept4
  BY <1>7, EndOfPassTyped
<1>8. ASSUME NEW pattern \in Patterns, StructuredPanics(pattern) PROVE Kept4
  BY <1>8, PanicTyped
<1> HIDE DEF Kept4
<1>9. Boot \/ Configure \/ Kept4
  BY <1>2, <1>3, <1>4, <1>5, <1>6, <1>7, <1>8 DEF LLMNext
<1> QED BY <1>1, <1>9, SteadyTyped DEF Kept4

LEMMA ServingTypedNext == ClientInv /\ ServingTyped /\ [ServingNext]_servingVars => ServingTyped'
<1> SUFFICES ASSUME ClientInv, ServingTyped, [ServingNext]_servingVars PROVE ServingTyped'
  OBVIOUS
<1>1. caller' = caller
  BY CallerFixed DEF servingVars, kvVars
<1>2. CASE UNCHANGED llmVars /\ [KvNext]_kvVars
  <2>1. CacheTyped'
    BY <1>2, KvKeepsTypes DEF ServingTyped
  <2>2. caller = "firmware" => FirmwareTyped' /\ BatchTyped' /\ CallTyped'
    BY <1>2, BatchStays, CallTypeStays DEF ServingTyped, FirmwareTyped, llmVars
  <2> QED BY <1>1, <2>1, <2>2 DEF ServingTyped
<1>3. CASE LLMNext
  <2>1. CASE caller = "firmware"
    <3>1. PICK s : Client(s) /\ CallKept(s)
      BY <2>1 DEF ClientInv
    <3> QED BY <1>1, <1>3, <2>1, <3>1, LLMKeepsTypes DEF ServingTyped
  <2>2. CASE caller # "firmware"
    <3>1. call = NoCall
      BY <2>2 DEF ClientInv
    <3> QED BY <1>3, <2>2, <3>1, NoLLMStep
  <2> QED BY <2>1, <2>2
<1> QED BY <1>2, <1>3 DEF ServingNext, servingVars

(* The pointers and the occupancy of every bank stay in the ring, the NVMe *)
(* write position in its region and the prefix cache within its size,      *)
(* whoever uses the cache; the firmware and the client's call stay in      *)
(* their states, the batch never holds more requests than it may, and no   *)
(* request's prefill runs past its prompt.                                 *)
THEOREM ServingTypes == ServingSpec => []ServingTypeOK
<1>1. ServingTyped /\ ClientInv => ServingTypeOK
  <2> SUFFICES ASSUME ServingTyped, ClientInv PROVE ServingTypeOK
    OBVIOUS
  <2>1. KvTypeOK
    <3>1. ASSUME NEW l \in KvLayerIds
          PROVE  /\ stored[l] \in (0 .. MaxPos) \cup (0 .. MaxPaged)
                 /\ kv.lba \in 0 .. LBAEnd - 1
      BY DEF ServingTyped, CacheTyped, Counts, Typed
    <3>2. ASSUME NEW l \in KvLayerIds, NEW i \in BankIds
          PROVE  /\ kv.banks[l][i].occ \in 0 .. Depth
                 /\ kv.banks[l][i].wr \in 0 .. Depth - 1
                 /\ kv.banks[l][i].rd \in 0 .. Depth - 1
      <4>1. kv.banks[l][i] \in Bank
        BY DEF ServingTyped, CacheTyped, Typed, Banks
      <4> QED BY <4>1 DEF Bank, Places
    <3> QED BY <3>1, <3>2 DEF KvTypeOK, ServingTyped, CacheTyped, PrefixTyped
  <2>2. LLMTypeOK
    <3> SUFFICES ASSUME caller = "firmware" PROVE LLMTypeOK
      BY DEF LLMTypeOK
    <3>1. fw.state \in FwStates
      BY DEF ServingTyped, FirmwareTyped, FwIs
    <3>2. call.kind \in Kinds
      BY DEF ClientInv, CallKept
    <3>3. BatchTyped
      BY DEF ServingTyped
    <3>4. PICK D : batch.reqs \in Seq(D) /\ \A r \in D : RequestTyped(r)
      BY <3>3 DEF BatchTyped, Requests
    <3>5. ASSUME NEW i \in 1 .. Len(batch.reqs)
          PROVE  batch.reqs[i].prefill \in 0 .. Len(batch.reqs[i].prompt)
      BY <3>4 DEF RequestTyped
    <3> QED BY <3>1, <3>2, <3>3, <3>5 DEF LLMTypeOK, FwStates, Kinds, BatchTyped
  <2> QED BY <2>1, <2>2 DEF ServingTypeOK
<1> QED BY <1>1, ServingTypedFirst, ServingTypedNext, ClientInvAlways, PTL DEF ServingSpec

(* Every physical page of a layer is free or mapped once, whatever mix of  *)
(* stores, allocations, shares and frees the callers make (PageTable's     *)
(* calls), and whatever the client does in between.                        *)
THEOREM PagesNeverTwice == ServingSpec => []PagesOwnedOnce
<1>1. ServingTyped => PagesOwnedOnce
  BY DEF ServingTyped, CacheTyped, TablesOK, TableOK, PagesOwnedOnce
<1> QED BY <1>1, ServingTypedFirst, ServingTypedNext, ClientInvFirst, ClientInvNext, PTL DEF ServingSpec

(* Whatever its caller stores in order, and whatever the offload cycle     *)
(* drains in between, the cache returns what was stored.                   *)
THEOREM CacheFaithful == ServingSpec => []KvFaithful
<1> DEFINE Inv == ClientInv /\ (caller # "firmware" => KvInv)
<1>1. ServingInit => Inv
  <2>1. LLMInit => caller = "firmware"
    BY DEF LLMInit, NewLLMClient
  <2> QED BY <2>1, InitKvInv, ClientInvFirst DEF ServingInit
<1>2. Inv /\ [ServingNext]_servingVars => Inv'
  <2> SUFFICES ASSUME Inv, [ServingNext]_servingVars PROVE Inv'
    OBVIOUS
  <2>1. caller' = caller
    BY CallerFixed DEF servingVars, kvVars
  <2>2. ClientInv'
    BY ClientInvNext
  <2>3. ASSUME caller # "firmware" PROVE KvInv'
    <3>1. ~LLMNext
      BY <2>3, NoLLMStep DEF ClientInv
    <3>2. [KvNext]_kvVars
      BY <3>1 DEF ServingNext, servingVars
    <3> QED BY <2>3, <3>2, NextKvInv
  <2> QED BY <2>1, <2>2, <2>3
<1>3. Inv => KvFaithful
  <2> SUFFICES ASSUME Inv PROVE KvFaithful
    OBVIOUS
  <2>1. CASE caller = "firmware"
    BY <2>1, HeadsOK DEF KvFaithful, LoadsWhatWasStored, WindowIsRecent, SpilledIsPersisted
  <2>2. CASE caller # "firmware"
    BY <2>2, LoadsOK, WindowOK, SpilledOK, HeadsOK DEF KvFaithful
  <2> QED BY <2>1, <2>2
<1> QED BY <1>1, <1>2, <1>3, PTL DEF ServingSpec

-----------------------------------------------------------------------------
(* What a plan does to the positions: every model layer moves by one for   *)
(* every token planned, and by as many as are accepted when tokens are     *)
(* drafted                                                                 *)

AtPosition(m, f, p) == "seq" \in DOMAIN f /\ f.seq = [ml \in ModelLayers(m) |-> p]

OnLevel(m, t, p) == {"fw", "kv"} \subseteq DOMAIN t /\ AtPosition(m, t.fw, p)

(* The first n layers have had the token.                                  *)
Stair(N, n, p) == [ml \in 0 .. N - 1 |-> IF ml < n THEN p + 1 ELSE p]

LEMMA LayerRises ==
    ASSUME NEW N \in Nat, NEW n \in Nat, n < N, NEW p, NEW drv, NEW token,
           NEW t, {"fw", "kv"} \subseteq DOMAIN t, "seq" \in DOMAIN t.fw, t.fw.seq = Stair(N, n, p)
    PROVE  LET u == PlanLayer(drv, t, token, n)
           IN  {"fw", "kv"} \subseteq DOMAIN u /\ "seq" \in DOMAIN u.fw
               /\ u.fw.seq = Stair(N, n + 1, p)
<1>1. PICK u : u = PlanLayer(drv, t, token, n)
  OBVIOUS
<1>2. PICK r, k : u = [fw |-> [t.fw EXCEPT !.seq[n] = t.fw.seq[n] + 1], kv |-> k, recs |-> r]
  BY <1>1, Zenon DEF PlanLayer
<1>3. PICK q : q = t.fw.seq
  OBVIOUS
<1>4. PICK f : f = [t.fw EXCEPT !.seq = [q EXCEPT ![n] = q[n] + 1]]
  OBVIOUS
<1>5. u.fw = f /\ {"fw", "kv"} \subseteq DOMAIN u
  BY <1>2, <1>3, <1>4
<1>6. "seq" \in DOMAIN f /\ f.seq = [q EXCEPT ![n] = q[n] + 1]
  BY <1>4
<1>7. q = [ml \in 0 .. N - 1 |-> IF ml < n THEN p + 1 ELSE p]
  BY <1>3 DEF Stair
<1>8. [q EXCEPT ![n] = q[n] + 1] = Stair(N, n + 1, p)
  BY <1>7 DEF Stair
<1> QED BY <1>1, <1>5, <1>6, <1>8

LEMMA TokenLevel ==
    ASSUME NEW drv, drv.m.layers \in Nat, NEW p, NEW st, OnLevel(drv.m, st, p), NEW token
    PROVE  OnLevel(drv.m, PlanInference(drv, st, token), p + 1)
<1>1. PICK N \in Nat : N = drv.m.layers
  OBVIOUS
<1>2. PICK h : /\ h[0] = [fw |-> st.fw, kv |-> st.kv, recs |-> <<>>]
               /\ \A n \in 1 .. N : h[n] = PlanLayer(drv, h[n - 1], token, n - 1)
               /\ PlanInference(drv, st, token) = Dispatched(h[N])
  <2>1. PICK h : /\ h[0] = [fw |-> st.fw, kv |-> st.kv, recs |-> <<>>]
                 /\ \A n \in 1 .. drv.m.layers : h[n] = PlanLayer(drv, h[n - 1], token, n - 1)
                 /\ PlanInference(drv, st, token) = Dispatched(h[drv.m.layers])
    BY LayersPlanned
  <2> QED BY <1>1, <2>1
<1> DEFINE Risen(n) == /\ {"fw", "kv"} \subseteq DOMAIN h[n] /\ "seq" \in DOMAIN h[n].fw
                       /\ h[n].fw.seq = Stair(N, n, p)
           S == {n \in Nat : n <= N => Risen(n)}
<1>3. 0 \in S
  <2>1. st.fw.seq = Stair(N, 0, p) /\ "seq" \in DOMAIN st.fw
    BY <1>1 DEF OnLevel, AtPosition, Stair, ModelLayers
  <2>2. Risen(0)
    BY <1>2, <2>1
  <2> QED BY <2>2
<1>4. ASSUME NEW n \in Nat, n \in S PROVE n + 1 \in S
  <2> SUFFICES ASSUME n + 1 <= N PROVE Risen(n + 1)
    OBVIOUS
  <2>1. n + 1 \in 1 .. N /\ (n + 1) - 1 = n /\ n < N /\ n <= N
    OBVIOUS
  <2>2. h[n + 1] = PlanLayer(drv, h[n], token, n)
    BY <1>2, <2>1
  <2>3. Risen(n)
    BY <1>4, <2>1
  <2> QED BY <2>1, <2>2, <2>3, LayerRises
<1> HIDE DEF S
<1>5. Nat \subseteq S
  BY <1>3, <1>4, SetInduction
<1>6. Risen(N)
  BY <1>5 DEF S
<1>7. PICK t : t = h[N]
  OBVIOUS
<1>8. PICK f : f = [t.fw EXCEPT !.dispatched = t.fw.dispatched + Len(t.recs)]
  OBVIOUS
<1>9. Dispatched(t) = [t EXCEPT !.fw = f]
  BY <1>8 DEF Dispatched
<1>10. f.seq = Stair(N, N, p) /\ "seq" \in DOMAIN f
  BY <1>6, <1>7, <1>8
<1>11. Stair(N, N, p) = [ml \in ModelLayers(drv.m) |-> p + 1]
  BY <1>1 DEF Stair, ModelLayers
<1>12. AtPosition(drv.m, f, p + 1)
  BY <1>10, <1>11 DEF AtPosition
<1> QED BY <1>2, <1>6, <1>7, <1>9, <1>12 DEF OnLevel

LEMMA TokensLevel ==
    ASSUME NEW drv, drv.m.layers \in Nat, NEW p \in Int, NEW st, OnLevel(drv.m, st, p),
           NEW tokens, Len(tokens) \in Nat
    PROVE  OnLevel(drv.m, PlanAll(drv, st, tokens), p + Len(tokens))
<1>1. PICK N \in Nat : N = Len(tokens)
  OBVIOUS
<1>2. PICK h : TokenStates(h, drv, st, tokens, N)
  BY <1>1, OnePlanned
<1> DEFINE S == {n \in Nat : n <= N => OnLevel(drv.m, h[n], p + n)}
<1>3. 0 \in S
  <2>1. p + 0 = p
    OBVIOUS
  <2>2. OnLevel(drv.m, h[0], p)
    BY <1>2 DEF OnLevel, TokenStates
  <2> QED BY <2>1, <2>2
<1>4. ASSUME NEW n \in Nat, n \in S PROVE n + 1 \in S
  <2> SUFFICES ASSUME n + 1 <= N PROVE OnLevel(drv.m, h[n + 1], p + (n + 1))
    OBVIOUS
  <2>1. n + 1 \in 1 .. N /\ (n + 1) - 1 = n /\ (p + n) + 1 = p + (n + 1)
    OBVIOUS
  <2>2. h[n + 1] = PlanOneMore(drv, h[n], tokens[n + 1])
    BY <1>2, <2>1 DEF TokenStates
  <2>3. OnLevel(drv.m, h[n], p + n)
    BY <1>4
  <2>4. PICK x : x = PlanInference(drv, h[n], tokens[n + 1])
    OBVIOUS
  <2>5. OnLevel(drv.m, x, (p + n) + 1)
    BY <2>3, <2>4, TokenLevel
  <2>6. h[n + 1] = [fw |-> x.fw, kv |-> x.kv, plans |-> Append(h[n].plans, x.recs)]
    BY <2>2, <2>4 DEF PlanOneMore, AddPlan
  <2> QED BY <2>1, <2>5, <2>6 DEF OnLevel
<1> HIDE DEF S
<1>5. Nat \subseteq S
  BY <1>3, <1>4, SetInduction
<1>6. OnLevel(drv.m, h[N], p + N)
  BY <1>5 DEF S
<1> QED BY <1>1, <1>2, <1>6 DEF TokenStates

LEMMA ChunksLevel ==
    ASSUME NEW drv, drv.m.layers \in Nat, NEW p \in Int, NEW st, OnLevel(drv.m, st, p),
           NEW prompt, Len(prompt) \in Nat
    PROVE  OnLevel(drv.m, PlanInferenceChunked(drv, st, prompt), p + Len(prompt))
<1>1. PICK t : t = PlanAll(drv, st, prompt)
  OBVIOUS
<1>2. OnLevel(drv.m, t, p + Len(prompt))
  BY <1>1, TokensLevel
<1>3. \E plans : PlanInferenceChunked(drv, st, prompt) = [t EXCEPT !.plans = plans]
  BY <1>1 DEF PlanInferenceChunked, ByChunk
<1>4. ASSUME NEW plans PROVE OnLevel(drv.m, [t EXCEPT !.plans = plans], p + Len(prompt))
  BY <1>2 DEF OnLevel
<1> QED BY <1>3, <1>4

(* The drafter's chain: each token is drafted from the one before it.      *)
DraftChain(d, prev, n) ==
  /\ Len(d) = n
  /\ \A i \in 1 .. n : d[i] = Draft(IF i = 1 THEN prev ELSE d[i - 1], i - 1)

LEMMA DraftedIs ==
    ASSUME NEW prev, NEW n \in Nat
    PROVE  \E D : Drafted(prev, n) \in Seq(D) /\ DraftChain(Drafted(prev, n), prev, n)
<1> DEFINE Eqn(c, m) == c = [i \in 0 .. m |-> IF i = 0 THEN prev ELSE Draft(c[i - 1], i - 1)]
           S == {m \in Nat : \E c : Eqn(c, m)}
<1>1. 0 \in S
  <2>1. PICK c : c = [i \in 0 .. 0 |-> prev]
    OBVIOUS
  <2>2. \A i \in 0 .. 0 : i = 0
    OBVIOUS
  <2>3. Eqn(c, 0)
    BY <2>1, <2>2
  <2> QED BY <2>3
<1>2. ASSUME NEW m \in Nat, m \in S PROVE m + 1 \in S
  <2>1. PICK c : Eqn(c, m)
    BY <1>2
  <2>2. PICK next : next = Draft(c[m], m)
    OBVIOUS
  <2>3. PICK g : g = [i \in 0 .. m + 1 |-> IF i = m + 1 THEN next ELSE c[i]]
    OBVIOUS
  <2>4. ASSUME NEW i \in 0 .. m + 1
        PROVE  g[i] = IF i = 0 THEN prev ELSE Draft(g[i - 1], i - 1)
    <3>1. CASE i = m + 1
      <4>1. i - 1 = m /\ i # 0 /\ m \in 0 .. m + 1 /\ m # m + 1
        BY <3>1
      <4>2. g[i - 1] = c[m] /\ g[i] = next
        BY <2>3, <3>1, <4>1
      <4> QED BY <2>2, <4>1, <4>2
    <3>2. CASE i # m + 1
      <4>1. i \in 0 .. m /\ g[i] = c[i]
        BY <2>3, <3>2
      <4>2. c[i] = IF i = 0 THEN prev ELSE Draft(c[i - 1], i - 1)
        BY <2>1, <4>1
      <4>3. i # 0 => g[i - 1] = c[i - 1]
        BY <2>3, <4>1
      <4> QED BY <4>1, <4>2, <4>3
    <3> QED BY <3>1, <3>2
  <2>5. Eqn(g, m + 1)
    BY <2>3, <2>4
  <2>6. m + 1 \in Nat
    OBVIOUS
  <2> QED BY <2>5, <2>6
<1> HIDE DEF S
<1>3. Nat \subseteq S
  BY <1>1, <1>2, SetInduction
<1>4. \E c : Eqn(c, n)
  BY <1>3 DEF S
<1> DEFINE c == CHOOSE c : Eqn(c, n)
<1>5. Eqn(c, n)
  BY <1>4
<1>6. Drafted(prev, n) = [i \in 1 .. n |-> c[i]]
  BY DEF Drafted
<1> HIDE DEF c
<1>7. PICK d : d = Drafted(prev, n)
  OBVIOUS
<1>8. d \in Seq({c[i] : i \in 1 .. n}) /\ Len(d) = n /\ \A i \in 1 .. n : d[i] = c[i]
  BY <1>6, <1>7
<1>9. ASSUME NEW i \in 1 .. n PROVE d[i] = Draft(IF i = 1 THEN prev ELSE d[i - 1], i - 1)
  <2>1. i \in 0 .. n /\ i - 1 \in 0 .. n /\ i # 0
    OBVIOUS
  <2>2. c[i] = Draft(c[i - 1], i - 1)
    BY <1>5, <2>1
  <2>3. c[0] = prev
    BY <1>5
  <2>4. CASE i = 1
    <3>1. i - 1 = 0
      BY <2>4
    <3> QED BY <1>8, <2>2, <2>3, <2>4, <3>1
  <2>5. CASE i # 1
    <3>1. i - 1 \in 1 .. n
      BY <2>5
    <3> QED BY <1>8, <2>2, <2>5, <3>1
  <2> QED BY <2>4, <2>5
<1> QED BY <1>7, <1>8, <1>9 DEF DraftChain

(* The main model is the drafter, so all of a draft is accepted.           *)
LEMMA AllAccepted ==
    ASSUME NEW prev, NEW n \in Nat, NEW d, DraftChain(d, prev, n)
    PROVE  Accepted(prev, d) = d
<1>1. ASSUME NEW i \in 1 .. n PROVE d[i] = Draft(IF i = 1 THEN prev ELSE d[i - 1], i - 1)
  BY DEF DraftChain
<1>2. Len(d) = n
  BY DEF DraftChain
<1> DEFINE wrong == { i \in 1 .. Len(d) : d[i] # Draft(IF i = 1 THEN prev ELSE d[i - 1], i - 1) }
<1>3. wrong = {}
  BY <1>1, <1>2
<1> QED BY <1>3, Zenon DEF Accepted

(* The tokens of a draft round are the drafter's chain.                    *)
LEMMA DraftTokens ==
    ASSUME NEW drv, NEW st, NEW prev, DraftCount(st.fw) \in Nat \ {0}
    PROVE  \E d, D : /\ d = Drafted(prev, DraftCount(st.fw))
                     /\ d \in Seq(D) /\ DraftChain(d, prev, DraftCount(st.fw))
                     /\ Accepted(prev, d) = d
                     /\ PlanInferenceSpeculative(drv, st, prev).tokens = d
<1>1. PICK n \in Nat : n = DraftCount(st.fw) /\ n # 0
  OBVIOUS
<1>2. PICK d, D : d = Drafted(prev, n) /\ d \in Seq(D) /\ DraftChain(d, prev, n)
  BY DraftedIs
<1>3. Accepted(prev, d) = d
  BY <1>2, AllAccepted
<1>4. PICK draft : draft = DraftPhase(drv, st, prev, d)
  OBVIOUS
<1>5. PICK verify : verify = VerifyPhase(drv, draft, st.fw.seq, d)
  OBVIOUS
<1>6. PICK x : x = Commit(st.fw.seq, draft, verify, d, d)
  OBVIOUS
<1>7. PlanInferenceSpeculative(drv, st, prev) = x
  BY <1>1, <1>2, <1>3, <1>4, <1>5, <1>6 DEF PlanInferenceSpeculative, Speculate
<1>8. x.tokens = d
  BY <1>6 DEF Commit
<1> QED BY <1>1, <1>2, <1>3, <1>7, <1>8

LEMMA DraftsLevel ==
    ASSUME NEW drv, drv.m.layers \in Nat, NEW p \in Int, NEW st, OnLevel(drv.m, st, p), NEW prev,
           DraftCount(st.fw) \in Nat \ {0}
    PROVE  OnLevel(drv.m, PlanInferenceSpeculative(drv, st, prev), p + DraftCount(st.fw))
<1>1. PICK n \in Nat : n = DraftCount(st.fw) /\ n # 0
  OBVIOUS
<1>2. PICK d, D : d = Drafted(prev, n) /\ d \in Seq(D) /\ DraftChain(d, prev, n)
  BY DraftedIs
<1>3. Accepted(prev, d) = d /\ Len(d) = n
  BY <1>2, AllAccepted DEF DraftChain
<1>4. PICK draft : draft = DraftPhase(drv, st, prev, d)
  OBVIOUS
<1>6. PICK back : back = [draft EXCEPT !.fw.seq = st.fw.seq]
  OBVIOUS
<1>5. OnLevel(drv.m, back, p)
  <2>0. PICK tokens : tokens = <<prev>> \o SubSeq(d, 1, n - 1)
    OBVIOUS
  <2>1. Len(tokens) \in Nat
    <3>1. <<prev>> \in Seq(D \cup {prev})
      OBVIOUS
    <3>2. SubSeq(d, 1, n - 1) \in Seq(D)
      BY <1>1, <1>2, <1>3
    <3>3. Seq(D) \subseteq Seq(D \cup {prev})
      OBVIOUS
    <3>4. <<prev>> \o SubSeq(d, 1, n - 1) \in Seq(D \cup {prev})
      BY <3>1, <3>2, <3>3
    <3> QED BY <2>0, <3>4
  <2>2. draft = PlanAll(drv, st, tokens)
    BY <1>3, <1>4, <2>0 DEF DraftPhase
  <2>3. OnLevel(drv.m, draft, p + Len(tokens))
    BY <2>1, <2>2, TokensLevel
  <2>4. PICK f : f = [draft.fw EXCEPT !.seq = st.fw.seq]
    OBVIOUS
  <2>5. back = [draft EXCEPT !.fw = f]
    BY <1>6, <2>4
  <2>6. "seq" \in DOMAIN draft.fw
    BY <2>3 DEF OnLevel, AtPosition
  <2>7. "seq" \in DOMAIN f /\ f.seq = st.fw.seq
    BY <2>4, <2>6
  <2> QED BY <2>3, <2>5, <2>7 DEF OnLevel, AtPosition
<1>8. PICK verify : verify = PlanAll(drv, back, d)
  OBVIOUS
<1>9. OnLevel(drv.m, verify, p + n)
  <2>1. Len(d) \in Nat
    BY <1>3
  <2> QED BY <1>3, <1>5, <1>8, <2>1, TokensLevel
<1>11. PICK x : x = Commit(st.fw.seq, draft, verify, d, d)
  OBVIOUS
<1>12. PlanInferenceSpeculative(drv, st, prev) = x
  BY <1>1, <1>2, <1>3, <1>4, <1>6, <1>8, <1>11
     DEF PlanInferenceSpeculative, Speculate, VerifyPhase
<1>13. PICK g : g = [verify.fw EXCEPT !.seq = Advanced(st.fw.seq, n)]
  OBVIOUS
<1>14. {"fw", "kv"} \subseteq DOMAIN x /\ x.fw = g
  BY <1>3, <1>11, <1>13 DEF Commit
<1>15. Advanced(st.fw.seq, n) = [ml \in ModelLayers(drv.m) |-> p + n]
  BY DEF OnLevel, AtPosition, Advanced
<1>16. AtPosition(drv.m, g, p + n)
  <2>1. "seq" \in DOMAIN verify.fw
    BY <1>9 DEF OnLevel, AtPosition
  <2>2. "seq" \in DOMAIN g /\ g.seq = Advanced(st.fw.seq, n)
    BY <1>13, <2>1
  <2> QED BY <1>15, <2>2 DEF AtPosition
<1>17. OnLevel(drv.m, x, p + n)
  BY <1>14, <1>16 DEF OnLevel
<1> QED BY <1>1, <1>2, <1>12, <1>14, <1>17

-----------------------------------------------------------------------------
(* Every model layer stays at the same position                            *)

LevelAt(p) == AtPosition(chassis.m, fw, p)

Level == IF caller = "firmware" THEN \E p \in Int : LevelAt(p) ELSE fw.state = "reset"

LEMMA PlansLevel ==
    ASSUME NEW s, Client(s), Client(s)', FirmwareTyped, NEW p \in Int, LevelAt(p), OnlyPlans
    PROVE  \E q \in Int : LevelAt(q)'
<1>1. PICK m : m = chassis.m /\ m.layers \in Nat /\ chassis'.m = m
  BY ClientIs DEF Client
<1>2. OnLevel(m, Now, p)
  BY <1>1 DEF LevelAt, OnLevel, Now
<1>3. ASSUME NEW st, Planned(st), NEW q \in Int, OnLevel(m, st, q) PROVE LevelAt(q)'
  BY <1>1, <1>3 DEF Planned, LevelAt, OnLevel
<1>4. CASE UNCHANGED <<fw, kv>>
  BY <1>1, <1>4 DEF LevelAt
<1>5. ASSUME NEW tokens, Len(tokens) \in Nat,
             \/ Planned(PlanAll(chassis, Now, tokens))
             \/ Planned(PlanInferenceChunked(chassis, Now, tokens))
      PROVE  \E q \in Int : LevelAt(q)'
  <2>1. PICK q \in Int : q = p + Len(tokens)
    BY <1>5
  <2>2. /\ OnLevel(m, PlanAll(chassis, Now, tokens), q)
        /\ OnLevel(m, PlanInferenceChunked(chassis, Now, tokens), q)
    BY <1>1, <1>2, <1>5, <2>1, TokensLevel, ChunksLevel
  <2>3. CASE Planned(PlanAll(chassis, Now, tokens))
    BY <1>3, <2>2, <2>3
  <2>4. CASE Planned(PlanInferenceChunked(chassis, Now, tokens))
    BY <1>3, <2>2, <2>4
  <2> QED BY <1>5, <2>3, <2>4
<1>6. ASSUME NEW token, Planned(PlanInference(chassis, Now, token))
      PROVE  \E q \in Int : LevelAt(q)'
  <2>1. p + 1 \in Int /\ OnLevel(m, PlanInference(chassis, Now, token), p + 1)
    BY <1>1, <1>2, TokenLevel
  <2> QED BY <1>3, <1>6, <2>1
<1>7. ASSUME NEW token, Planned(PlanInferenceSpeculative(chassis, Now, token))
      PROVE  \E q \in Int : LevelAt(q)'
  <2>1. PICK st : st = Now
    OBVIOUS
  <2>2. DraftCount(st.fw) \in Nat \ {0}
    BY <2>1 DEF Now, FirmwareTyped, FwIs, DraftCount
  <2>3. PICK q \in Int : q = p + DraftCount(st.fw)
    BY <2>2
  <2>4. OnLevel(m, PlanInferenceSpeculative(chassis, st, token), q)
    BY <1>1, <1>2, <2>1, <2>2, <2>3, DraftsLevel
  <2> QED BY <1>3, <1>7, <2>1, <2>4
<1> QED BY <1>4, <1>5, <1>6, <1>7 DEF OnlyPlans

LEMMA BootLevel ==
    ASSUME NEW s, Client(s), Client(s)', FirmwareTyped, NEW p, LevelAt(p), Boot \/ Configure
    PROVE  LevelAt(p)'
<1>1. chassis'.m = chassis.m
  BY DEF Client
<1>2. PICK seq : "seq" \in DOMAIN fw /\ fw.seq = seq
  BY DEF LevelAt, AtPosition
<1>3. ASSUME NEW r, NEW x
      PROVE  /\ AtPosition(chassis.m, [fw EXCEPT !.state = r], p)
             /\ AtPosition(chassis.m, [fw EXCEPT !.state = r, !.nodes = x], p)
             /\ AtPosition(chassis.m, [fw EXCEPT !.state = r, !.routing = x], p)
             /\ AtPosition(chassis.m, [fw EXCEPT !.state = r, !.weights = x], p)
             /\ AtPosition(chassis.m, [fw EXCEPT !.state = r, !.gating = x], p)
             /\ AtPosition(chassis.m, [fw EXCEPT !.chunk = r, !.draft = x], p)
  BY DEF LevelAt, AtPosition
<1>4. CASE Boot
  <2>1. PICK state : state = fw.state
    OBVIOUS
  <2>2. state \in {"reset", "post", "routing", "weights", "moe"} /\ fw' = BootPhase(chassis, fw)
    BY <1>4, <2>1 DEF Boot, FirmwareTyped, FwIs, FwStates
  <2>3. \E r, x : \/ fw' = [fw EXCEPT !.state = r]
                  \/ fw' = [fw EXCEPT !.state = r, !.nodes = x]
                  \/ fw' = [fw EXCEPT !.state = r, !.routing = x]
                  \/ fw' = [fw EXCEPT !.state = r, !.weights = x]
                  \/ fw' = [fw EXCEPT !.state = r, !.gating = x]
    <3>1. CASE state = "reset"
      <4>1. \E x : fw' = [fw EXCEPT !.state = "post", !.nodes = x]
        BY <2>1, <2>2, <3>1 DEF BootPhase
      <4> QED BY <4>1
    <3>2. CASE state = "post"
      <4>1. \E x : fw' = [fw EXCEPT !.state = "routing", !.routing = x]
        BY <2>1, <2>2, <3>2 DEF BootPhase
      <4> QED BY <4>1
    <3>3. CASE state = "routing"
      <4>1. \E x : fw' = [fw EXCEPT !.state = "weights", !.weights = x]
        BY <2>1, <2>2, <3>3 DEF BootPhase
      <4> QED BY <4>1
    <3>4. CASE state = "weights"
      <4>1. \E x : fw' = [fw EXCEPT !.state = "moe", !.gating = x]
        BY <2>1, <2>2, <3>4 DEF BootPhase
      <4> QED BY <4>1
    <3>5. CASE state = "moe"
      <4>1. fw' = [fw EXCEPT !.state = "ready"]
        BY <2>1, <2>2, <3>5 DEF BootPhase
      <4> QED BY <4>1
    <3> QED BY <2>2, <3>1, <3>2, <3>3, <3>4, <3>5
  <2>4. ASSUME NEW r, NEW x,
               \/ fw' = [fw EXCEPT !.state = r]
               \/ fw' = [fw EXCEPT !.state = r, !.nodes = x]
               \/ fw' = [fw EXCEPT !.state = r, !.routing = x]
               \/ fw' = [fw EXCEPT !.state = r, !.weights = x]
               \/ fw' = [fw EXCEPT !.state = r, !.gating = x]
        PROVE  AtPosition(chassis.m, fw', p)
    <3>1. CASE fw' = [fw EXCEPT !.state = r]
      BY <1>3, <3>1
    <3>2. CASE fw' = [fw EXCEPT !.state = r, !.nodes = x]
      BY <1>3, <3>2
    <3>3. CASE fw' = [fw EXCEPT !.state = r, !.routing = x]
      BY <1>3, <3>3
    <3>4. CASE fw' = [fw EXCEPT !.state = r, !.weights = x]
      BY <1>3, <3>4
    <3>5. CASE fw' = [fw EXCEPT !.state = r, !.gating = x]
      BY <1>3, <3>5
    <3> QED BY <2>4, <3>1, <3>2, <3>3, <3>4, <3>5
  <2> QED BY <1>1, <2>3, <2>4 DEF LevelAt
<1>5. CASE Configure
  <2>1. \E chunk, draft : fw' = [fw EXCEPT !.chunk = chunk, !.draft = draft]
    BY <1>5 DEF Configure
  <2>2. ASSUME NEW r, NEW x, fw' = [fw EXCEPT !.chunk = r, !.draft = x]
        PROVE  AtPosition(chassis.m, fw', p)
    BY <1>3, <2>2
  <2> QED BY <1>1, <2>1, <2>2 DEF LevelAt
<1> QED BY <1>4, <1>5

LEMMA LevelFirst == ServingInit => Level
<1>1. ASSUME KvInit, LLMIdle PROVE Level
  <2>1. caller # "firmware"
    BY <1>1, KvAssumption DEF KvInit
  <2> QED BY <1>1, <2>1 DEF Level, LLMIdle
<1>2. ASSUME LLMInit PROVE Level
  <2>1. PICK s \in LLMSetups : NewLLMClient(s.model, s.config, s.preload)
    BY <1>2 DEF LLMInit
  <2>2. chassis.m = s.model
    <3>1. PICK d : d = chassis
      OBVIOUS
    <3>2. d.m = s.model
      BY <2>1, <3>1 DEF NewLLMClient, NewDriver
    <3> QED BY <3>1, <3>2
  <2>3. "seq" \in DOMAIN fw /\ fw.seq = [ml \in ModelLayers(s.model) |-> 0]
    <3>1. fw = NewFirmware(s.model, Settings(s.config))
      BY <2>1 DEF NewLLMClient
    <3> QED BY <3>1 DEF NewFirmware
  <2>4. LevelAt(0)
    BY <2>2, <2>3 DEF LevelAt, AtPosition
  <2>5. caller = "firmware"
    BY <2>1 DEF NewLLMClient
  <2> QED BY <2>4, <2>5 DEF Level
<1> QED BY <1>1, <1>2 DEF ServingInit

LEMMA LevelNext == ClientInv /\ ServingTyped /\ Level /\ [ServingNext]_servingVars => Level'
<1> SUFFICES ASSUME ClientInv, ServingTyped, Level, [ServingNext]_servingVars PROVE Level'
  OBVIOUS
<1>1. caller' = caller
  BY CallerFixed DEF servingVars, kvVars
<1>2. CASE UNCHANGED llmVars
  BY <1>1, <1>2 DEF llmVars, Level, LevelAt
<1>3. CASE LLMNext /\ caller = "firmware"
  <2>a. PICK s : Client(s) /\ CallKept(s)
    BY <1>3 DEF ClientInv
  <2>b. PICK p \in Int : LevelAt(p)
    BY <1>3 DEF Level
  <2>1. Client(s) /\ CallKept(s) /\ LevelAt(p)
    BY <2>a, <2>b
  <2>2. Client(s)'
    BY <1>3, <2>1, ClientFixed
  <2>3. CacheTyped /\ FirmwareTyped /\ BatchTyped /\ CallTyped
    BY <1>3 DEF ServingTyped
  <2>4. Boot \/ Configure \/ Steady
    BY <1>3, <2>1, <2>3, LLMKeepsTypes
  <2>5. CASE Boot \/ Configure
    <3>1. LevelAt(p)'
      BY <2>1, <2>2, <2>3, <2>5, BootLevel
    <3> QED BY <1>1, <1>3, <3>1 DEF Level
  <2>6. CASE Steady
    <3>1. OnlyPlans
      BY <2>6 DEF Steady
    <3>2. \E q \in Int : LevelAt(q)'
      BY <2>1, <2>2, <2>3, <3>1, PlansLevel
    <3> QED BY <1>1, <1>3, <3>2 DEF Level
  <2> QED BY <2>4, <2>5, <2>6
<1>4. CASE LLMNext /\ caller # "firmware"
  BY <1>4, NoLLMStep DEF ClientInv
<1> QED BY <1>2, <1>3, <1>4 DEF ServingNext, servingVars

(* A token is planned for every model layer or for none, and the positions *)
(* of a draft are put back in every layer before it is verified            *)
(* (PlanInference and PlanInferenceSpeculative), for every model,          *)
(* configuration and sequence of calls: the first part of PositionsUniform.*)
THEOREM LayersKeepStep == ServingSpec => []LayersInStep
<1>1. Level /\ ClientInv => LayersInStep
  <2> SUFFICES ASSUME Level, ClientInv, fw.state = "ready", NEW ml \in ModelLayers(chassis.m)
               PROVE  fw.seq[ml] = fw.seq[0]
    BY DEF LayersInStep
  <2>1. caller = "firmware"
    BY DEF Level
  <2>2. PICK p \in Int : LevelAt(p)
    BY <2>1 DEF Level
  <2>3. PICK s : Client(s)
    BY <2>1 DEF ClientInv
  <2>4. PICK n \in Nat : n = chassis.m.layers
    BY <2>3, ClientIs
  <2>5. 0 \in ModelLayers(chassis.m)
    BY <2>4 DEF ModelLayers
  <2> QED BY <2>2, <2>5 DEF LevelAt, AtPosition
<1> QED BY <1>1, LevelFirst, LevelNext, ServingTypedFirst, ServingTypedNext, ClientInvFirst,
           ClientInvNext, PTL DEF ServingSpec

-----------------------------------------------------------------------------
(* Answers: what a request alone is answered, and the drafter's chain      *)

Ends(stops) == stops \cup {EOS}

DecodeOf(s, prompt, out) ==
  Sample(s.config,
         SimulateLogits(s.config, s.model.vocab, LastOf(prompt, out), Len(out), out),
         0 .. s.model.vocab - 1)

(* Every token is sampled after the ones before it.                        *)
Sampled(s, prompt, out) ==
  /\ Sequential(out)
  /\ \A n \in 1 .. Len(out) : out[n] = DecodeOf(s, prompt, SubSeq(out, 1, n - 1))

NoneEnds(out, m, ends) == \A n \in 1 .. m : out[n] \notin ends

(* An answer as far as it goes, and a whole one.                           *)
AnswerSoFar(s, prompt, ends, out) ==
  /\ Sampled(s, prompt, out) /\ Len(out) < s.config.max
  /\ NoneEnds(out, Len(out), ends)

AnswerWhole(s, prompt, ends, out) ==
  /\ Sampled(s, prompt, out) /\ Len(out) \in 1 .. s.config.max
  /\ NoneEnds(out, Len(out) - 1, ends)
  /\ Len(out) = s.config.max \/ out[Len(out)] \in ends

(* more is out with t behind it.                                           *)
OneLonger(out, t, more) ==
  /\ Sequential(more) /\ Len(out) \in Nat /\ Len(more) = Len(out) + 1
  /\ more[Len(more)] = t
  /\ \A n \in 1 .. Len(out) : more[n] = out[n]
  /\ \A n \in 0 .. Len(out) : SubSeq(more, 1, n) = SubSeq(out, 1, n)
  /\ SubSeq(out, 1, Len(out)) = out

LEMMA AppendIs ==
    ASSUME NEW out, Sequential(out), NEW t
    PROVE  OneLonger(out, t, Append(out, t))
<1>0. PICK more : more = Append(out, t)
  OBVIOUS
<1>1. PICK D : out \in Seq(D)
  BY DEF Sequential
<1>2. PICK E : E = D \cup {t}
  OBVIOUS
<1>3. out \in Seq(E) /\ t \in E
  BY <1>1, <1>2
<1>4. more \in Seq(E)
  BY <1>0, <1>3
<1>5. Len(out) \in Nat /\ Len(more) = Len(out) + 1 /\ more[Len(more)] = t
  BY <1>0, <1>3
<1>6. \A n \in 1 .. Len(out) : more[n] = out[n]
  BY <1>0, <1>3
<1>7. ASSUME NEW n \in 0 .. Len(out) PROVE SubSeq(more, 1, n) = SubSeq(out, 1, n)
  BY <1>3, <1>4, <1>5, <1>6
<1>8. SubSeq(out, 1, Len(out)) = out
  BY <1>1
<1> QED BY <1>0, <1>4, <1>5, <1>6, <1>7, <1>8 DEF Sequential, OneLonger

LEMMA AnswerGrows ==
    ASSUME NEW s, NEW prompt, NEW ends, NEW out, AnswerSoFar(s, prompt, ends, out),
           s.config.max \in Nat, NEW more, more = Append(out, DecodeOf(s, prompt, out))
    PROVE  IF DecodeOf(s, prompt, out) \in ends \/ Len(more) >= s.config.max
             THEN AnswerWhole(s, prompt, ends, more)
             ELSE AnswerSoFar(s, prompt, ends, more)
<1>1. PICK t : t = DecodeOf(s, prompt, out)
  OBVIOUS
<1>2. Sequential(out)
  BY DEF AnswerSoFar, Sampled
<1>3. /\ Sequential(more) /\ Len(out) \in Nat /\ Len(more) = Len(out) + 1
      /\ more[Len(more)] = t
      /\ \A n \in 1 .. Len(out) : more[n] = out[n]
      /\ \A n \in 0 .. Len(out) : SubSeq(more, 1, n) = SubSeq(out, 1, n)
      /\ SubSeq(out, 1, Len(out)) = out
  BY <1>1, <1>2, AppendIs DEF OneLonger
<1>4. ASSUME NEW n \in 1 .. Len(more) PROVE more[n] = DecodeOf(s, prompt, SubSeq(more, 1, n - 1))
  <2>1. CASE n = Len(more)
    <3>1. n - 1 = Len(out) /\ Len(out) \in 0 .. Len(out)
      BY <1>3, <2>1
    <3> QED BY <1>1, <1>3, <2>1, <3>1
  <2>2. CASE n # Len(more)
    <3>1. n \in 1 .. Len(out) /\ n - 1 \in 0 .. Len(out)
      BY <1>3, <2>2
    <3>2. out[n] = DecodeOf(s, prompt, SubSeq(out, 1, n - 1))
      BY <3>1 DEF AnswerSoFar, Sampled
    <3> QED BY <1>3, <3>1, <3>2
  <2> QED BY <2>1, <2>2
<1>5. Sampled(s, prompt, more)
  BY <1>3, <1>4 DEF Sampled
<1>6. Len(more) - 1 = Len(out) /\ Len(more) <= s.config.max /\ Len(more) \in 1 .. s.config.max
  BY <1>3 DEF AnswerSoFar
<1>7. NoneEnds(more, Len(out), ends)
  BY <1>3 DEF AnswerSoFar, NoneEnds
<1>8. CASE t \in ends \/ Len(more) >= s.config.max
  <2>1. Len(more) = s.config.max \/ more[Len(more)] \in ends
    BY <1>3, <1>6, <1>8
  <2>2. AnswerWhole(s, prompt, ends, more)
    BY <1>5, <1>6, <1>7, <2>1 DEF AnswerWhole
  <2> QED BY <1>1, <1>8, <2>2
<1>9. CASE ~(t \in ends \/ Len(more) >= s.config.max)
  <2>1. Len(more) < s.config.max
    BY <1>3, <1>9
  <2>2. NoneEnds(more, Len(more), ends)
    <3>1. ASSUME NEW n \in 1 .. Len(more) PROVE more[n] \notin ends
      <4>1. CASE n = Len(more)
        BY <1>3, <1>9, <4>1
      <4>2. CASE n # Len(more)
        <5>1. n \in 1 .. Len(out)
          BY <1>3, <4>2
        <5> QED BY <1>7, <5>1 DEF NoneEnds
      <4> QED BY <4>1, <4>2
    <3> QED BY <3>1 DEF NoneEnds
  <2>3. AnswerSoFar(s, prompt, ends, more)
    BY <1>5, <2>1, <2>2 DEF AnswerSoFar
  <2> QED BY <1>1, <1>9, <2>3
<1> QED BY <1>8, <1>9

(* The first end is the last token.                                        *)
LEMMA EndIs ==
    ASSUME NEW m \in Nat, NEW L \in 1 .. m, NEW T \in SUBSET (1 .. m), L \in T,
           \A n \in 1 .. L - 1 : n \notin T
    PROVE  Min(T) = L
<1>1. L \in T /\ \A y \in T : L <= y
  OBVIOUS
<1>2. T \in SUBSET Nat /\ T # {}
  OBVIOUS
<1>3. PICK x : x = Min(T)
  OBVIOUS
<1>4. x \in T /\ \A y \in T : x <= y
  BY <1>2, <1>3, MinIs
<1>5. x <= L /\ L <= x /\ x \in Nat
  BY <1>2, <1>4
<1> QED BY <1>3, <1>5

LEMMA AnswerIsAlone ==
    ASSUME NEW s, Client(s), NEW prompt, NEW stops, NEW out,
           AnswerWhole(s, prompt, Ends(stops), out)
    PROVE  out = Alone(prompt, stops)
<1>1. PICK N \in Nat : N = cfg.max /\ N # 0 /\ cfg = s.config
  BY ClientAssumption DEF Client
<1> DEFINE Eqn(c, m) == c = [n \in 0 .. m |-> IF n = 0 THEN <<>>
                                              ELSE Append(c[n - 1], Decode(prompt, c[n - 1], Tokens))]
           S == {m \in Nat : \E c : Eqn(c, m)}
<1>2. 0 \in S
  <2>1. PICK c : c = [i \in 0 .. 0 |-> <<>>]
    OBVIOUS
  <2>2. \A i \in 0 .. 0 : i = 0
    OBVIOUS
  <2>3. Eqn(c, 0)
    BY <2>1, <2>2
  <2> QED BY <2>3
<1>3. ASSUME NEW m \in Nat, m \in S PROVE m + 1 \in S
  <2>1. PICK c : Eqn(c, m)
    BY <1>3
  <2>2. PICK next : next = Append(c[m], Decode(prompt, c[m], Tokens))
    OBVIOUS
  <2>3. PICK g : g = [i \in 0 .. m + 1 |-> IF i = m + 1 THEN next ELSE c[i]]
    OBVIOUS
  <2>4. ASSUME NEW i \in 0 .. m + 1
        PROVE  g[i] = IF i = 0 THEN <<>> ELSE Append(g[i - 1], Decode(prompt, g[i - 1], Tokens))
    <3>1. CASE i = m + 1
      <4>1. i - 1 = m /\ i # 0 /\ m \in 0 .. m + 1 /\ m # m + 1
        BY <3>1
      <4>2. g[i - 1] = c[m] /\ g[i] = next
        BY <2>3, <3>1, <4>1
      <4> QED BY <2>2, <4>1, <4>2
    <3>2. CASE i # m + 1
      <4>1. i \in 0 .. m /\ g[i] = c[i]
        BY <2>3, <3>2
      <4>2. c[i] = IF i = 0 THEN <<>> ELSE Append(c[i - 1], Decode(prompt, c[i - 1], Tokens))
        BY <2>1, <4>1
      <4>3. i # 0 => g[i - 1] = c[i - 1]
        BY <2>3, <4>1
      <4> QED BY <4>1, <4>2, <4>3
    <3> QED BY <3>1, <3>2
  <2>5. Eqn(g, m + 1)
    BY <2>3, <2>4
  <2>6. m + 1 \in Nat
    OBVIOUS
  <2> QED BY <2>5, <2>6
<1> HIDE DEF S
<1>4. Nat \subseteq S
  BY <1>2, <1>3, SetInduction
<1>5. \E c : Eqn(c, N)
  BY <1>4 DEF S
<1> DEFINE c == CHOOSE c : Eqn(c, N)
<1>6. Eqn(c, N)
  BY <1>5
<1> DEFINE T(chain) == { n \in 1 .. N : n = N \/ chain[N][n] \in stops \cup {EOS} }
<1>7. Alone(prompt, stops) = SubSeq(c[N], 1, Min(T(c)))
  BY <1>1 DEF Alone
<1> HIDE DEF c
<1>8. PICK chain : chain = c
  OBVIOUS
<1>9. /\ chain[0] = <<>>
      /\ \A n \in 1 .. N : chain[n] = Append(chain[n - 1], Decode(prompt, chain[n - 1], Tokens))
  <2>1. \A n \in 0 .. N : chain[n] = IF n = 0 THEN <<>>
                                    ELSE Append(chain[n - 1], Decode(prompt, chain[n - 1], Tokens))
    BY <1>6, <1>8
  <2>2. 0 \in 0 .. N /\ \A n \in 1 .. N : n \in 0 .. N /\ n # 0
    OBVIOUS
  <2> QED BY <2>1, <2>2
<1>10. PICK L \in 1 .. N : L = Len(out)
  BY <1>1 DEF AnswerWhole
<1>11. ASSUME NEW x PROVE Decode(prompt, x, Tokens) = DecodeOf(s, prompt, x)
  BY DEF Decode, DecodeOf, LogitsOf, Tokens, Client
<1>12. PICK O : out \in Seq(O)
  BY DEF AnswerWhole, Sampled, Sequential
(* The chain runs through the beginnings of the answer.                    *)
<1> DEFINE A == {n \in Nat : n <= L => chain[n] = SubSeq(out, 1, n)}
<1>13. Nat \subseteq A
  <2>1. 0 \in A
    <3>1. SubSeq(out, 1, 0) = <<>>
      BY <1>12
    <3> QED BY <1>9, <3>1
  <2>2. ASSUME NEW n \in Nat, n \in A PROVE n + 1 \in A
    <3> SUFFICES ASSUME n + 1 <= L PROVE chain[n + 1] = SubSeq(out, 1, n + 1)
      OBVIOUS
    <3>1. n + 1 \in 1 .. N /\ n + 1 \in 1 .. L /\ (n + 1) - 1 = n /\ n <= L
      BY <1>10
    <3>2. chain[n] = SubSeq(out, 1, n)
      BY <2>2, <3>1
    <3>3. chain[n + 1] = Append(chain[n], DecodeOf(s, prompt, chain[n]))
      BY <1>9, <1>11, <3>1
    <3>4. out[n + 1] = DecodeOf(s, prompt, SubSeq(out, 1, n))
      BY <1>10, <3>1 DEF AnswerWhole, Sampled
    <3>5. Append(SubSeq(out, 1, n), out[n + 1]) = SubSeq(out, 1, n + 1)
      BY <1>10, <1>12, <3>1
    <3> QED BY <3>2, <3>3, <3>4, <3>5
  <2> HIDE DEF A
  <2> QED BY <2>1, <2>2, SetInduction
<1>14. chain[L] = out
  <2>1. L \in A
    BY <1>13
  <2>2. SubSeq(out, 1, L) = out
    BY <1>10, <1>12
  <2> QED BY <2>1, <2>2
(* The rest of the chain begins with the answer.                           *)
<1> DEFINE R == {i \in Nat : L + i <= N =>
                   /\ Sequential(chain[L + i]) /\ Len(chain[L + i]) = L + i
                   /\ SubSeq(chain[L + i], 1, L) = out}
<1> HIDE DEF A
<1>15. Nat \subseteq R
  <2>1. 0 \in R
    <3>1. L + 0 = L /\ SubSeq(out, 1, L) = out /\ Sequential(out)
      BY <1>10, <1>12 DEF Sequential
    <3> QED BY <1>10, <1>14, <3>1
  <2>2. ASSUME NEW i \in Nat, i \in R PROVE i + 1 \in R
    <3> SUFFICES ASSUME L + (i + 1) <= N
                 PROVE  /\ Sequential(chain[L + (i + 1)]) /\ Len(chain[L + (i + 1)]) = L + (i + 1)
                        /\ SubSeq(chain[L + (i + 1)], 1, L) = out
      OBVIOUS
    <3>1. PICK k \in 1 .. N : k = L + (i + 1) /\ k - 1 = L + i /\ L + i <= N
      OBVIOUS
    <3>2. PICK x : x = chain[L + i]
      OBVIOUS
    <3>3. Sequential(x) /\ Len(x) = L + i /\ SubSeq(x, 1, L) = out
      BY <2>2, <3>1, <3>2
    <3>4. PICK y : y = chain[k] /\ \E t : y = Append(x, t)
      BY <1>9, <3>1, <3>2
    <3>5. PICK t : y = Append(x, t)
      BY <3>4
    <3>6. Sequential(y) /\ Len(y) = Len(x) + 1 /\ \A n \in 0 .. Len(x) : SubSeq(y, 1, n) = SubSeq(x, 1, n)
      BY <3>3, <3>5, AppendIs DEF OneLonger
    <3>7. L \in 0 .. Len(x) /\ Len(x) + 1 = k
      BY <3>1, <3>3
    <3> QED BY <3>1, <3>3, <3>4, <3>6, <3>7
  <2> HIDE DEF R
  <2> QED BY <2>1, <2>2, SetInduction
<1>16. Sequential(chain[N]) /\ Len(chain[N]) = N /\ SubSeq(chain[N], 1, L) = out
  <2>1. PICK i \in Nat : L + i = N
    <3>1. N - L \in Nat /\ L + (N - L) = N
      OBVIOUS
    <3> QED BY <3>1
  <2>2. i \in R
    BY <1>15
  <2> QED BY <2>1, <2>2
<1>17. \A n \in 1 .. L : chain[N][n] = out[n]
  <2>1. PICK x, X : x = chain[N] /\ x \in Seq(X)
    BY <1>16 DEF Sequential
  <2>2. \A n \in 1 .. L : SubSeq(x, 1, L)[n] = x[n]
    BY <1>16, <2>1
  <2> QED BY <1>16, <2>1, <2>2
<1>18. Min(T(c)) = L
  <2>1. L \in T(c)
    BY <1>1, <1>8, <1>10, <1>17 DEF AnswerWhole, Ends
  <2>2. ASSUME NEW n \in 1 .. L - 1 PROVE n \notin T(c)
    <3>1. n # N /\ n \in 1 .. L
      OBVIOUS
    <3>2. out[n] \notin stops \cup {EOS}
      BY <1>10 DEF AnswerWhole, NoneEnds, Ends
    <3> QED BY <1>8, <1>17, <3>1, <3>2
  <2>3. T(c) \in SUBSET (1 .. N)
    OBVIOUS
  <2> HIDE DEF T
  <2> QED BY <2>1, <2>2, <2>3, EndIs
<1> QED BY <1>7, <1>8, <1>16, <1>18

(* The answer of speculative decoding: a chain of the drafter's tokens,    *)
(* whose step starts again with every round of d; r rounds have been made. *)
DraftedFrom(d, prompt, out) ==
  /\ Sequential(out)
  /\ \A n \in 1 .. Len(out) :
       out[n] = Draft(IF n = 1 THEN Last(prompt) ELSE out[n - 1], (n - 1) % d)

DraftSoFar(s, d, r, prompt, out) ==
  /\ DraftedFrom(d, prompt, out) /\ Len(out) < s.config.max /\ Len(out) = d * r
  /\ NoneEnds(out, Len(out), {EOS})

DraftWhole(s, d, r, prompt, out) ==
  /\ DraftedFrom(d, prompt, out) /\ Len(out) \in 1 .. s.config.max
  /\ Len(out) \in d * r - d + 1 .. d * r
  /\ NoneEnds(out, Len(out) - 1, {EOS})
  /\ Len(out) = s.config.max \/ out[Len(out)] = EOS

(* Two lists in a row.                                                     *)
InARow(a, b, all) ==
  /\ Sequential(all) /\ Len(all) = Len(a) + Len(b) /\ Len(a) \in Nat /\ Len(b) \in Nat
  /\ \A n \in 1 .. Len(a) : all[n] = a[n]
  /\ \A n \in 1 .. Len(b) : all[Len(a) + n] = b[n]

LEMMA RowIs ==
    ASSUME NEW a, NEW b, Sequential(a), Sequential(b)
    PROVE  InARow(a, b, a \o b)
<1>1. PICK A : a \in Seq(A)
  BY DEF Sequential
<1>2. PICK B : b \in Seq(B)
  BY DEF Sequential
<1>3. PICK C : C = A \cup B
  OBVIOUS
<1>4. a \in Seq(C) /\ b \in Seq(C)
  BY <1>1, <1>2, <1>3
<1>5. a \o b \in Seq(C)
  BY <1>4
<1>6. Sequential(a \o b)
  BY <1>5 DEF Sequential
<1>7. Len(a) \in Nat /\ Len(b) \in Nat /\ Len(a \o b) = Len(a) + Len(b)
  BY <1>4
<1>8. \A n \in 1 .. Len(a) : (a \o b)[n] = a[n]
  BY <1>4
<1>9. \A n \in 1 .. Len(b) : (a \o b)[Len(a) + n] = b[n]
  BY <1>4
<1> QED BY <1>6, <1>7, <1>8, <1>9 DEF InARow

LEMMA BeginningIs ==
    ASSUME NEW a, Sequential(a), NEW K \in 0 .. Len(a)
    PROVE  /\ Sequential(SubSeq(a, 1, K)) /\ Len(SubSeq(a, 1, K)) = K
           /\ \A n \in 1 .. K : SubSeq(a, 1, K)[n] = a[n]
           /\ K = Len(a) => SubSeq(a, 1, K) = a
<1>1. PICK A : a \in Seq(A)
  BY DEF Sequential
<1>2. SubSeq(a, 1, K) \in Seq(A)
  BY <1>1
<1>3. Sequential(SubSeq(a, 1, K))
  BY <1>2 DEF Sequential
<1>4. Len(SubSeq(a, 1, K)) = K /\ \A n \in 1 .. K : SubSeq(a, 1, K)[n] = a[n]
  BY <1>1
<1>5. K = Len(a) => SubSeq(a, 1, K) = a
  BY <1>1
<1> QED BY <1>3, <1>4, <1>5

LEMMA LastIsAt ==
    ASSUME NEW a, Sequential(a)
    PROVE  Last(a) = a[Len(a)] /\ (a = <<>> <=> Len(a) = 0)
<1>1. PICK A : a \in Seq(A)
  BY DEF Sequential
<1> QED BY <1>1 DEF Last

(* A round of drafting makes the chain longer by d.                        *)
LEMMA ChainGrows ==
    ASSUME NEW d \in Nat \ {0}, NEW r \in Nat, NEW prompt, NEW out, DraftedFrom(d, prompt, out),
           Len(out) = d * r, NEW tokens, Sequential(tokens),
           DraftChain(tokens, LastOf(prompt, out), d)
    PROVE  DraftedFrom(d, prompt, out \o tokens)
<1>1. Sequential(out)
  BY DEF DraftedFrom
<1>2. PICK all : all = out \o tokens /\ InARow(out, tokens, all)
  BY <1>1, RowIs
<1>3. PICK m \in Nat : m = Len(out) /\ m = d * r
  BY <1>2 DEF InARow
<1>4. Len(tokens) = d
  BY DEF DraftChain
<1>5. Sequential(all) /\ Len(all) = m + d
  BY <1>2, <1>3, <1>4 DEF InARow
<1>6. ASSUME NEW n \in 1 .. m PROVE all[n] = out[n]
  BY <1>2, <1>3 DEF InARow
<1>7. ASSUME NEW i \in 1 .. d PROVE all[m + i] = tokens[i]
  BY <1>2, <1>3, <1>4 DEF InARow
<1>8. ASSUME NEW n \in 1 .. m + d
      PROVE  all[n] = Draft(IF n = 1 THEN Last(prompt) ELSE all[n - 1], (n - 1) % d)
  <2>1. CASE n <= m
    <3>1. n \in 1 .. m /\ (n # 1 => n - 1 \in 1 .. m)
      BY <2>1
    <3>2. out[n] = Draft(IF n = 1 THEN Last(prompt) ELSE out[n - 1], (n - 1) % d)
      BY <1>3, <3>1 DEF DraftedFrom
    <3> QED BY <1>6, <3>1, <3>2
  <2>2. CASE n > m
    <3>1. PICK i \in 1 .. d : n = m + i
      <4>1. n - m \in 1 .. d /\ n = m + (n - m)
        BY <2>2
      <4> QED BY <4>1
    <3>2. all[n] = tokens[i]
      BY <1>7, <3>1
    <3>3. tokens[i] = Draft(IF i = 1 THEN LastOf(prompt, out) ELSE tokens[i - 1], i - 1)
      BY DEF DraftChain
    <3>4. (n - 1) % d = i - 1
      <4>1. i - 1 \in 0 .. d - 1
        OBVIOUS
      <4>2. (d * r + (i - 1)) % d = i - 1
        BY <4>1, DivModUnique
      <4>3. n - 1 = m + (i - 1)
        BY <3>1
      <4> QED BY <1>3, <4>2, <4>3
    <3>5. (IF i = 1 THEN LastOf(prompt, out) ELSE tokens[i - 1])
            = (IF n = 1 THEN Last(prompt) ELSE all[n - 1])
      <4>1. CASE i # 1
        <5>1. i - 1 \in 1 .. d /\ n - 1 = m + (i - 1) /\ n # 1
          BY <3>1, <4>1
        <5> QED BY <1>7, <4>1, <5>1
      <4>2. CASE i = 1 /\ m = 0
        <5>1. n = 1 /\ LastOf(prompt, out) = Last(prompt)
          BY <1>1, <1>3, <3>1, <4>2, LastIsAt DEF LastOf
        <5> QED BY <4>2, <5>1
      <4>3. CASE i = 1 /\ m # 0
        <5>1. LastOf(prompt, out) = out[m]
          BY <1>1, <1>3, <4>3, LastIsAt DEF LastOf
        <5>2. n - 1 = m /\ m \in 1 .. m /\ n # 1
          BY <3>1, <4>3
        <5> QED BY <1>6, <4>3, <5>1, <5>2
      <4> QED BY <4>1, <4>2, <4>3
    <3> QED BY <3>2, <3>3, <3>4, <3>5
  <2> QED BY <2>1, <2>2
<1> QED BY <1>2, <1>5, <1>8 DEF DraftedFrom

(* Where a round's tokens are cut: at the first end, if there is one.      *)
Cut(s, out, all, K) ==
  /\ K \in Len(out) + 1 .. Len(all)
  /\ \A n \in Len(out) + 1 .. K - 1 : all[n] # EOS /\ n < s.config.max
  /\ (all[K] = EOS \/ K >= s.config.max) \/ K = Len(all)

CutOff(s, out, all, next) == \E K : Cut(s, out, all, K) /\ next = SubSeq(all, 1, K)

LEMMA CutIs ==
    ASSUME NEW s, Client(s), NEW out, NEW tokens, Sequential(out), Sequential(tokens),
           Len(tokens) # 0
    PROVE  CutOff(s, out, out \o tokens, CutAt(out, tokens))
<1>1. PICK all : all = out \o tokens /\ InARow(out, tokens, all)
  BY RowIs
<1>2. PICK m \in Nat, k \in Nat : m = Len(out) /\ k = Len(tokens) /\ Len(all) = m + k /\ k # 0
  BY <1>1 DEF InARow
<1>3. PICK N \in Nat : N = cfg.max /\ N = s.config.max
  BY ClientAssumption DEF Client
<1>4. PICK stop : stop = { n \in m + 1 .. m + k : all[n] = EOS \/ n >= N }
  OBVIOUS
<1>5. CutAt(out, tokens) = IF stop = {} THEN all ELSE SubSeq(all, 1, Min(stop))
  BY <1>1, <1>2, <1>3, <1>4 DEF CutAt
<1>6. CASE stop = {}
  <2>1. \A n \in m + 1 .. m + k : all[n] # EOS /\ n < N
    BY <1>4, <1>6
  <2>2. Cut(s, out, all, m + k)
    BY <1>2, <1>3, <2>1 DEF Cut
  <2>3. SubSeq(all, 1, m + k) = all
    <3>1. Sequential(all) /\ m + k \in 0 .. Len(all) /\ m + k = Len(all)
      BY <1>1, <1>2 DEF InARow
    <3> QED BY <3>1, BeginningIs
  <2> QED BY <1>1, <1>5, <1>6, <2>2, <2>3 DEF CutOff
<1>7. CASE stop # {}
  <2>1. PICK K : K = Min(stop)
    OBVIOUS
  <2>2. stop \in SUBSET Nat
    BY <1>4
  <2>3. K \in stop /\ \A x \in stop : K <= x
    BY <1>7, <2>1, <2>2, MinIs
  <2>4. K \in m + 1 .. m + k /\ (all[K] = EOS \/ K >= N)
    BY <1>4, <2>3
  <2>5. ASSUME NEW n \in m + 1 .. K - 1 PROVE all[n] # EOS /\ n < N
    <3>1. n \notin stop
      BY <2>3, <2>4
    <3>2. n \in m + 1 .. m + k
      BY <2>4
    <3> QED BY <1>4, <3>1, <3>2
  <2>6. Cut(s, out, all, K)
    BY <1>2, <1>3, <2>4, <2>5 DEF Cut
  <2> QED BY <1>1, <1>5, <1>7, <2>1, <2>6 DEF CutOff
<1> QED BY <1>6, <1>7

LEMMA DraftGrows ==
    ASSUME NEW s, Client(s), NEW d \in Nat \ {0}, NEW r \in Nat, NEW prompt, NEW out,
           DraftSoFar(s, d, r, prompt, out), NEW tokens, Sequential(tokens),
           DraftChain(tokens, LastOf(prompt, out), d), NEW next, next = CutAt(out, tokens)
    PROVE  IF Last(next) = EOS \/ Len(next) >= cfg.max
             THEN DraftWhole(s, d, r + 1, prompt, next)
             ELSE DraftSoFar(s, d, r + 1, prompt, next)
<1>2. Sequential(out) /\ Len(out) = d * r /\ DraftedFrom(d, prompt, out)
  BY DEF DraftSoFar, DraftedFrom
<1>1. PICK all : all = out \o tokens /\ InARow(out, tokens, all)
  BY <1>2, RowIs
<1>3. Len(tokens) = d
  BY DEF DraftChain
<1>4. PICK m \in Nat : m = Len(out) /\ Len(all) = m + d /\ Sequential(all)
  BY <1>1, <1>2, <1>3 DEF InARow
<1>5. DraftedFrom(d, prompt, all)
  BY <1>1, <1>2, ChainGrows
<1>6. PICK N \in Nat : N = cfg.max /\ N = s.config.max
  BY ClientAssumption DEF Client
<1>7. PICK K : Cut(s, out, all, K) /\ next = SubSeq(all, 1, K)
  <2>1. CutOff(s, out, all, next)
    <3>1. Len(tokens) # 0
      BY <1>3
    <3> QED BY <1>1, <1>2, <3>1, CutIs
  <2> QED BY <2>1 DEF CutOff
<1>8. K \in m + 1 .. m + d /\ K \in 0 .. Len(all)
  BY <1>4, <1>7 DEF Cut
<1>9. Sequential(next) /\ Len(next) = K /\ \A n \in 1 .. K : next[n] = all[n]
  BY <1>4, <1>7, <1>8, BeginningIs
<1>10. DraftedFrom(d, prompt, next)
  <2>1. ASSUME NEW n \in 1 .. K
        PROVE  next[n] = Draft(IF n = 1 THEN Last(prompt) ELSE next[n - 1], (n - 1) % d)
    <3>1. n \in 1 .. Len(all) /\ (n # 1 => n - 1 \in 1 .. K)
      BY <1>4, <1>8
    <3>2. all[n] = Draft(IF n = 1 THEN Last(prompt) ELSE all[n - 1], (n - 1) % d)
      BY <1>5, <3>1 DEF DraftedFrom
    <3> QED BY <1>9, <3>1, <3>2
  <2> QED BY <1>9, <2>1 DEF DraftedFrom
<1>11. ASSUME NEW n \in 1 .. K - 1 PROVE next[n] # EOS /\ n < N
  <2>1. CASE n <= m
    <3>1. n \in 1 .. Len(out) /\ m < N
      BY <1>4, <1>6, <2>1 DEF DraftSoFar
    <3>2. out[n] # EOS
      BY <3>1 DEF DraftSoFar, NoneEnds
    <3>3. all[n] = out[n]
      BY <1>1, <3>1 DEF InARow
    <3> QED BY <1>8, <1>9, <2>1, <3>1, <3>2, <3>3
  <2>2. CASE n > m
    <3>1. n \in Len(out) + 1 .. K - 1
      BY <1>4, <1>8, <2>2
    <3>2. all[n] # EOS /\ n < N
      BY <1>6, <1>7, <3>1 DEF Cut
    <3> QED BY <1>8, <1>9, <3>2
  <2> QED BY <1>8, <2>1, <2>2
<1>12. d * (r + 1) = m + d /\ d * (r + 1) - d + 1 = m + 1
  BY <1>2, <1>4
<1>13. Last(next) = next[K]
  BY <1>9, LastIsAt
<1>14. NoneEnds(next, K - 1, {EOS})
  BY <1>11 DEF NoneEnds
<1>15. K <= N
  <2>1. K - 1 \in 1 .. K - 1 \/ K = 1
    BY <1>8
  <2>2. K = 1 => 0 = m /\ m < N
    BY <1>4, <1>6, <1>8 DEF DraftSoFar
  <2> QED BY <1>8, <1>11, <2>1, <2>2
<1>16. CASE Last(next) = EOS \/ Len(next) >= cfg.max
  <2>1. K = N \/ next[K] = EOS
    BY <1>6, <1>8, <1>9, <1>13, <1>15, <1>16
  <2>2. K \in 1 .. N /\ K \in d * (r + 1) - d + 1 .. d * (r + 1)
    BY <1>8, <1>12, <1>15
  <2>3. DraftWhole(s, d, r + 1, prompt, next)
    BY <1>6, <1>9, <1>10, <1>14, <2>1, <2>2 DEF DraftWhole
  <2> QED BY <1>16, <2>3
<1>17. CASE ~(Last(next) = EOS \/ Len(next) >= cfg.max)
  <2>1. K < N /\ next[K] # EOS
    BY <1>6, <1>8, <1>9, <1>13, <1>15, <1>17
  <2>2. K = m + d
    <3>1. next[K] = all[K]
      BY <1>8, <1>9
    <3> QED BY <1>4, <1>6, <1>7, <1>8, <2>1, <3>1 DEF Cut
  <2>3. NoneEnds(next, K, {EOS})
    BY <1>8, <1>11, <2>1 DEF NoneEnds
  <2>4. DraftSoFar(s, d, r + 1, prompt, next)
    BY <1>6, <1>9, <1>10, <1>12, <2>1, <2>2, <2>3 DEF DraftSoFar
  <2> QED BY <1>17, <2>4
<1> QED BY <1>16, <1>17

LEMMA DraftIsAlone ==
    ASSUME NEW s, Client(s), NEW d \in Nat \ {0}, d = DraftCount(fw), NEW r, NEW prompt, NEW out,
           DraftWhole(s, d, r, prompt, out)
    PROVE  out = AloneDrafted(prompt)
<1>1. PICK N \in Nat : N = cfg.max /\ N # 0 /\ cfg = s.config
  BY ClientAssumption DEF Client
<1> DEFINE Eqn(c, m) == c = [n \in 0 .. m |-> IF n = 0 THEN Last(prompt)
                                              ELSE Draft(c[n - 1], (n - 1) % d)]
           S == {m \in Nat : \E c : Eqn(c, m)}
<1>2. 0 \in S
  <2>1. PICK c : c = [i \in 0 .. 0 |-> Last(prompt)]
    OBVIOUS
  <2>2. \A i \in 0 .. 0 : i = 0
    OBVIOUS
  <2>3. Eqn(c, 0)
    BY <2>1, <2>2
  <2> QED BY <2>3
<1>3. ASSUME NEW m \in Nat, m \in S PROVE m + 1 \in S
  <2>1. PICK c : Eqn(c, m)
    BY <1>3
  <2>2. PICK next : next = Draft(c[m], m % d)
    OBVIOUS
  <2>3. PICK g : g = [i \in 0 .. m + 1 |-> IF i = m + 1 THEN next ELSE c[i]]
    OBVIOUS
  <2>4. ASSUME NEW i \in 0 .. m + 1
        PROVE  g[i] = IF i = 0 THEN Last(prompt) ELSE Draft(g[i - 1], (i - 1) % d)
    <3>1. CASE i = m + 1
      <4>1. i - 1 = m /\ i # 0 /\ m \in 0 .. m + 1 /\ m # m + 1
        BY <3>1
      <4>2. g[i - 1] = c[m] /\ g[i] = next
        BY <2>3, <3>1, <4>1
      <4> QED BY <2>2, <4>1, <4>2
    <3>2. CASE i # m + 1
      <4>1. i \in 0 .. m /\ g[i] = c[i]
        BY <2>3, <3>2
      <4>2. c[i] = IF i = 0 THEN Last(prompt) ELSE Draft(c[i - 1], (i - 1) % d)
        BY <2>1, <4>1
      <4>3. i # 0 => g[i - 1] = c[i - 1]
        BY <2>3, <4>1
      <4> QED BY <4>1, <4>2, <4>3
    <3> QED BY <3>1, <3>2
  <2>5. Eqn(g, m + 1)
    BY <2>3, <2>4
  <2>6. m + 1 \in Nat
    OBVIOUS
  <2> QED BY <2>5, <2>6
<1> HIDE DEF S
<1>4. Nat \subseteq S
  BY <1>2, <1>3, SetInduction
<1>5. \E c : Eqn(c, N)
  BY <1>4 DEF S
<1> DEFINE c == CHOOSE c : Eqn(c, N)
<1>6. Eqn(c, N)
  BY <1>5
<1> DEFINE T(chain) == { n \in 1 .. N : n = N \/ chain[n] = EOS }
<1>7. AloneDrafted(prompt) = [n \in 1 .. Min(T(c)) |-> c[n]]
  BY <1>1 DEF AloneDrafted
<1> HIDE DEF c
<1>8. PICK chain : chain = c
  OBVIOUS
<1>9. chain[0] = Last(prompt) /\ \A n \in 1 .. N : chain[n] = Draft(chain[n - 1], (n - 1) % d)
  <2>1. \A n \in 0 .. N : chain[n] = IF n = 0 THEN Last(prompt) ELSE Draft(chain[n - 1], (n - 1) % d)
    BY <1>6, <1>8
  <2>2. 0 \in 0 .. N /\ \A n \in 1 .. N : n \in 0 .. N /\ n # 0
    OBVIOUS
  <2> QED BY <2>1, <2>2
<1>10. PICK L \in 1 .. N : L = Len(out)
  BY <1>1 DEF DraftWhole
<1>12. PICK O : out \in Seq(O)
  BY DEF DraftWhole, DraftedFrom, Sequential
<1> DEFINE A == {n \in Nat : n \in 1 .. L => chain[n] = out[n]}
<1>13. Nat \subseteq A
  <2>1. 0 \in A
    OBVIOUS
  <2>2. ASSUME NEW n \in Nat, n \in A PROVE n + 1 \in A
    <3> SUFFICES ASSUME n + 1 <= L PROVE chain[n + 1] = out[n + 1]
      OBVIOUS
    <3>1. n + 1 \in 1 .. N /\ n + 1 \in 1 .. L /\ (n + 1) - 1 = n
      BY <1>10
    <3>2. chain[n + 1] = Draft(chain[n], n % d)
      BY <1>9, <3>1
    <3>3. out[n + 1] = Draft(IF n + 1 = 1 THEN Last(prompt) ELSE out[n], n % d)
      BY <1>10, <3>1 DEF DraftWhole, DraftedFrom
    <3>4. CASE n = 0
      BY <1>9, <3>2, <3>3, <3>4
    <3>5. CASE n # 0
      <4>1. n \in 1 .. L /\ n + 1 # 1
        BY <3>1, <3>5
      <4> QED BY <2>2, <3>2, <3>3, <4>1
    <3> QED BY <3>4, <3>5
  <2> HIDE DEF A
  <2> QED BY <2>1, <2>2, SetInduction
<1>14. \A n \in 1 .. L : chain[n] = out[n]
  BY <1>13
<1>18. Min(T(c)) = L
  <2>1. L \in T(c)
    BY <1>1, <1>8, <1>10, <1>14 DEF DraftWhole
  <2>2. ASSUME NEW n \in 1 .. L - 1 PROVE n \notin T(c)
    <3>1. n # N /\ n \in 1 .. L
      OBVIOUS
    <3>2. out[n] # EOS
      BY <1>10 DEF DraftWhole, NoneEnds
    <3> QED BY <1>8, <1>14, <3>1, <3>2
  <2>3. T(c) \in SUBSET (1 .. N)
    OBVIOUS
  <2> HIDE DEF T
  <2> QED BY <2>1, <2>2, <2>3, EndIs
<1>19. out = [n \in 1 .. L |-> out[n]]
  BY <1>10, <1>12
<1> QED BY <1>7, <1>8, <1>14, <1>18, <1>19

-----------------------------------------------------------------------------
(* What the calls that have returned were answered, and how far the call   *)
(* in progress and the requests of the batch have come                     *)

(* The tokens of a draft round when the firmware's draft length is d.      *)
Round(d) == IF d <= 0 THEN 1 ELSE d

Answered(s, d, h) ==
  /\ h.kind \in {"generate", "logprobs"} =>
       AnswerWhole(s, h.prompt, Ends(s.config.stops), h.out)
  /\ h.kind = "speculative" => \E r \in Nat : DraftWhole(s, Round(d), r, h.prompt, h.out)
  /\ h.kind = "batch" =>
       \A k \in 1 .. Len(h.prompt) : AnswerWhole(s, h.prompt[k], Ends({}), h.out[k])

AllAnswered(s, d, list) ==
  Sequential(list) /\ \A i \in 1 .. Len(list) : Answered(s, d, list[i])

(* The call in progress has said so much.                                  *)
Underway(s, d, c) ==
  /\ "kind" \in DOMAIN c
  /\ c.kind \in {"generate", "logprobs"} =>
       {"prompt", "out"} \subseteq DOMAIN c /\ AnswerSoFar(s, c.prompt, Ends(s.config.stops), c.out)
  /\ c.kind = "speculative" =>
       /\ {"prompt", "out"} \subseteq DOMAIN c
       /\ \E r \in Nat : DraftSoFar(s, Round(d), r, c.prompt, c.out)

(* A request of the batch: the ones that have finished are those served in *)
(* this pass, before the turn that comes next.                             *)
Requesting(s, next, r) ==
  /\ {"id", "prompt", "prefill", "out", "finished"} \subseteq DOMAIN r
  /\ r.id \in Nat /\ r.id < next
  /\ r.finished => AnswerWhole(s, r.prompt, Ends({}), r.out)
  /\ ~r.finished => AnswerSoFar(s, r.prompt, Ends({}), r.out)

Waiting(s, b, at) ==
  /\ {"reqs", "next"} \subseteq DOMAIN b /\ b.next \in Nat /\ Sequential(b.reqs)
  /\ \A i \in 1 .. Len(b.reqs) : Requesting(s, b.next, b.reqs[i]) /\ (b.reqs[i].finished => i < at)

Turn(c) == IF c.kind = "batch" THEN c.at ELSE 1

(* A request with a slot has the prompt of its slot, and a slot without a  *)
(* whole answer has a request that works on it.                            *)
Slotted(slot, prompt, r) ==
  r.id \in DOMAIN slot => slot[r.id] \in 1 .. Len(prompt) /\ r.prompt = prompt[slot[r.id]]

WorksOn(slot, k, r) == ~r.finished /\ r.id \in DOMAIN slot /\ slot[r.id] = k

Slots(s, reqs, c) ==
  /\ {"kind", "prompt", "at", "slot", "out"} \subseteq DOMAIN c /\ c.at \in Nat \ {0}
  /\ Len(c.prompt) \in Nat /\ DOMAIN c.out = 1 .. Len(c.prompt)
  /\ \A i \in 1 .. Len(reqs) : Slotted(c.slot, c.prompt, reqs[i])
  /\ \A k \in 1 .. Len(c.prompt) :
       \/ AnswerWhole(s, c.prompt[k], Ends({}), c.out[k])
       \/ \E i \in 1 .. Len(reqs) : WorksOn(c.slot, k, reqs[i])

Batched(s, b, c) ==
  Waiting(s, b, Turn(c)) /\ (c.kind = "batch" => Slots(s, b.reqs, c))

(* Before the client's configuration is applied nothing has been asked.    *)
Drafting(d) == IF call.kind = "boot" THEN history = <<>> ELSE FwIs(fw, "ready", d)

Answering(s, d) ==
  Drafting(d) /\ AllAnswered(s, d, history) /\ Underway(s, d, call) /\ Batched(s, batch, call)

AnswerInv ==
  IF caller = "firmware" THEN \E s : Client(s) /\ \E d \in Int : Answering(s, d)
                         ELSE history = <<>>

LEMMA HistoryGrows ==
    ASSUME NEW s, NEW d, NEW list, AllAnswered(s, d, list), NEW h, Answered(s, d, h)
    PROVE  AllAnswered(s, d, Append(list, h))
<1>1. PICK more : more = Append(list, h)
  OBVIOUS
<1>2. /\ Sequential(more) /\ Len(list) \in Nat /\ Len(more) = Len(list) + 1
      /\ more[Len(more)] = h /\ \A n \in 1 .. Len(list) : more[n] = list[n]
  BY <1>1, AppendIs DEF OneLonger, AllAnswered
<1>3. ASSUME NEW i \in 1 .. Len(more) PROVE Answered(s, d, more[i])
  <2>1. CASE i = Len(more)
    BY <1>2, <2>1
  <2>2. CASE i # Len(more)
    <3>1. i \in 1 .. Len(list)
      BY <1>2, <2>2
    <3> QED BY <1>2, <3>1 DEF AllAnswered
  <2> QED BY <2>1, <2>2
<1> QED BY <1>1, <1>2, <1>3 DEF AllAnswered

LEMMA OtherAnswered ==
    ASSUME NEW s, NEW d, NEW h, h.kind \notin {"generate", "logprobs", "speculative", "batch"}
    PROVE  Answered(s, d, h)
  BY DEF Answered

LEMMA OtherUnderway ==
    ASSUME NEW s, NEW d, NEW c, "kind" \in DOMAIN c,
           c.kind \notin {"generate", "logprobs", "speculative"}
    PROVE  Underway(s, d, c)
  BY DEF Underway

LEMMA FirstAnswer ==
    ASSUME NEW s, s.config.max \in Nat \ {0}, NEW prompt, NEW ends
    PROVE  AnswerSoFar(s, prompt, ends, <<>>)
<1>1. PICK out : out = <<>>
  OBVIOUS
<1>2. Sequential(out) /\ Len(out) = 0
  <2>1. out \in Seq({}) /\ Len(out) = 0
    BY <1>1
  <2> QED BY <2>1 DEF Sequential
<1>3. AnswerSoFar(s, prompt, ends, out)
  BY <1>2 DEF AnswerSoFar, Sampled, NoneEnds
<1> QED BY <1>1, <1>3

LEMMA FirstDraft ==
    ASSUME NEW s, s.config.max \in Nat \ {0}, NEW d \in Nat, NEW prompt
    PROVE  \E r \in Nat : DraftSoFar(s, d, r, prompt, <<>>)
<1>1. PICK out : out = <<>>
  OBVIOUS
<1>2. Sequential(out) /\ Len(out) = 0
  <2>1. out \in Seq({}) /\ Len(out) = 0
    BY <1>1
  <2> QED BY <2>1 DEF Sequential
<1>3. d * 0 = 0
  OBVIOUS
<1>4. DraftSoFar(s, d, 0, prompt, out)
  BY <1>2, <1>3 DEF DraftSoFar, DraftedFrom, NoneEnds
<1> QED BY <1>1, <1>4

LEMMA ClientDecodes ==
    ASSUME NEW s, Client(s), NEW prompt, NEW out
    PROVE  Decode(prompt, out, Tokens) = DecodeOf(s, prompt, out)
  BY DEF Decode, DecodeOf, LogitsOf, Tokens, Client

(* A call that leaves the batch alone.                                     *)
LEMMA BatchLeft ==
    ASSUME NEW s, NEW b, NEW c, NEW e, Batched(s, b, c), c.kind # "batch", e.kind # "batch"
    PROVE  Batched(s, b, e)
  BY DEF Batched, Turn

(* A new call but a batch.                                                 *)
LEMMA BeginAnswers ==
    ASSUME NEW s, Client(s), NEW d \in Int, Answering(s, d), NEW prompt,
           \/ BeginGenerate(prompt)
           \/ BeginSpeculative(prompt)
           \/ BeginLogprobs(prompt)
           \/ BeginBeamSearch(prompt)
           \/ \E pattern \in Patterns : BeginStructured(prompt, pattern)
    PROVE  /\ call.kind # "boot" /\ call'.kind # "boot"
           /\ AllAnswered(s, d, history') /\ Underway(s, d, call') /\ Batched(s, batch', call')
<1>1. call.kind = "none"
  <2>1. call = NoCall
    BY DEF BeginGenerate, BeginSpeculative, BeginLogprobs, BeginBeamSearch, BeginStructured,
       Prefilled, Idle
  <2> QED BY <2>1 DEF NoCall
<1>2. history' = history /\ batch' = batch
  BY DEF BeginGenerate, BeginSpeculative, BeginLogprobs, BeginBeamSearch, BeginStructured, Prefilled
<1>3. s.config.max \in Nat \ {0} /\ Round(d) \in Nat
  BY ClientAssumption DEF Client, Round
<1>4. \/ call' = [kind |-> "generate", prompt |-> prompt, out |-> <<>>]
      \/ call' = [kind |-> "speculative", prompt |-> prompt, out |-> <<>>]
      \/ call' = [kind |-> "logprobs", prompt |-> prompt, out |-> <<>>, entries |-> <<>>]
      \/ "kind" \in DOMAIN call' /\ call'.kind \in {"beam", "structured"}
  <2>1. CASE BeginGenerate(prompt)
    BY <2>1 DEF BeginGenerate
  <2>2. CASE BeginSpeculative(prompt)
    BY <2>2 DEF BeginSpeculative, Prefilled
  <2>3. CASE BeginLogprobs(prompt)
    BY <2>3 DEF BeginLogprobs, Prefilled
  <2>4. CASE BeginBeamSearch(prompt)
    <3>1. PICK c, beams : /\ c = call'
                          /\ c = [kind |-> "beam", prompt |-> prompt, out |-> <<>>, step |-> 0,
                                  beams |-> beams]
      BY <2>4 DEF BeginBeamSearch, Prefilled
    <3> QED BY <3>1
  <2>5. CASE \E pattern \in Patterns : BeginStructured(prompt, pattern)
    <3>1. PICK c, pattern, fsm :
            /\ c = call'
            /\ c = [kind |-> "structured", prompt |-> prompt, out |-> <<>>,
                    pattern |-> pattern, fsm |-> fsm]
      BY <2>5 DEF BeginStructured, Prefilled
    <3> QED BY <3>1
  <2> QED BY <2>1, <2>2, <2>3, <2>4, <2>5
<1>5. ASSUME NEW c, {"kind", "prompt", "out"} \subseteq DOMAIN c, c.prompt = prompt, c.out = <<>>,
             c.kind \in {"generate", "logprobs", "speculative"}
      PROVE  Underway(s, d, c)
  <2>1. AnswerSoFar(s, c.prompt, Ends(s.config.stops), c.out)
    BY <1>3, <1>5, FirstAnswer
  <2>2. \E r \in Nat : DraftSoFar(s, Round(d), r, c.prompt, c.out)
    BY <1>3, <1>5, FirstDraft
  <2> QED BY <1>5, <2>1, <2>2 DEF Underway
<1>6. /\ "kind" \in DOMAIN call' /\ call'.kind \notin {"boot", "batch"}
      /\ call'.kind \in {"generate", "logprobs", "speculative"} =>
           /\ {"kind", "prompt", "out"} \subseteq DOMAIN call'
           /\ call'.prompt = prompt /\ call'.out = <<>>
  <2>1. PICK c : c = call'
    OBVIOUS
  <2> QED BY <1>4, <2>1
<1>7. Underway(s, d, call')
  <2>1. PICK c : c = call'
    OBVIOUS
  <2> QED BY <1>5, <1>6, <2>1, OtherUnderway
<1>8. Batched(s, batch', call')
  <2>1. PICK c, e, b : c = call /\ e = call' /\ b = batch
    OBVIOUS
  <2>2. Batched(s, b, e)
    BY <1>1, <1>6, <2>1, BatchLeft DEF Answering
  <2> QED BY <1>2, <2>1, <2>2
<1>9. AllAnswered(s, d, history')
  BY <1>2 DEF Answering
<1> QED BY <1>1, <1>6, <1>7, <1>8, <1>9

LEMMA PanicAnswers ==
    ASSUME NEW s, NEW d, Answering(s, d), NEW pattern, StructuredPanics(pattern)
    PROVE  /\ call.kind # "boot" /\ call'.kind # "boot"
           /\ AllAnswered(s, d, history') /\ Underway(s, d, call') /\ Batched(s, batch', call')
<1>1. PICK c, e, b : c = call /\ e = call' /\ b = batch
  OBVIOUS
<1>2. c.kind = "none"
  <2>1. call = NoCall
    BY DEF StructuredPanics, Idle
  <2> QED BY <1>1, <2>1 DEF NoCall
<1>3. e = [kind |-> "panicked", pattern |-> pattern] /\ history' = history /\ batch' = batch
  BY <1>1 DEF StructuredPanics
<1>4. "kind" \in DOMAIN e /\ e.kind = "panicked"
  BY <1>3
<1>5. Underway(s, d, e)
  BY <1>4, OtherUnderway
<1>6. Batched(s, b, e)
  BY <1>1, <1>2, <1>4, BatchLeft DEF Answering
<1>7. AllAnswered(s, d, history')
  BY <1>3 DEF Answering
<1> QED BY <1>1, <1>2, <1>3, <1>4, <1>5, <1>6, <1>7

(* A call that returns with h, and one that goes on as c, leave the batch. *)
LEMMA PassAnswers ==
    ASSUME NEW s, NEW d, Answering(s, d), call.kind \notin {"boot", "batch"}, batch' = batch,
           \/ /\ call' = NoCall
              /\ \E h : history' = Append(history, h) /\ Answered(s, d, h)
           \/ history' = history /\ Underway(s, d, call') /\ call'.kind = call.kind
    PROVE  /\ call'.kind # "boot" /\ AllAnswered(s, d, history') /\ Underway(s, d, call')
           /\ Batched(s, batch', call')
<1>1. PICK c, e, b : c = call /\ e = call' /\ b = batch
  OBVIOUS
<1>2. e.kind \notin {"boot", "batch"}
  BY <1>1 DEF NoCall
<1>3. Underway(s, d, e)
  <2>1. ASSUME e = NoCall PROVE Underway(s, d, e)
    <3>1. "kind" \in DOMAIN e /\ e.kind = "none"
      BY <2>1 DEF NoCall
    <3> QED BY <3>1, OtherUnderway
  <2> QED BY <1>1, <2>1
<1>4. Batched(s, b, e)
  BY <1>1, <1>2, BatchLeft DEF Answering
<1>5. AllAnswered(s, d, history')
  <2>1. AllAnswered(s, d, history)
    BY DEF Answering
  <2>2. ASSUME NEW h, history' = Append(history, h), Answered(s, d, h)
        PROVE  AllAnswered(s, d, history')
    <3>1. PICK list : list = history
      OBVIOUS
    <3>2. AllAnswered(s, d, Append(list, h))
      BY <2>1, <2>2, <3>1, HistoryGrows
    <3> QED BY <2>2, <3>1, <3>2
  <2> QED BY <2>1, <2>2
<1> QED BY <1>1, <1>2, <1>3, <1>4, <1>5

LEMMA GenerateAnswers ==
    ASSUME NEW s, Client(s), NEW d, Answering(s, d), GenerateStep
    PROVE  /\ call.kind # "boot" /\ call'.kind # "boot"
           /\ AllAnswered(s, d, history') /\ Underway(s, d, call') /\ Batched(s, batch', call')
<1>1. call.kind \in {"generate", "logprobs"} /\ batch' = batch
  BY DEF GenerateStep
<1>2. PICK prompt, out, ends : prompt = call.prompt /\ out = call.out /\ ends = Ends(s.config.stops)
  OBVIOUS
<1>3. {"kind", "prompt", "out"} \subseteq DOMAIN call /\ AnswerSoFar(s, prompt, ends, out)
  BY <1>1, <1>2 DEF Answering, Underway
<1>4. PICK t : t = DecodeOf(s, prompt, out) /\ t = Decode(call.prompt, call.out, Tokens)
  BY <1>2, ClientDecodes
<1>5. PICK more : more = Append(out, t)
  OBVIOUS
<1>6. cfg.max = s.config.max /\ s.config.max \in Nat /\ (IsStopToken(cfg, t) <=> t \in s.config.stops)
  BY ClientAssumption DEF Client, IsStopToken
<1>7. PICK next : /\ \/ next = [call EXCEPT !.out = more]
                     \/ \E entries : next = [call EXCEPT !.out = more, !.entries = entries]
                  /\ IF t = EOS \/ IsStopToken(cfg, t) \/ Len(more) >= cfg.max
                       THEN call' = NoCall /\ history' = Append(history, next)
                       ELSE call' = next /\ UNCHANGED history
  BY <1>2, <1>4, <1>5, Zenon DEF GenerateStep
<1>8. /\ {"kind", "prompt", "out"} \subseteq DOMAIN next
      /\ next.kind = call.kind /\ next.prompt = prompt /\ next.out = more
  <2>1. PICK n : n = [call EXCEPT !.out = more]
    OBVIOUS
  <2>2. /\ {"kind", "prompt", "out"} \subseteq DOMAIN n
        /\ n.kind = call.kind /\ n.prompt = prompt /\ n.out = more
    BY <1>2, <1>3, <2>1
  <2>3. ASSUME NEW entries, next = [call EXCEPT !.out = more, !.entries = entries]
        PROVE  /\ {"kind", "prompt", "out"} \subseteq DOMAIN next
               /\ next.kind = call.kind /\ next.prompt = prompt /\ next.out = more
    <3>1. next = [n EXCEPT !.entries = entries]
      BY <2>1, <2>3, Zenon
    <3> QED BY <2>2, <3>1
  <2> QED BY <1>7, <2>1, <2>2, <2>3
<1>a. IF t \in ends \/ Len(more) >= s.config.max
        THEN AnswerWhole(s, prompt, ends, more) ELSE AnswerSoFar(s, prompt, ends, more)
  <2>1. AnswerSoFar(s, prompt, ends, out) /\ s.config.max \in Nat
    BY <1>3, <1>6
  <2>2. more = Append(out, DecodeOf(s, prompt, out))
    BY <1>4, <1>5
  <2>3. PICK a : a = DecodeOf(s, prompt, out)
    OBVIOUS
  <2>4. IF a \in ends \/ Len(more) >= s.config.max
          THEN AnswerWhole(s, prompt, ends, more) ELSE AnswerSoFar(s, prompt, ends, more)
    BY <2>1, <2>2, <2>3, AnswerGrows, Zenon
  <2> QED BY <1>4, <2>3, <2>4
<1>9. CASE t \in ends \/ Len(more) >= s.config.max
  <2>1. AnswerWhole(s, prompt, ends, more)
    BY <1>9, <1>a
  <2>2. Answered(s, d, next)
    BY <1>1, <1>2, <1>8, <2>1 DEF Answered
  <2>3. call' = NoCall /\ history' = Append(history, next)
    BY <1>2, <1>6, <1>7, <1>9 DEF Ends
  <2> QED BY <1>1, <2>2, <2>3, PassAnswers
<1>10. CASE ~(t \in ends \/ Len(more) >= s.config.max)
  <2>1. AnswerSoFar(s, prompt, ends, more)
    BY <1>10, <1>a
  <2>2. Underway(s, d, next)
    BY <1>1, <1>2, <1>8, <2>1 DEF Underway
  <2>3. call' = next /\ history' = history
    BY <1>2, <1>6, <1>7, <1>10 DEF Ends
  <2> QED BY <1>1, <1>8, <2>2, <2>3, PassAnswers
<1> QED BY <1>9, <1>10

LEMMA SpeculativeAnswers ==
    ASSUME NEW s, Client(s), NEW d \in Int, Answering(s, d), SpeculativeStep
    PROVE  /\ call.kind # "boot" /\ call'.kind # "boot"
           /\ AllAnswered(s, d, history') /\ Underway(s, d, call') /\ Batched(s, batch', call')
<1>1. call.kind = "speculative" /\ batch' = batch
  BY DEF SpeculativeStep
<1>2. PICK prompt, out : prompt = call.prompt /\ out = call.out
  OBVIOUS
<1>3. {"kind", "prompt", "out"} \subseteq DOMAIN call
  BY <1>1 DEF Answering, Underway
<1>4. PICK r \in Nat : DraftSoFar(s, Round(d), r, prompt, out)
  BY <1>1, <1>2 DEF Answering, Underway
<1>5. PICK st : st = Now /\ DraftCount(st.fw) = Round(d) /\ Round(d) \in Nat \ {0}
  <2>1. FwIs(fw, "ready", d)
    BY <1>1 DEF Answering, Drafting
  <2>2. DraftCount(fw) = Round(d) /\ Round(d) \in Nat \ {0}
    BY <2>1 DEF FwIs, DraftCount, Round
  <2>3. Now.fw = fw
    BY DEF Now
  <2> QED BY <2>2, <2>3
<1>6. PICK p : p = PlanInferenceSpeculative(chassis, st, LastOf(prompt, out))
  OBVIOUS
<1>7. PICK tokens : tokens = p.tokens /\ Sequential(tokens)
                    /\ DraftChain(tokens, LastOf(prompt, out), Round(d))
  <2>1. PICK e, D : /\ e \in Seq(D) /\ DraftChain(e, LastOf(prompt, out), DraftCount(st.fw))
                    /\ PlanInferenceSpeculative(chassis, st, LastOf(prompt, out)).tokens = e
    BY <1>5, DraftTokens
  <2> QED BY <1>5, <1>6, <2>1 DEF Sequential
<1>8. PICK more : more = CutAt(out, tokens)
  OBVIOUS
<1>9. IF Last(more) = EOS \/ Len(more) >= cfg.max
        THEN Return(more) ELSE call' = [call EXCEPT !.out = more] /\ UNCHANGED history
  BY <1>2, <1>5, <1>6, <1>7, <1>8 DEF SpeculativeStep
<1>10. PICK next : next = [call EXCEPT !.out = more]
  OBVIOUS
<1>11. /\ {"kind", "prompt", "out"} \subseteq DOMAIN next
       /\ next.kind = "speculative" /\ next.prompt = prompt /\ next.out = more
  BY <1>1, <1>2, <1>3, <1>10
<1>12. CASE Last(more) = EOS \/ Len(more) >= cfg.max
  <2>1. DraftWhole(s, Round(d), r + 1, prompt, more)
    BY <1>4, <1>5, <1>7, <1>8, <1>12, DraftGrows
  <2>2. Answered(s, d, next)
    BY <1>11, <2>1 DEF Answered
  <2>3. call' = NoCall /\ history' = Append(history, next)
    BY <1>9, <1>10, <1>12 DEF Return
  <2> QED BY <1>1, <2>2, <2>3, PassAnswers
<1>13. CASE ~(Last(more) = EOS \/ Len(more) >= cfg.max)
  <2>1. DraftSoFar(s, Round(d), r + 1, prompt, more)
    BY <1>4, <1>5, <1>7, <1>8, <1>13, DraftGrows
  <2>2. Underway(s, d, next)
    BY <1>11, <2>1 DEF Underway
  <2>3. call' = next /\ history' = history
    BY <1>9, <1>10, <1>13
  <2> QED BY <1>1, <1>11, <2>2, <2>3, PassAnswers
<1> QED BY <1>12, <1>13

(* A structured generation and a beam search answer nothing that is        *)
(* compared with a request alone.                                          *)
LEMMA OtherAnswers ==
    ASSUME NEW s, NEW d, Answering(s, d), StructuredStep \/ BeamStep
    PROVE  /\ call.kind # "boot" /\ call'.kind # "boot"
           /\ AllAnswered(s, d, history') /\ Underway(s, d, call') /\ Batched(s, batch', call')
<1>1. call.kind \in {"structured", "beam"} /\ batch' = batch
  BY DEF StructuredStep, BeamStep
<1>2. PICK c : c = call /\ "kind" \in DOMAIN c
  BY DEF Answering, Underway
<1>3. \/ \E out : Return(out)
      \/ /\ history' = history
         /\ \/ \E out, fsm : call' = [call EXCEPT !.out = out, !.fsm = fsm]
            \/ \E beams, step : call' = [call EXCEPT !.beams = beams, !.step = step]
  <2>1. CASE StructuredStep
    BY <2>1, Zenon DEF StructuredStep
  <2>2. CASE BeamStep
    BY <2>2, Zenon DEF BeamStep
  <2> QED BY <2>1, <2>2
<1>4. ASSUME NEW out, Return(out)
      PROVE  call' = NoCall /\ \E h : history' = Append(history, h) /\ Answered(s, d, h)
  <2>1. PICK h : h = [c EXCEPT !.out = out]
    OBVIOUS
  <2>2. h.kind = c.kind
    BY <1>2, <2>1
  <2>3. Answered(s, d, h)
    BY <1>1, <1>2, <2>2, OtherAnswered
  <2> QED BY <1>2, <1>4, <2>1, <2>3 DEF Return
<1>5. ASSUME NEW x, NEW y, \/ call' = [call EXCEPT !.out = x, !.fsm = y]
                           \/ call' = [call EXCEPT !.beams = x, !.step = y]
      PROVE  call'.kind = call.kind /\ Underway(s, d, call')
  <2>1. PICK e : e = call'
    OBVIOUS
  <2>2. "kind" \in DOMAIN e /\ e.kind = c.kind
    <3>1. CASE call' = [call EXCEPT !.out = x, !.fsm = y]
      <4>1. PICK a : a = [c EXCEPT !.out = x]
        OBVIOUS
      <4>2. e = [a EXCEPT !.fsm = y]
        BY <1>2, <2>1, <3>1, <4>1, Zenon
      <4>3. "kind" \in DOMAIN a /\ a.kind = c.kind
        BY <1>2, <4>1
      <4> QED BY <4>2, <4>3
    <3>2. CASE call' = [call EXCEPT !.beams = x, !.step = y]
      <4>1. PICK a : a = [c EXCEPT !.beams = x]
        OBVIOUS
      <4>2. e = [a EXCEPT !.step = y]
        BY <1>2, <2>1, <3>2, <4>1, Zenon
      <4>3. "kind" \in DOMAIN a /\ a.kind = c.kind
        BY <1>2, <4>1
      <4> QED BY <4>2, <4>3
    <3> QED BY <1>5, <3>1, <3>2
  <2>3. Underway(s, d, e)
    BY <1>1, <1>2, <2>2, OtherUnderway
  <2> QED BY <1>2, <2>1, <2>2, <2>3
<1> QED BY <1>1, <1>3, <1>4, <1>5, PassAnswers

(* The requests that are left after a pass.                                *)
Gathered(x, ts, set, m) ==
  /\ Sequential(x)
  /\ \A i \in 1 .. m : ts[i] \in set => \E j \in 1 .. Len(x) : x[j] = ts[i]
  /\ \A j \in 1 .. Len(x) : \E i \in 1 .. m : ts[i] \in set /\ x[j] = ts[i]

LEMMA GatherOne ==
    ASSUME NEW x, NEW ts, NEW set, NEW m \in Nat, Gathered(x, ts, set, m),
           NEW y, y = x \o (IF ts[m + 1] \in set THEN <<ts[m + 1]>> ELSE <<>>)
    PROVE  Gathered(y, ts, set, m + 1)
<1>1. PICK one : one = IF ts[m + 1] \in set THEN <<ts[m + 1]>> ELSE <<>>
  OBVIOUS
<1>2. PICK t : t = ts[m + 1]
  OBVIOUS
<1>3. Sequential(one) /\ Len(one) \in {0, 1} /\ (t \in set <=> Len(one) = 1)
      /\ (Len(one) = 1 => one[1] = t)
  <2>1. CASE t \in set
    <3>1. one \in Seq({t}) /\ Len(one) = 1 /\ one[1] = t
      BY <1>1, <1>2, <2>1
    <3> QED BY <2>1, <3>1 DEF Sequential
  <2>2. CASE t \notin set
    <3>1. one \in Seq({}) /\ Len(one) = 0
      BY <1>1, <1>2, <2>2
    <3> QED BY <2>2, <3>1 DEF Sequential
  <2> QED BY <2>1, <2>2
<1>4. InARow(x, one, y)
  BY <1>1, <1>3, RowIs DEF Gathered
<1>5. PICK k \in Nat : k = Len(x) /\ Len(y) = k + Len(one)
  BY <1>4 DEF InARow
<1>6. /\ \A j \in 1 .. k : y[j] = x[j]
      /\ \A j \in 1 .. Len(one) : y[k + j] = one[j]
  BY <1>4, <1>5 DEF InARow
<1>7. ASSUME NEW i \in 1 .. m + 1, ts[i] \in set PROVE \E j \in 1 .. Len(y) : y[j] = ts[i]
  <2>1. CASE i = m + 1
    <3>1. Len(one) = 1 /\ one[1] = t
      BY <1>2, <1>3, <1>7, <2>1
    <3>2. y[k + 1] = t /\ k + 1 \in 1 .. Len(y)
      BY <1>5, <1>6, <3>1
    <3> QED BY <1>2, <2>1, <3>2
  <2>2. CASE i # m + 1
    <3>1. i \in 1 .. m
      BY <2>2
    <3>2. PICK j \in 1 .. k : x[j] = ts[i]
      BY <1>5, <1>7, <3>1 DEF Gathered
    <3>3. j \in 1 .. Len(y) /\ y[j] = ts[i]
      BY <1>3, <1>5, <1>6, <3>2
    <3> QED BY <3>3
  <2> QED BY <2>1, <2>2
<1>8. ASSUME NEW j \in 1 .. Len(y) PROVE \E i \in 1 .. m + 1 : ts[i] \in set /\ y[j] = ts[i]
  <2>1. CASE j <= k
    <3>1. j \in 1 .. Len(x) /\ y[j] = x[j]
      BY <1>5, <1>6, <2>1
    <3>2. PICK i \in 1 .. m : ts[i] \in set /\ x[j] = ts[i]
      BY <3>1 DEF Gathered
    <3>3. i \in 1 .. m + 1
      OBVIOUS
    <3> QED BY <3>1, <3>2, <3>3
  <2>2. CASE j > k
    <3>1. Len(one) = 1 /\ j = k + 1
      BY <1>3, <1>5, <2>2
    <3>2. y[j] = t /\ t \in set
      BY <1>3, <1>6, <3>1
    <3>3. m + 1 \in 1 .. m + 1
      OBVIOUS
    <3> QED BY <1>2, <3>2, <3>3
  <2> QED BY <1>5, <2>1, <2>2
<1>9. Sequential(y)
  BY <1>4 DEF InARow
<1> QED BY <1>7, <1>8, <1>9 DEF Gathered

LEMMA AmongGathers ==
    ASSUME NEW D, NEW ts \in Seq(D), NEW set
    PROVE  Gathered(Among(ts, set), ts, set, Len(ts))
<1>1. PICK n \in Nat : n = Len(ts) /\ DOMAIN ts = 1 .. n
  OBVIOUS
<1>2. PICK p : p = [i \in DOMAIN ts |-> IF ts[i] \in set THEN <<ts[i]>> ELSE <<>>]
  OBVIOUS
<1>3. ASSUME NEW i \in 1 .. n PROVE p[i] \in Seq(D)
  <2>1. ts[i] \in D
    BY <1>1
  <2>2. <<ts[i]>> \in Seq(D) /\ <<>> \in Seq(D)
    BY <2>1
  <2> QED BY <1>1, <1>2, <2>2
<1>4. p \in [1 .. n -> Seq(D)]
  BY <1>1, <1>2, <1>3
<1>5. PICK g : IsFlatten(g, p, n, D)
  BY <1>4, FlattenPrefixes
<1> DEFINE S == {m \in Nat : m <= n => Gathered(g[m], ts, set, m)}
<1>6. 0 \in S
  <2>1. PICK e : e = g[0] /\ e = <<>>
    BY <1>5 DEF IsFlatten
  <2>2. e \in Seq({}) /\ Len(e) = 0
    BY <2>1
  <2>3. Gathered(e, ts, set, 0)
    BY <2>2 DEF Gathered, Sequential
  <2> QED BY <2>1, <2>3
<1>7. ASSUME NEW m \in Nat, m \in S PROVE m + 1 \in S
  <2> SUFFICES ASSUME m + 1 <= n PROVE Gathered(g[m + 1], ts, set, m + 1)
    OBVIOUS
  <2>1. m + 1 \in 1 .. n /\ (m + 1) - 1 = m /\ m <= n
    OBVIOUS
  <2>2. PICK x, y : x = g[m] /\ y = g[m + 1]
    OBVIOUS
  <2>3. Gathered(x, ts, set, m)
    BY <1>7, <2>1, <2>2
  <2>4. y = x \o p[m + 1]
    <3>1. Longer(g, p, m + 1)
      BY <1>5, <2>1, FlattenLonger
    <3> QED BY <2>1, <2>2, <3>1 DEF Longer
  <2>5. p[m + 1] = IF ts[m + 1] \in set THEN <<ts[m + 1]>> ELSE <<>>
    BY <1>1, <1>2, <2>1
  <2>6. y = x \o (IF ts[m + 1] \in set THEN <<ts[m + 1]>> ELSE <<>>)
    BY <2>4, <2>5, Zenon
  <2> QED BY <2>2, <2>3, <2>6, GatherOne
<1> HIDE DEF S
<1>8. Nat \subseteq S
  BY <1>6, <1>7, SetInduction
<1>9. Gathered(g[n], ts, set, n)
  BY <1>8 DEF S
<1>10. Among(ts, set) = g[n]
  BY <1>2, <1>5 DEF Among, IsFlatten
<1> QED BY <1>1, <1>9, <1>10

Remaining(left, ts) ==
  /\ Sequential(left)
  /\ \A i \in 1 .. Len(ts) : ~ts[i].finished => \E j \in 1 .. Len(left) : left[j] = ts[i]
  /\ \A j \in 1 .. Len(left) : \E i \in 1 .. Len(ts) : ~ts[i].finished /\ left[j] = ts[i]

LEMMA ActiveIs ==
    ASSUME NEW ts, Sequential(ts)
    PROVE  Remaining(Active(ts), ts)
<1>1. PICK D : ts \in Seq(D)
  BY DEF Sequential
<1>2. PICK set : set = { x \in ToSet(ts) : ~x.finished }
  OBVIOUS
<1>3. PICK left : left = Active(ts) /\ Gathered(left, ts, set, Len(ts))
  BY <1>1, <1>2, AmongGathers DEF Active
<1>4. ASSUME NEW i \in 1 .. Len(ts) PROVE ts[i] \in set <=> ~ts[i].finished
  BY <1>1, <1>2 DEF ToSet
<1>5. Remaining(left, ts)
  BY <1>3, <1>4 DEF Gathered, Remaining
<1> QED BY <1>3, <1>5

(* One request's turn: new takes the place of r in the batch, and the call *)
(* takes down its answer when it has finished.                             *)
Took(r, new) == new.id = r.id /\ new.prompt = r.prompt

ServedIn(b, at, r, new, b2) ==
  /\ at \in 1 .. Len(b.reqs) /\ r = b.reqs[at] /\ Took(r, new)
  /\ b2 = [b EXCEPT !.reqs = [b.reqs EXCEPT ![at] = new]]

TakenDown(c, at, r, new, c2) ==
  /\ {"kind", "prompt", "at", "slot", "out"} \subseteq DOMAIN c2
  /\ c2.kind = "batch" /\ c2.prompt = c.prompt /\ c2.at = at + 1 /\ c2.slot = c.slot
  /\ \/ c2.out = c.out /\ ~(new.finished /\ r.id \in DOMAIN c.slot)
     \/ /\ new.finished /\ r.id \in DOMAIN c.slot
        /\ c2.out = [c.out EXCEPT ![c.slot[r.id]] = new.out]

LEMMA TurnServed ==
    ASSUME NEW s, NEW b, NEW c, c.kind = "batch", Batched(s, b, c), NEW at, at = c.at,
           NEW r, NEW new, Requesting(s, b.next, new), NEW b2, ServedIn(b, at, r, new, b2),
           NEW c2, TakenDown(c, at, r, new, c2)
    PROVE  Batched(s, b2, c2)
<1>1. PICK reqs : reqs = b.reqs /\ Sequential(reqs)
  BY DEF Batched, Waiting
<1>2. PICK D : reqs \in Seq(D)
  BY <1>1 DEF Sequential
<1>a. PICK n \in Nat : n = Len(reqs)
  BY <1>2
<1>3. n = Len(reqs) /\ at \in 1 .. n /\ r = reqs[at] /\ Took(r, new)
  BY <1>1, <1>a DEF ServedIn
<1>4. PICK more : more = [reqs EXCEPT ![at] = new] /\ b2 = [b EXCEPT !.reqs = more]
  BY <1>1 DEF ServedIn
<1>c. /\ {"kind", "prompt", "at", "slot", "out"} \subseteq DOMAIN c2
      /\ c2.kind = "batch" /\ c2.prompt = c.prompt /\ c2.at = at + 1 /\ c2.slot = c.slot
      /\ \/ c2.out = c.out /\ ~(new.finished /\ r.id \in DOMAIN c.slot)
         \/ /\ new.finished /\ r.id \in DOMAIN c.slot
            /\ c2.out = [c.out EXCEPT ![c.slot[r.id]] = new.out]
  BY DEF TakenDown
<1>b. PICK E : E = D \cup {new}
  OBVIOUS
<1>5. more \in Seq(E) /\ Len(more) = n
  <2>1. reqs \in Seq(E) /\ new \in E
    BY <1>2, <1>b
  <2> QED BY <1>3, <1>4, <2>1
<1>6. more[at] = new /\ \A i \in 1 .. n : i # at => more[i] = reqs[i]
  BY <1>2, <1>3, <1>4
<1>7. {"reqs", "next"} \subseteq DOMAIN b2 /\ b2.reqs = more /\ b2.next = b.next /\ b.next \in Nat
  BY <1>1, <1>4, <1>3 DEF Batched, Waiting
<1>8. PICK slot, prompt : slot = c.slot /\ prompt = c.prompt
  OBVIOUS
<1>9. /\ Len(prompt) \in Nat /\ DOMAIN c.out = 1 .. Len(prompt)
      /\ \A i \in 1 .. n : Slotted(slot, prompt, reqs[i])
      /\ \A k \in 1 .. Len(prompt) : \/ AnswerWhole(s, prompt[k], Ends({}), c.out[k])
                                     \/ \E i \in 1 .. n : WorksOn(slot, k, reqs[i])
  BY <1>1, <1>3, <1>8 DEF Batched, Slots
<1>10. \A i \in 1 .. n : Requesting(s, b.next, reqs[i]) /\ (reqs[i].finished => i < at)
  BY <1>1, <1>3 DEF Batched, Waiting, Turn
<1>11. Waiting(s, b2, at + 1)
  <2>1. ASSUME NEW i \in 1 .. n
        PROVE  Requesting(s, b.next, more[i]) /\ (more[i].finished => i < at + 1)
    <3>1. CASE i = at
      BY <1>6, <3>1
    <3>2. CASE i # at
      <4>1. more[i] = reqs[i]
        BY <1>6, <3>2
      <4>2. i < at => i < at + 1
        BY <1>3
      <4> QED BY <1>10, <4>1, <4>2
    <3> QED BY <3>1, <3>2
  <2> QED BY <1>5, <1>7, <2>1 DEF Waiting, Sequential
<1>12. ASSUME NEW i \in 1 .. n PROVE Slotted(slot, prompt, more[i])
  <2>1. CASE i = at
    <3>1. Slotted(slot, prompt, r)
      BY <1>3, <1>9
    <3> QED BY <1>3, <1>6, <2>1, <3>1 DEF Slotted, Took
  <2>2. CASE i # at
    BY <1>6, <1>9, <2>2
  <2> QED BY <2>1, <2>2
<1>13. ASSUME new.finished, r.id \in DOMAIN slot
       PROVE  /\ slot[r.id] \in 1 .. Len(prompt)
              /\ AnswerWhole(s, prompt[slot[r.id]], Ends({}), new.out)
  <2>1. Slotted(slot, prompt, r)
    BY <1>3, <1>9
  <2>2. slot[r.id] \in 1 .. Len(prompt) /\ new.prompt = prompt[slot[r.id]]
    BY <1>3, <1>13, <2>1 DEF Slotted, Took
  <2> QED BY <1>13, <2>2 DEF Requesting
<1>14. DOMAIN c2.out = 1 .. Len(prompt)
  BY <1>8, <1>9, <1>c
<1>15. ASSUME NEW k \in 1 .. Len(prompt)
       PROVE  \/ AnswerWhole(s, prompt[k], Ends({}), c2.out[k])
              \/ \E i \in 1 .. n : WorksOn(slot, k, more[i])
  <2>1. CASE new.finished /\ r.id \in DOMAIN slot /\ slot[r.id] = k
    <3>1. c2.out[k] = new.out
      BY <1>8, <1>9, <1>c, <2>1
    <3> QED BY <1>13, <2>1, <3>1
  <2>2. CASE ~(new.finished /\ r.id \in DOMAIN slot /\ slot[r.id] = k)
    <3>1. c2.out[k] = c.out[k]
      BY <1>8, <1>9, <1>c, <2>2
    <3>2. CASE AnswerWhole(s, prompt[k], Ends({}), c.out[k])
      BY <3>1, <3>2
    <3>3. CASE \E i \in 1 .. n : WorksOn(slot, k, reqs[i])
      <4>1. PICK i \in 1 .. n : WorksOn(slot, k, reqs[i])
        BY <3>3
      <4>2. CASE i = at
        <5>1. WorksOn(slot, k, new)
          BY <1>3, <2>2, <4>1, <4>2 DEF WorksOn, Took
        <5> QED BY <1>6, <4>2, <5>1
      <4>3. CASE i # at
        BY <1>6, <4>1, <4>3
      <4> QED BY <4>2, <4>3
    <3> QED BY <1>9, <3>2, <3>3
  <2> QED BY <2>1, <2>2
<1>16. Slots(s, more, c2)
  <2>1. c2.at \in Nat \ {0}
    BY <1>3, <1>c
  <2> QED BY <1>c, <1>5, <1>8, <1>9, <1>12, <1>14, <1>15, <2>1 DEF Slots
<1> QED BY <1>c, <1>7, <1>11, <1>16 DEF Batched, Turn

LEMMA ServeAnswers ==
    ASSUME NEW s, Client(s), NEW d, Answering(s, d), ServeRequest
    PROVE  /\ call.kind # "boot" /\ call'.kind # "boot"
           /\ AllAnswered(s, d, history') /\ Underway(s, d, call') /\ Batched(s, batch', call')
<1>1. PICK b, c : b = batch /\ c = call /\ c.kind = "batch" /\ Batched(s, b, c)
  BY DEF Answering, ServeRequest
<1>2. PICK reqs : reqs = b.reqs /\ Sequential(reqs)
  BY <1>1 DEF Batched, Waiting
<1>3. PICK n \in Nat : n = Len(reqs)
  <2>1. PICK D : reqs \in Seq(D)
    BY <1>2 DEF Sequential
  <2> QED BY <2>1
<1>4. PICK at : at = c.at /\ at \in 1 .. n
  <2>1. c.at \in Nat \ {0}
    BY <1>1 DEF Batched, Slots
  <2>2. c.at <= n
    BY <1>1, <1>2, <1>3 DEF ServeRequest
  <2> QED BY <1>3, <2>1, <2>2
<1>5. PICK r : r = reqs[at]
  OBVIOUS
<1>6. Requesting(s, b.next, r) /\ ~r.finished
  BY <1>1, <1>2, <1>3, <1>4, <1>5 DEF Batched, Waiting, Turn
<1>7. {"kind", "prompt", "at", "slot", "out"} \subseteq DOMAIN c /\ {"reqs", "next"} \subseteq DOMAIN b
  BY <1>1 DEF Batched, Waiting, Slots
<1>8. PICK more : more = Append(r.out, DecodeOf(s, r.prompt, r.out))
  OBVIOUS
<1>9. PICK t : t = DecodeOf(s, r.prompt, r.out)
  OBVIOUS
<1>10. cfg.max = s.config.max /\ s.config.max \in Nat
  BY ClientAssumption DEF Client
<1>11. history' = history
  BY DEF ServeRequest
<1>12. PICK done \in BOOLEAN : done <=> (t = EOS \/ Len(more) >= cfg.max)
  OBVIOUS
<1>13. \/ /\ \E end : batch' = [batch EXCEPT !.reqs[at].prefill = end]
          /\ call' = [call EXCEPT !.at = at + 1]
       \/ /\ batch' = [batch EXCEPT !.reqs[at].out = more, !.reqs[at].finished = done]
          /\ call' = IF done /\ r.id \in DOMAIN call.slot
                       THEN [call EXCEPT !.at = at + 1, !.out[call.slot[r.id]] = more]
                       ELSE [call EXCEPT !.at = at + 1]
  <2>1. Decode(r.prompt, r.out, Tokens) = t
    BY <1>9, ClientDecodes
  <2>2. batch.reqs[call.at] = r
    BY <1>1, <1>2, <1>4, <1>5
  <2>3. (t = EOS \/ Len(more) >= cfg.max) = done
    BY <1>12
  <2>4. Append(r.out, t) = more /\ call.at = at
    BY <1>1, <1>4, <1>8, <1>9
  <2> QED BY <2>1, <2>2, <2>3, <2>4, Zenon DEF ServeRequest
<1>14. PICK step : step = [c EXCEPT !.at = at + 1]
  OBVIOUS
<1>15. /\ {"kind", "prompt", "at", "slot", "out"} \subseteq DOMAIN step
       /\ step.kind = "batch" /\ step.prompt = c.prompt /\ step.at = at + 1 /\ step.slot = c.slot
       /\ step.out = c.out
  BY <1>1, <1>7, <1>14
<1>16. ASSUME NEW new, Requesting(s, b.next, new), Took(r, new), NEW b2,
              b2 = [b EXCEPT !.reqs = [reqs EXCEPT ![at] = new]], b2 = batch',
              NEW c2, TakenDown(c, at, r, new, c2), c2 = call'
       PROVE  Batched(s, batch', call') /\ Underway(s, d, call') /\ call'.kind = "batch"
  <2>1. ServedIn(b, at, r, new, b2)
    BY <1>2, <1>3, <1>4, <1>5, <1>16 DEF ServedIn
  <2>2. Batched(s, b2, c2)
    BY <1>1, <1>4, <1>16, <2>1, TurnServed
  <2>3. "kind" \in DOMAIN c2 /\ c2.kind = "batch"
    BY <1>16 DEF TakenDown
  <2>4. Underway(s, d, c2)
    BY <2>3, OtherUnderway
  <2> QED BY <1>16, <2>2, <2>3, <2>4
<1>17. ASSUME NEW end, batch' = [batch EXCEPT !.reqs[at].prefill = end],
              call' = [call EXCEPT !.at = at + 1]
       PROVE  Batched(s, batch', call') /\ Underway(s, d, call') /\ call'.kind = "batch"
  <2>1. PICK new : new = [r EXCEPT !.prefill = end]
    OBVIOUS
  <2>2. PICK b2 : b2 = [b EXCEPT !.reqs = [reqs EXCEPT ![at] = new]]
    OBVIOUS
  <2>3. b2 = batch'
    BY <1>1, <1>2, <1>5, <1>17, <2>1, <2>2
  <2>4. /\ {"id", "prompt", "prefill", "out", "finished"} \subseteq DOMAIN new
        /\ new.id = r.id /\ new.prompt = r.prompt /\ new.out = r.out /\ new.finished = r.finished
    BY <1>6, <2>1 DEF Requesting
  <2>5. Requesting(s, b.next, new)
    BY <1>6, <2>4 DEF Requesting
  <2>6. Took(r, new)
    BY <2>4 DEF Took
  <2>7. TakenDown(c, at, r, new, step)
    BY <1>6, <1>15, <2>4 DEF TakenDown
  <2>8. step = call'
    BY <1>1, <1>14, <1>17
  <2> QED BY <1>16, <2>2, <2>3, <2>5, <2>6, <2>7, <2>8
<1>18. ASSUME batch' = [batch EXCEPT !.reqs[at].out = more, !.reqs[at].finished = done],
              call' = IF done /\ r.id \in DOMAIN call.slot
                        THEN [call EXCEPT !.at = at + 1, !.out[call.slot[r.id]] = more]
                        ELSE [call EXCEPT !.at = at + 1]
       PROVE  Batched(s, batch', call') /\ Underway(s, d, call') /\ call'.kind = "batch"
  <2>1. PICK mid : mid = [r EXCEPT !.out = more]
    OBVIOUS
  <2>2. PICK new : new = [mid EXCEPT !.finished = done]
    OBVIOUS
  <2>3. PICK first : first = [reqs EXCEPT ![at] = mid]
    OBVIOUS
  <2>4. PICK b1 : b1 = [b EXCEPT !.reqs = first]
    OBVIOUS
  <2>5. PICK b2 : b2 = [b EXCEPT !.reqs = [reqs EXCEPT ![at] = new]]
    OBVIOUS
  <2>6. b2 = batch'
    <3>1. b1 = [batch EXCEPT !.reqs[at].out = more]
      BY <1>1, <1>2, <1>5, <2>1, <2>3, <2>4
    <3>2. batch' = [b1 EXCEPT !.reqs[at].finished = done]
      BY <1>18, <3>1, Zenon
    <3>3. "reqs" \in DOMAIN b /\ at \in DOMAIN reqs
      <4>1. PICK D : reqs \in Seq(D)
        BY <1>2 DEF Sequential
      <4> QED BY <1>3, <1>4, <1>7, <4>1
    <3>4. b1.reqs = first /\ first[at] = mid
      BY <2>3, <2>4, <3>3
    <3>5. batch' = [b1 EXCEPT !.reqs = [first EXCEPT ![at] = new]]
      BY <2>2, <3>2, <3>4
    <3>6. [first EXCEPT ![at] = new] = [reqs EXCEPT ![at] = new]
      BY <2>3, <3>3
    <3> QED BY <2>4, <2>5, <3>5, <3>6
  <2>7. /\ {"id", "prompt", "prefill", "out", "finished"} \subseteq DOMAIN mid
        /\ mid.id = r.id /\ mid.prompt = r.prompt /\ mid.out = more
    BY <1>6, <2>1 DEF Requesting
  <2>8. /\ {"id", "prompt", "prefill", "out", "finished"} \subseteq DOMAIN new
        /\ new.id = r.id /\ new.prompt = r.prompt /\ new.out = more /\ new.finished = done
    BY <2>2, <2>7
  <2>9. Requesting(s, b.next, new)
    <3>1. PICK ends : ends = Ends({})
      OBVIOUS
    <3>2. AnswerSoFar(s, r.prompt, ends, r.out)
      BY <1>6, <3>1 DEF Requesting
    <3>3. IF t \in ends \/ Len(more) >= s.config.max
            THEN AnswerWhole(s, r.prompt, ends, more) ELSE AnswerSoFar(s, r.prompt, ends, more)
      <4>1. IF DecodeOf(s, r.prompt, r.out) \in ends \/ Len(more) >= s.config.max
              THEN AnswerWhole(s, r.prompt, ends, more) ELSE AnswerSoFar(s, r.prompt, ends, more)
        BY <1>8, <1>10, <3>2, AnswerGrows, Zenon
      <4> QED BY <1>9, <4>1
    <3>4. t \in ends <=> t = EOS
      BY <3>1 DEF Ends
    <3>5. done <=> (t \in ends \/ Len(more) >= s.config.max)
      BY <1>10, <1>12, <3>4
    <3>6. r.id \in Nat /\ r.id < b.next
      BY <1>6 DEF Requesting
    <3> QED BY <2>8, <3>1, <3>3, <3>5, <3>6 DEF Requesting
  <2>10. Took(r, new)
    BY <2>8 DEF Took
  <2>11. CASE done /\ r.id \in DOMAIN call.slot
    <3>1. PICK k : k = c.slot[r.id]
      OBVIOUS
    <3>2. PICK c2 : c2 = [step EXCEPT !.out[k] = more]
      OBVIOUS
    <3>3. c2 = call'
      BY <1>1, <1>14, <1>18, <2>11, <3>1, <3>2, Zenon
    <3>4. PICK out : out = [c.out EXCEPT ![k] = more]
      OBVIOUS
    <3>5. c2 = [step EXCEPT !.out = out]
      BY <1>15, <3>2, <3>4
    <3>6. /\ {"kind", "prompt", "at", "slot", "out"} \subseteq DOMAIN c2
          /\ c2.kind = "batch" /\ c2.prompt = c.prompt /\ c2.at = at + 1 /\ c2.slot = c.slot
          /\ c2.out = out
      BY <1>15, <3>5
    <3>7. TakenDown(c, at, r, new, c2)
      BY <1>1, <2>8, <2>11, <3>1, <3>4, <3>6 DEF TakenDown
    <3> QED BY <1>16, <2>5, <2>6, <2>9, <2>10, <3>3, <3>7
  <2>12. CASE ~(done /\ r.id \in DOMAIN call.slot)
    <3>1. step = call'
      BY <1>1, <1>14, <1>18, <2>12
    <3>2. TakenDown(c, at, r, new, step)
      BY <1>1, <1>15, <2>8, <2>12 DEF TakenDown
    <3> QED BY <1>16, <2>5, <2>6, <2>9, <2>10, <3>1, <3>2
  <2> QED BY <2>11, <2>12
<1>19. Batched(s, batch', call') /\ Underway(s, d, call') /\ call'.kind = "batch"
  BY <1>13, <1>17, <1>18
<1>20. AllAnswered(s, d, history')
  BY <1>11 DEF Answering
<1> QED BY <1>1, <1>19, <1>20

LEMMA PassEnds ==
    ASSUME NEW s, NEW d, Answering(s, d), EndOfPass
    PROVE  /\ call.kind # "boot" /\ call'.kind # "boot"
           /\ AllAnswered(s, d, history') /\ Underway(s, d, call') /\ Batched(s, batch', call')
<1>1. PICK b, c : b = batch /\ c = call /\ c.kind = "batch" /\ Batched(s, b, c)
  BY DEF Answering, EndOfPass
<1>2. PICK reqs : reqs = b.reqs /\ Sequential(reqs)
  BY <1>1 DEF Batched, Waiting
<1>3. PICK left : left = Active(reqs) /\ Remaining(left, reqs)
  BY <1>2, ActiveIs
<1>4. PICK b2 : b2 = batch' /\ b2 = [b EXCEPT !.reqs = left]
  BY <1>1, <1>2, <1>3 DEF EndOfPass
<1>5. {"reqs", "next"} \subseteq DOMAIN b2 /\ b2.reqs = left /\ b2.next = b.next /\ b.next \in Nat
  BY <1>1, <1>4 DEF Batched, Waiting
<1>6. /\ {"kind", "prompt", "at", "slot", "out"} \subseteq DOMAIN c
      /\ Slots(s, reqs, c)
  BY <1>1, <1>2 DEF Batched, Slots
<1>7. Waiting(s, b2, 1)
  <2>1. ASSUME NEW j \in 1 .. Len(left) PROVE Requesting(s, b.next, left[j]) /\ ~left[j].finished
    <3>1. PICK i \in 1 .. Len(reqs) : ~reqs[i].finished /\ left[j] = reqs[i]
      BY <1>3 DEF Remaining
    <3> QED BY <1>1, <1>2, <3>1 DEF Batched, Waiting
  <2>2. Sequential(left)
    BY <1>3 DEF Remaining
  <2> QED BY <1>5, <2>1, <2>2 DEF Waiting
<1>8. CASE left = <<>>
  <2>1. PICK h : h = [c EXCEPT !.out = c.out]
    OBVIOUS
  <2>2. call' = NoCall /\ history' = Append(history, h)
    BY <1>1, <1>2, <1>3, <1>8, <2>1 DEF EndOfPass, Return
  <2>3. h.kind = "batch" /\ h.prompt = c.prompt /\ h.out = c.out
    BY <1>1, <1>6, <2>1
  <2>4. ASSUME NEW i \in 1 .. Len(reqs), ~reqs[i].finished PROVE FALSE
    <3>1. PICK x : x = left /\ Len(x) = 0
      BY <1>8
    <3>2. \E j \in 1 .. Len(left) : left[j] = reqs[i]
      BY <1>3, <2>4 DEF Remaining
    <3> QED BY <3>1, <3>2
  <2>5. ASSUME NEW k \in 1 .. Len(c.prompt) PROVE AnswerWhole(s, c.prompt[k], Ends({}), c.out[k])
    BY <1>6, <2>4 DEF Slots, WorksOn
  <2>6. Answered(s, d, h)
    BY <2>3, <2>5 DEF Answered
  <2>7. AllAnswered(s, d, history')
    <3>1. PICK list : list = history /\ AllAnswered(s, d, list)
      BY DEF Answering
    <3> QED BY <2>2, <2>6, <3>1, HistoryGrows
  <2>8. PICK e : e = call' /\ "kind" \in DOMAIN e /\ e.kind = "none"
    BY <2>2 DEF NoCall
  <2>9. Batched(s, b2, e) /\ Underway(s, d, e)
    BY <1>7, <2>8, OtherUnderway DEF Batched, Turn
  <2> QED BY <1>1, <1>4, <2>7, <2>8, <2>9
<1>9. CASE left # <<>>
  <2>1. PICK e : e = [c EXCEPT !.at = 1]
    OBVIOUS
  <2>2. call' = e /\ history' = history
    BY <1>1, <1>2, <1>3, <1>9, <2>1 DEF EndOfPass
  <2>3. /\ {"kind", "prompt", "at", "slot", "out"} \subseteq DOMAIN e
        /\ e.kind = "batch" /\ e.prompt = c.prompt /\ e.at = 1 /\ e.slot = c.slot /\ e.out = c.out
    BY <1>1, <1>6, <2>1
  <2>4. ASSUME NEW j \in 1 .. Len(left) PROVE Slotted(c.slot, c.prompt, left[j])
    <3>1. PICK i \in 1 .. Len(reqs) : left[j] = reqs[i]
      BY <1>3 DEF Remaining
    <3> QED BY <1>6, <3>1 DEF Slots
  <2>5. ASSUME NEW k \in 1 .. Len(c.prompt)
        PROVE  \/ AnswerWhole(s, c.prompt[k], Ends({}), c.out[k])
               \/ \E j \in 1 .. Len(left) : WorksOn(c.slot, k, left[j])
    <3>1. CASE \E i \in 1 .. Len(reqs) : WorksOn(c.slot, k, reqs[i])
      <4>1. PICK i \in 1 .. Len(reqs) : WorksOn(c.slot, k, reqs[i])
        BY <3>1
      <4>2. PICK j \in 1 .. Len(left) : left[j] = reqs[i]
        BY <1>3, <4>1 DEF Remaining, WorksOn
      <4> QED BY <4>1, <4>2
    <3> QED BY <1>6, <3>1 DEF Slots
  <2>6. Slots(s, left, e)
    BY <1>6, <2>3, <2>4, <2>5 DEF Slots
  <2>7. Batched(s, b2, e) /\ Underway(s, d, e)
    BY <1>5, <1>7, <2>3, <2>6, OtherUnderway DEF Batched, Turn
  <2>8. AllAnswered(s, d, history')
    BY <2>2 DEF Answering
  <2> QED BY <1>1, <1>4, <2>2, <2>3, <2>7, <2>8
<1> QED BY <1>8, <1>9

(* A request that joins the batch, and the slot of its answer.             *)
LEMMA JoinsTyped ==
    ASSUME NEW s, s.config.max \in Nat \ {0}, NEW id \in Nat, NEW prompt, NEW next \in Nat, id < next
    PROVE  Requesting(s, next, Request(id, prompt))
<1>1. PICK r : r = Request(id, prompt)
  OBVIOUS
<1>2. /\ {"id", "prompt", "prefill", "out", "finished"} \subseteq DOMAIN r
      /\ r.id = id /\ r.prompt = prompt /\ r.out = <<>> /\ r.finished = FALSE
  BY <1>1 DEF Request
<1>3. AnswerSoFar(s, prompt, Ends({}), <<>>)
  BY FirstAnswer
<1> QED BY <1>1, <1>2, <1>3 DEF Requesting

(* The requests after those that were left in the batch.                   *)
Admitted(s, reqs, new, first, n, prompts) ==
  /\ Sequential(new) /\ Len(new) = n
  /\ \A k \in 1 .. n : /\ Requesting(s, first + n, new[k]) /\ ~new[k].finished
                       /\ new[k].id = first + k - 1 /\ new[k].prompt = prompts[k]

Entering(s, b, new, first, n) ==
  /\ Waiting(s, b, 1)
  /\ \A k \in 1 .. n : \E i \in 1 .. Len(b.reqs) : b.reqs[i] = new[k]
  /\ \A i \in 1 .. Len(b.reqs) : b.reqs[i].id < first \/ \E k \in 1 .. n : b.reqs[i] = new[k]

LEMMA BatchJoined ==
    ASSUME NEW s, NEW b, Waiting(s, b, 1), NEW first, first = b.next, NEW n \in Nat, NEW new,
           NEW prompts, Admitted(s, b.reqs, new, first, n, prompts),
           NEW b2, b2 = [reqs |-> b.reqs \o new, next |-> first + n]
    PROVE  Entering(s, b2, new, first, n)
<1>1. PICK reqs, all : reqs = b.reqs /\ all = reqs \o new /\ Sequential(reqs)
  BY DEF Waiting
<1>2. InARow(reqs, new, all)
  BY <1>1, RowIs DEF Admitted
<1>3. {"reqs", "next"} \subseteq DOMAIN b2 /\ b2.reqs = all /\ b2.next = first + n
  BY <1>1
<1>4. PICK used \in Nat : used = Len(reqs) /\ Len(all) = used + n
  BY <1>2 DEF InARow, Admitted
<1>5. /\ \A i \in 1 .. used : all[i] = reqs[i]
      /\ \A k \in 1 .. n : all[used + k] = new[k]
  BY <1>2, <1>4 DEF InARow, Admitted
<1>6. first \in Nat
  BY DEF Waiting
<1>7. ASSUME NEW i \in 1 .. used
      PROVE  Requesting(s, first + n, reqs[i]) /\ ~reqs[i].finished /\ reqs[i].id < first
  <2>1. Requesting(s, first, reqs[i]) /\ (reqs[i].finished => i < 1)
    BY <1>1, <1>4, <1>7 DEF Waiting
  <2>2. reqs[i].id \in Nat /\ reqs[i].id < first
    BY <2>1 DEF Requesting
  <2>3. reqs[i].id < first + n
    BY <1>6, <2>2
  <2> QED BY <2>1, <2>2, <2>3 DEF Requesting
<1>8. ASSUME NEW i \in 1 .. Len(all)
      PROVE  /\ Requesting(s, first + n, all[i]) /\ ~all[i].finished
             /\ all[i].id < first \/ \E k \in 1 .. n : all[i] = new[k]
  <2>1. CASE i <= used
    <3>1. i \in 1 .. used
      BY <2>1
    <3> QED BY <1>5, <1>7, <3>1
  <2>2. CASE i > used
    <3>1. PICK k \in 1 .. n : i = used + k
      <4>1. i - used \in 1 .. n /\ i = used + (i - used)
        BY <1>4, <2>2
      <4> QED BY <4>1
    <3>2. all[i] = new[k]
      BY <1>5, <3>1
    <3> QED BY <3>2 DEF Admitted
  <2> QED BY <1>4, <2>1, <2>2
<1>9. Sequential(all)
  BY <1>2 DEF InARow
<1>10. first + n \in Nat
  BY <1>6
<1>11. Waiting(s, b2, 1)
  BY <1>3, <1>8, <1>9, <1>10 DEF Waiting
<1>12. ASSUME NEW k \in 1 .. n PROVE \E i \in 1 .. Len(all) : all[i] = new[k]
  <2>1. used + k \in 1 .. Len(all)
    BY <1>4
  <2> QED BY <1>5, <2>1
<1> QED BY <1>3, <1>8, <1>11, <1>12 DEF Entering

LEMMA BatchBegins ==
    ASSUME NEW s, Client(s), BatchTyped, NEW d, Answering(s, d), NEW prompts \in BatchCalls,
           BeginBatch(prompts)
    PROVE  /\ call.kind # "boot" /\ call'.kind # "boot"
           /\ AllAnswered(s, d, history') /\ Underway(s, d, call') /\ Batched(s, batch', call')
<1>1. call.kind = "none"
  <2>1. call = NoCall
    BY DEF BeginBatch, Idle
  <2> QED BY <2>1 DEF NoCall
<1>2. PICK b : b = batch /\ Waiting(s, b, 1)
  <2>1. PICK c : c = call
    OBVIOUS
  <2> QED BY <1>1, <2>1 DEF Answering, Batched, Turn
<1>3. PICK L \in Nat : L = Len(prompts) /\ DOMAIN prompts = 1 .. L
  <2>1. PICK T : prompts \in Seq(Seq(T))
    BY ClientAssumption DEF Client
  <2> QED BY <2>1
<1>4. PICK used \in Nat : used = Len(batch.reqs)
  BY DEF BatchTyped, Requests
<1>5. PICK size \in Nat : size = cfg.batch
  BY ClientIs
<1>6. used <= size
  BY <1>4, <1>5 DEF BatchTyped
<1>7. PICK room \in Nat : room = size - used
  BY <1>6
<1>8. PICK n \in Nat : n = Min({room, L}) /\ n <= L
  <2>1. {room, L} \in SUBSET Nat
    OBVIOUS
  <2>2. Min({room, L}) \in {room, L} /\ \A x \in {room, L} : Min({room, L}) <= x
    BY <2>1, MinIs
  <2> QED BY <2>2
<1>9. PICK first \in Nat : first = b.next
  BY <1>2 DEF Waiting
<1>10. PICK new : new = [i \in 1 .. n |-> Request(first + i - 1, prompts[i])]
  OBVIOUS
<1>11. PICK b2 : b2 = [reqs |-> b.reqs \o new, next |-> first + n]
  OBVIOUS
<1>12. PICK slot : slot = [id \in first .. first + n - 1 |-> id - first + 1]
  OBVIOUS
<1>13. PICK out : out = [i \in 1 .. n |-> <<>>]
  OBVIOUS
<1>14. /\ b2 = batch'
       /\ call' = IF n < L THEN NoCall
                  ELSE [kind |-> "batch", prompt |-> prompts, at |-> 1, slot |-> slot, out |-> out]
       /\ history' = IF n < L THEN Append(history, [kind |-> "refused", prompt |-> prompts])
                     ELSE history
  <2>1. Min({cfg.batch - Len(batch.reqs), Len(prompts)}) = n
    BY <1>3, <1>4, <1>5, <1>7, <1>8
  <2>2. batch.next = first /\ batch.reqs = b.reqs /\ Len(prompts) = L
    BY <1>2, <1>3, <1>9
  <2> QED BY <1>10, <1>11, <1>12, <1>13, <2>1, <2>2, Zenon DEF BeginBatch
<1>15. s.config.max \in Nat \ {0}
  BY ClientAssumption DEF Client
<1>16. Admitted(s, b.reqs, new, first, n, prompts)
  <2>1. ASSUME NEW k \in 1 .. n
        PROVE  /\ Requesting(s, first + n, new[k]) /\ ~new[k].finished
               /\ new[k].id = first + k - 1 /\ new[k].prompt = prompts[k]
    <3>1. new[k] = Request(first + k - 1, prompts[k])
      BY <1>10
    <3>2. first + k - 1 \in Nat /\ first + n \in Nat /\ first + k - 1 < first + n
      OBVIOUS
    <3>3. Requesting(s, first + n, new[k])
      BY <1>15, <3>1, <3>2, JoinsTyped
    <3>4. PICK r, id, p : r = new[k] /\ id = first + k - 1 /\ p = prompts[k] /\ r = Request(id, p)
      BY <3>1
    <3>5. r.finished = FALSE /\ r.id = id /\ r.prompt = p
      BY <3>4 DEF Request
    <3> QED BY <3>3, <3>4, <3>5
  <2>2. Sequential(new) /\ Len(new) = n
    <3>1. PICK F : F = [i \in 1 .. n |-> Request(first + i - 1, prompts[i])]
      OBVIOUS
    <3>2. new = [i \in 1 .. n |-> F[i]]
      BY <1>10, <3>1
    <3> QED BY <3>2, ListIs
  <2> QED BY <2>1, <2>2 DEF Admitted
<1>17. /\ Waiting(s, b2, 1)
       /\ \A k \in 1 .. n : \E i \in 1 .. Len(b2.reqs) : b2.reqs[i] = new[k]
       /\ \A i \in 1 .. Len(b2.reqs) : \/ b2.reqs[i].id < first
                                       \/ \E k \in 1 .. n : b2.reqs[i] = new[k]
  <2>1. Entering(s, b2, new, first, n)
    BY <1>2, <1>9, <1>11, <1>16, BatchJoined
  <2> QED BY <2>1 DEF Entering
<1>18. PICK list : list = history /\ AllAnswered(s, d, list)
  BY DEF Answering
<1>19. CASE n < L
  <2>1. PICK h : h = [kind |-> "refused", prompt |-> prompts]
    OBVIOUS
  <2>2. h.kind = "refused"
    BY <2>1
  <2>3. Answered(s, d, h)
    BY <2>2, OtherAnswered
  <2>4. AllAnswered(s, d, Append(list, h))
    BY <1>18, <2>3, HistoryGrows
  <2>5. PICK e : e = call' /\ "kind" \in DOMAIN e /\ e.kind = "none"
    BY <1>14, <1>19 DEF NoCall
  <2>6. Underway(s, d, e) /\ Batched(s, b2, e)
    BY <1>17, <2>5, OtherUnderway DEF Batched, Turn
  <2> QED BY <1>1, <1>14, <1>18, <1>19, <2>1, <2>4, <2>5, <2>6
<1>20. CASE ~(n < L)
  <2>1. n = L
    BY <1>8, <1>20
  <2>2. PICK e : /\ e = call'
                 /\ e = [kind |-> "batch", prompt |-> prompts, at |-> 1, slot |-> slot, out |-> out]
    BY <1>14, <1>20
  <2>3. /\ {"kind", "prompt", "at", "slot", "out"} \subseteq DOMAIN e
        /\ e.kind = "batch" /\ e.prompt = prompts /\ e.at = 1 /\ e.slot = slot /\ e.out = out
    BY <2>2
  <2>4. ASSUME NEW i \in 1 .. Len(b2.reqs) PROVE Slotted(slot, prompts, b2.reqs[i])
    <3>1. PICK r : r = b2.reqs[i] /\ r.id \in Nat
      BY <1>17 DEF Waiting, Requesting
    <3>2. CASE r.id < first
      <4>1. r.id \notin DOMAIN slot
        BY <1>12, <3>1, <3>2
      <4> QED BY <3>1, <4>1 DEF Slotted
    <3>3. CASE \E k \in 1 .. n : r = new[k]
      <4>1. PICK k \in 1 .. n : r = new[k]
        BY <3>3
      <4>2. r.id = first + k - 1 /\ r.prompt = prompts[k]
        BY <1>16, <4>1 DEF Admitted
      <4>3. slot[r.id] = k
        BY <1>12, <4>2
      <4> QED BY <1>3, <2>1, <3>1, <4>2, <4>3 DEF Slotted
    <3> QED BY <1>17, <3>1, <3>2, <3>3
  <2>5. ASSUME NEW k \in 1 .. L PROVE \E i \in 1 .. Len(b2.reqs) : WorksOn(slot, k, b2.reqs[i])
    <3>1. PICK i \in 1 .. Len(b2.reqs) : b2.reqs[i] = new[k]
      BY <1>17, <2>1
    <3>2. PICK r : r = new[k] /\ ~r.finished /\ r.id = first + k - 1
      BY <1>16, <2>1 DEF Admitted
    <3>3. r.id \in DOMAIN slot /\ slot[r.id] = k
      BY <1>12, <2>1, <3>2
    <3> QED BY <3>1, <3>2, <3>3 DEF WorksOn
  <2>6. DOMAIN out = 1 .. L
    BY <1>13, <2>1
  <2>7. Slots(s, b2.reqs, e)
    BY <1>3, <2>3, <2>4, <2>5, <2>6 DEF Slots
  <2>8. Underway(s, d, e) /\ Batched(s, b2, e)
    BY <1>17, <2>3, <2>7, OtherUnderway DEF Batched, Turn
  <2> QED BY <1>1, <1>14, <1>18, <1>20, <2>2, <2>3, <2>8
<1> QED BY <1>19, <1>20

(* The firmware's draft length is the client's from its configuration on.  *)
LEMMA ConfiguredAnswers ==
    ASSUME NEW s, Client(s), FirmwareTyped, NEW d \in Int, Answering(s, d), Boot \/ Configure
    PROVE  \E e \in Int : Answering(s, e)'
<1>1. CASE Boot
  <2>1. UNCHANGED <<batch, call, history>>
    BY <1>1 DEF Boot
  <2>2. call.kind = "boot"
    <3>1. fw.state # "ready"
      BY <1>1 DEF Boot
    <3> QED BY <3>1 DEF Answering, Drafting, FwIs
  <2>3. Answering(s, d)'
    BY <2>1, <2>2 DEF Answering, Drafting
  <2> QED BY <2>3
<1>2. CASE Configure
  <2>1. /\ call = [kind |-> "boot"] /\ call' = NoCall /\ UNCHANGED <<batch, history, cfg>>
        /\ fw.state = "ready"
        /\ fw' = [fw EXCEPT !.chunk = IF cfg.chunked THEN cfg.chunk ELSE @,
                            !.draft = IF cfg.speculative THEN cfg.draft ELSE @]
    BY <1>2 DEF Configure
  <2>2. call.kind = "boot" /\ history = <<>>
    <3>1. call.kind = "boot"
      BY <2>1
    <3> QED BY <3>1 DEF Answering, Drafting
  <2>3. \E e \in Int : FwIs(fw', "ready", e)
    <3>1. PICK q \in FwStates, a \in Int : FwIs(fw, q, a)
      BY DEF FirmwareTyped
    <3>2. PICK c, e : /\ c = IF cfg.chunked THEN cfg.chunk ELSE fw.chunk
                      /\ e = IF cfg.speculative THEN cfg.draft ELSE fw.draft
      OBVIOUS
    <3>3. e \in Int
      <4>1. cfg.draft \in Int
        BY ClientAssumption DEF Client
      <4> QED BY <3>1, <3>2, <4>1 DEF FwIs
    <3>4. PICK f : f = [fw EXCEPT !.chunk = c]
      OBVIOUS
    <3>5. fw' = [f EXCEPT !.draft = e]
      <4>1. fw' = [fw EXCEPT !.chunk = c, !.draft = e]
        BY <2>1, <3>2
      <4> QED BY <3>4, <4>1
    <3>6. {"state", "draft"} \subseteq DOMAIN f /\ f.state = "ready"
      BY <2>1, <3>1, <3>4 DEF FwIs
    <3>7. FwIs(fw', "ready", e)
      BY <3>5, <3>6 DEF FwIs
    <3> QED BY <3>3, <3>7
  <2>4. PICK e \in Int : FwIs(fw', "ready", e)
    BY <2>3
  <2>5. PICK c : c = call' /\ "kind" \in DOMAIN c /\ c.kind = "none"
    BY <2>1 DEF NoCall
  <2>6. PICK o, b : o = call /\ b = batch
    OBVIOUS
  <2>7. Batched(s, b, c) /\ Underway(s, e, c)
    <3>1. o.kind # "batch" /\ Batched(s, b, o)
      BY <2>2, <2>6 DEF Answering
    <3> QED BY <2>5, <3>1, BatchLeft, OtherUnderway
  <2>8. AllAnswered(s, e, history)
    <3>1. PICK list : list = history /\ list = <<>> /\ Sequential(list)
      BY <2>2 DEF Answering, AllAnswered
    <3>2. Len(list) = 0
      BY <3>1
    <3> QED BY <3>1, <3>2 DEF AllAnswered
  <2>9. Answering(s, e)'
    <3>1. Drafting(e)'
      BY <2>4, <2>5 DEF Drafting
    <3>2. AllAnswered(s, e, history') /\ Underway(s, e, call') /\ Batched(s, batch', call')
      BY <2>1, <2>5, <2>6, <2>7, <2>8
    <3> QED BY <3>1, <3>2 DEF Answering
  <2> QED BY <2>9
<1> QED BY <1>1, <1>2

LEMMA CallsAnswer ==
    ASSUME NEW s, Client(s), BatchTyped, NEW d \in Int, Answering(s, d), LLMNext,
           ~(Boot \/ Configure)
    PROVE  /\ call.kind # "boot" /\ call'.kind # "boot"
           /\ AllAnswered(s, d, history') /\ Underway(s, d, call') /\ Batched(s, batch', call')
<1> DEFINE Goes == /\ call.kind # "boot" /\ call'.kind # "boot"
                   /\ AllAnswered(s, d, history') /\ Underway(s, d, call')
                   /\ Batched(s, batch', call')
<1>1. ASSUME NEW prompt \in Prompts,
             \/ BeginGenerate(prompt)
             \/ BeginSpeculative(prompt)
             \/ BeginLogprobs(prompt)
             \/ BeginBeamSearch(prompt)
             \/ \E pattern \in Patterns : BeginStructured(prompt, pattern)
      PROVE  Goes
  BY <1>1, BeginAnswers, Zenon
<1>2. ASSUME NEW prompts \in BatchCalls, BeginBatch(prompts) PROVE Goes
  BY <1>2, BatchBegins, Zenon
<1>3. ASSUME GenerateStep PROVE Goes
  BY <1>3, GenerateAnswers, Zenon
<1>4. ASSUME SpeculativeStep PROVE Goes
  BY <1>4, SpeculativeAnswers, Zenon
<1>5. ASSUME StructuredStep \/ BeamStep PROVE Goes
  BY <1>5, OtherAnswers, Zenon
<1>6. ASSUME ServeRequest PROVE Goes
  BY <1>6, ServeAnswers, Zenon
<1>7. ASSUME EndOfPass PROVE Goes
  BY <1>7, PassEnds, Zenon
<1>8. ASSUME NEW pattern \in Patterns, StructuredPanics(pattern) PROVE Goes
  BY <1>8, PanicAnswers, Zenon
<1> HIDE DEF Goes
<1>9. Goes
  BY <1>1, <1>2, <1>3, <1>4, <1>5, <1>6, <1>7, <1>8 DEF LLMNext
<1> QED BY <1>9 DEF Goes

LEMMA AnswerInvFirst == ServingInit => AnswerInv
<1>1. ASSUME KvInit, LLMIdle PROVE AnswerInv
  <2>1. caller # "firmware"
    BY <1>1, KvAssumption DEF KvInit
  <2> QED BY <1>1, <2>1 DEF AnswerInv, LLMIdle
<1>2. ASSUME LLMInit PROVE AnswerInv
  <2>1. PICK s \in LLMSetups : NewLLMClient(s.model, s.config, s.preload)
    BY <1>2 DEF LLMInit
  <2>2. Client(s)
    <3>1. PICK x : x = chassis
      OBVIOUS
    <3>2. x.m = s.model /\ "m" \in DOMAIN x
      BY <2>1, <3>1 DEF NewLLMClient, NewDriver
    <3> QED BY <2>1, <3>1, <3>2 DEF NewLLMClient, Client
  <2>3. PICK c : c = call /\ "kind" \in DOMAIN c /\ c.kind = "boot"
    BY <2>1 DEF NewLLMClient
  <2>4. PICK list : list = history /\ list = <<>> /\ Sequential(list) /\ Len(list) = 0
    <3>1. PICK list : list = history /\ list = <<>>
      BY <2>1 DEF NewLLMClient
    <3>2. list \in Seq({}) /\ Len(list) = 0
      BY <3>1
    <3> QED BY <3>1, <3>2 DEF Sequential
  <2>5. PICK b : b = batch /\ Waiting(s, b, 1)
    <3>1. PICK b : b = batch /\ b = [reqs |-> <<>>, next |-> 1]
      BY <2>1 DEF NewLLMClient
    <3>2. PICK reqs : reqs = b.reqs /\ reqs \in Seq({}) /\ Len(reqs) = 0
      <4>1. PICK reqs : reqs = <<>>
        OBVIOUS
      <4>2. reqs = b.reqs
        BY <3>1, <4>1
      <4>3. reqs \in Seq({}) /\ Len(reqs) = 0
        BY <4>1
      <4> QED BY <4>2, <4>3
    <3>3. {"reqs", "next"} \subseteq DOMAIN b /\ b.next \in Nat
      BY <3>1
    <3>4. Waiting(s, b, 1)
      BY <3>2, <3>3 DEF Waiting, Sequential
    <3> QED BY <3>1, <3>4
  <2>6. Batched(s, b, c) /\ Underway(s, 0, c) /\ AllAnswered(s, 0, list)
    BY <2>3, <2>4, <2>5, OtherUnderway DEF Batched, Turn, AllAnswered
  <2>7. Drafting(0)
    BY <2>3, <2>4 DEF Drafting
  <2>8. Answering(s, 0)
    BY <2>3, <2>4, <2>5, <2>6, <2>7 DEF Answering
  <2>9. caller = "firmware"
    BY <2>1 DEF NewLLMClient
  <2> QED BY <2>2, <2>8, <2>9 DEF AnswerInv
<1> QED BY <1>1, <1>2 DEF ServingInit

LEMMA AnswerInvNext ==
  ClientInv /\ ServingTyped /\ AnswerInv /\ [ServingNext]_servingVars => AnswerInv'
<1> SUFFICES ASSUME ClientInv, ServingTyped, AnswerInv, [ServingNext]_servingVars
             PROVE  AnswerInv'
  OBVIOUS
<1>1. caller' = caller
  BY CallerFixed DEF servingVars, kvVars
<1>2. CASE UNCHANGED llmVars
  BY <1>1, <1>2 DEF llmVars, AnswerInv, Client, Answering, Drafting
<1>3. CASE LLMNext /\ caller = "firmware"
  <2>a. PICK s : Client(s) /\ \E d \in Int : Answering(s, d)
    BY <1>3 DEF AnswerInv
  <2>b. PICK d \in Int : Answering(s, d)
    BY <2>a
  <2>c. PICK z : Client(z) /\ CallKept(z)
    BY <1>3 DEF ClientInv
  <2>1. Client(s) /\ Answering(s, d)
    BY <2>a, <2>b
  <2>2. Client(s)'
    BY <1>3, <2>1, ClientFixed
  <2>3. CacheTyped /\ FirmwareTyped /\ BatchTyped /\ CallTyped
    BY <1>3 DEF ServingTyped
  <2>4. CASE Boot \/ Configure
    <3>1. \E e \in Int : Answering(s, e)'
      BY <2>1, <2>3, <2>4, ConfiguredAnswers
    <3> QED BY <1>1, <1>3, <2>2, <3>1 DEF AnswerInv
  <2>5. CASE ~(Boot \/ Configure)
    <3>1. FirmwareKept
      BY <1>3, <2>c, <2>3, <2>5, LLMKeepsTypes DEF Steady
    <3>2. /\ call.kind # "boot" /\ call'.kind # "boot"
          /\ AllAnswered(s, d, history') /\ Underway(s, d, call') /\ Batched(s, batch', call')
      BY <1>3, <2>1, <2>3, <2>5, CallsAnswer
    <3>3. Drafting(d)'
      <4>1. FwIs(fw, "ready", d)
        BY <2>1, <3>2 DEF Answering, Drafting
      <4>2. FwIs(fw', "ready", d)
        BY <3>1, <4>1 DEF FirmwareKept, FwStates
      <4> QED BY <3>2, <4>2 DEF Drafting
    <3>4. Answering(s, d)'
      BY <3>2, <3>3 DEF Answering
    <3> QED BY <1>1, <1>3, <2>2, <3>4 DEF AnswerInv
  <2> QED BY <2>4, <2>5
<1>4. CASE LLMNext /\ caller # "firmware"
  BY <1>4, NoLLMStep DEF ClientInv
<1> QED BY <1>2, <1>3, <1>4 DEF ServingNext, servingVars

(* A batch answers up to the end token; up to its first stop token that is *)
(* the whole answer of the prompt alone.                                   *)
LEMMA CutIsAlone ==
    ASSUME NEW s, Client(s), NEW prompt, NEW stops, NEW out,
           AnswerWhole(s, prompt, Ends({}), out)
    PROVE  UpToStop(out, stops) = Alone(prompt, stops)
<1>1. PICK D : out \in Seq(D)
  BY DEF AnswerWhole, Sampled, Sequential
<1>2. PICK L \in Nat : L = Len(out) /\ L # 0 /\ L <= s.config.max
  <2>1. Len(out) \in Nat /\ Len(out) \in 1 .. s.config.max
    BY <1>1 DEF AnswerWhole
  <2>2. s.config.max \in Nat
    BY ClientAssumption DEF Client
  <2> QED BY <2>1, <2>2
<1>3. out # <<>>
  <2>1. out = <<>> => Len(out) = 0
    OBVIOUS
  <2> QED BY <1>2, <2>1
<1> DEFINE cuts == { n \in 1 .. Len(out) : n = Len(out) \/ out[n] \in stops }
<1>4. PICK m : m = Min(cuts) /\ m \in cuts /\ \A x \in cuts : m <= x
  <2>1. cuts \in SUBSET Nat /\ L \in cuts
    BY <1>2
  <2> HIDE DEF cuts
  <2> QED BY <2>1, MinIs
<1>5. PICK k \in Nat : k = m /\ k # 0 /\ k <= L /\ (k = L \/ out[k] \in stops)
  <2>1. m \in 1 .. L /\ (m = L \/ out[m] \in stops)
    BY <1>2, <1>4
  <2> HIDE DEF cuts
  <2>2. m \in Nat /\ m # 0 /\ m <= L
    BY <2>1
  <2> QED BY <2>1, <2>2
<1>6. \A n \in 1 .. k - 1 : out[n] \notin stops
  <2> SUFFICES ASSUME NEW n \in 1 .. k - 1, out[n] \in stops PROVE FALSE
    OBVIOUS
  <2>1. n \in cuts
    BY <1>2, <1>5
  <2>2. m <= n
    BY <1>4, <2>1
  <2> QED BY <1>5, <2>2
<1>7. UpToStop(out, stops) = SubSeq(out, 1, k)
  BY <1>3, <1>4, <1>5 DEF UpToStop
<1>8. PICK cut : cut = SubSeq(out, 1, k)
  OBVIOUS
<1>9. /\ cut \in Seq(D) /\ Len(cut) = k /\ \A i \in 1 .. k : cut[i] = out[i]
      /\ \A i \in 0 .. k : SubSeq(cut, 1, i) = SubSeq(out, 1, i)
  BY <1>1, <1>2, <1>5, <1>8, PrefixIs
<1>10. Sampled(s, prompt, cut)
  <2>1. ASSUME NEW n \in 1 .. k PROVE cut[n] = DecodeOf(s, prompt, SubSeq(cut, 1, n - 1))
    <3>1. n \in 1 .. Len(out) /\ n - 1 \in 0 .. k
      BY <1>2, <1>5
    <3>2. out[n] = DecodeOf(s, prompt, SubSeq(out, 1, n - 1))
      BY <3>1 DEF AnswerWhole, Sampled
    <3> QED BY <1>9, <3>1, <3>2
  <2> QED BY <1>9, <2>1 DEF Sampled, Sequential
<1>11. NoneEnds(cut, k - 1, Ends(stops))
  <2> SUFFICES ASSUME NEW n \in 1 .. k - 1 PROVE cut[n] \notin Ends(stops)
    BY DEF NoneEnds
  <2>1. n \in 1 .. k /\ n \in 1 .. Len(out) - 1
    BY <1>2, <1>5
  <2>2. out[n] \notin Ends({})
    BY <2>1 DEF AnswerWhole, NoneEnds
  <2> QED BY <1>6, <1>9, <2>1, <2>2 DEF Ends
<1>12. k = s.config.max \/ cut[k] \in Ends(stops)
  <2>1. k \in 1 .. k
    BY <1>5
  <2>2. cut[k] = out[k]
    BY <1>9, <2>1
  <2>3. CASE k = L
    BY <1>2, <2>2, <2>3 DEF AnswerWhole, Ends
  <2>4. CASE out[k] \in stops
    BY <2>2, <2>4 DEF Ends
  <2> QED BY <1>5, <2>3, <2>4
<1>13. s.config.max \in Nat
  BY ClientAssumption DEF Client
<1>14. AnswerWhole(s, prompt, Ends(stops), cut)
  BY <1>2, <1>5, <1>9, <1>10, <1>11, <1>12, <1>13 DEF AnswerWhole
<1> QED BY <1>7, <1>8, <1>14, AnswerIsAlone

(* Whatever calls came before, whoever shares the batch and however passes *)
(* remove finished requests, generation and logprobs are answered what the *)
(* prompt alone is answered, and so is, up to the first stop token, every  *)
(* prompt of a batch; a speculation is answered, up to the first stop      *)
(* token, the drafter's own chain.  For every model, configuration, set of *)
(* stop tokens, logits and number of calls (Generate,                      *)
(* GenerateWithBatching, GenerateWithSpeculative, GenerateWithLogprobs).   *)
(* What batches and drafts go on to answer behind a stop token is not what *)
(* the configuration promises; the model is run against that promise.      *)
THEOREM CallsAnsweredAlone == ServingSpec => []CallsAnswerAlone
<1>1. AnswerInv => CallsAnswerAlone
  <2> SUFFICES ASSUME AnswerInv, NEW i \in 1 .. Len(history) PROVE AnsweredAlone(history[i])
    BY DEF CallsAnswerAlone
  <2>1. PICK h : h = history[i]
    OBVIOUS
  <2>2. history # <<>>
    <3>1. PICK list : list = history
      OBVIOUS
    <3>2. list = <<>> => Len(list) = 0
      OBVIOUS
    <3> QED BY <3>1, <3>2
  <2>3. caller = "firmware"
    BY <2>2 DEF AnswerInv
  <2>4. PICK s : Client(s) /\ \E d \in Int : Answering(s, d)
    BY <2>3 DEF AnswerInv
  <2>5. PICK d \in Int : Answering(s, d)
    BY <2>4
  <2>6. Client(s) /\ Answered(s, d, h) /\ cfg.stops = s.config.stops
    BY <2>1, <2>4, <2>5 DEF Answering, AllAnswered, Client
  <2>7. DraftCount(fw) = Round(d) /\ Round(d) \in Nat \ {0}
    <3>1. FwIs(fw, "ready", d)
      BY <2>2, <2>5 DEF Answering, Drafting
    <3> QED BY <3>1 DEF FwIs, DraftCount, Round
  <2>8. CASE h.kind \in {"generate", "logprobs"}
    <3>1. h.out = Alone(h.prompt, cfg.stops)
      BY <2>6, <2>8, AnswerIsAlone DEF Answered
    <3> QED BY <2>1, <2>8, <3>1 DEF AnsweredAlone
  <2>9. CASE h.kind = "speculative"
    <3>1. PICK r \in Nat : DraftWhole(s, Round(d), r, h.prompt, h.out)
      BY <2>6, <2>9 DEF Answered
    <3>2. h.out = AloneDrafted(h.prompt)
      BY <2>6, <2>7, <3>1, DraftIsAlone
    <3> QED BY <2>1, <2>9, <3>2 DEF AnsweredAlone
  <2>10. CASE h.kind = "batch"
    <3>1. ASSUME NEW k \in 1 .. Len(h.prompt)
          PROVE  UpToStop(h.out[k], cfg.stops) = Alone(h.prompt[k], cfg.stops)
      <4>1. AnswerWhole(s, h.prompt[k], Ends({}), h.out[k])
        BY <2>6, <2>10 DEF Answered
      <4> QED BY <2>6, <4>1, CutIsAlone
    <3> QED BY <2>1, <2>10, <3>1 DEF AnsweredAlone
  <2>11. CASE h.kind \notin {"generate", "logprobs", "speculative", "batch"}
    BY <2>1, <2>11 DEF AnsweredAlone
  <2> QED BY <2>8, <2>9, <2>10, <2>11
<1> QED BY <1>1, AnswerInvFirst, AnswerInvNext, ServingTypedFirst, ServingTypedNext,
           ClientInvFirst, ClientInvNext, PTL DEF ServingSpec
=============================================================================
