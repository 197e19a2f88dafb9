----------------------------- MODULE MC_Serving -----------------------------
(* Instances of the serving software for TLC. *)
EXTENDS Serving

MCUse(c, m, p, w, t) == [caller |-> c, mode |-> m, nvme |-> p, window |-> w, types |-> t]
Mixed == <<"full_attention", "sliding_attention", "full_attention">>
MCKvUses == { MCUse("sequence", "none", FALSE, 3, Mixed),
              MCUse("sequence", "nvme", TRUE, 3, <<>>),
              MCUse("sequence", "nvme", FALSE, 0, <<>>),
              MCUse("sequence", "dma_bmc", FALSE, 0, <<>>),
              MCUse("paged", "none", FALSE, 0, <<>>),
              MCUse("pages", "none", FALSE, 0, <<>>),
              MCUse("prefix", "none", FALSE, 0, <<>>) }

(* Two models on a chassis of two layers of two nodes: one with sliding    *)
(* layers and grouped heads, one with more model layers and a window for   *)
(* all of them.                                                            *)
MCModel == [ layers |-> 3, experts |-> 3, topk |-> 2, vocab |-> 5, hidden |-> 2, kvdim |-> 1,
             inter |-> 3, moeinter |-> 2, heads |-> 4, kvheads |-> 2, types |-> Mixed,
             window |-> 2, ternary |-> FALSE, dims |-> [L |-> 2, Bx |-> 1, By |-> 2] ]
MCDeeper == [MCModel EXCEPT !.layers = 4, !.experts = 5, !.types = <<>>, !.kvheads = 4]

MCConfig == [ max |-> 3, temperature |-> 0, topk |-> 0, minp |-> 0, topp |-> 0,
              repetition |-> 1, frequency |-> 0, presence |-> 0,
              flash |-> TRUE, chunked |-> FALSE, chunk |-> 2, speculative |-> FALSE, draft |-> 2,
              batching |-> TRUE, batch |-> 3, beams |-> 2, penalty |-> 2,
              logprobs |-> 2, stops |-> {4} ]
MCSampling   == [MCConfig EXCEPT !.temperature = 1, !.topk = 3, !.minp = 30, !.topp = 70,
                                 !.chunked = TRUE, !.flash = FALSE]
MCPenalties  == [MCConfig EXCEPT !.temperature = 1, !.repetition = 2, !.frequency = 3,
                                 !.presence = 5, !.beams = 3]
MCDrafting   == [MCConfig EXCEPT !.speculative = TRUE, !.draft = 2, !.batch = 2]
Setup(m, c, n) == [model |-> m, config |-> c, preload |-> n]
MCSetups == { Setup(MCModel, MCConfig, 0), Setup(MCModel, MCSampling, 9),
              Setup(MCDeeper, MCPenalties, 0), Setup(MCDeeper, MCDrafting, 9),
              Setup(MCModel, [MCDrafting EXCEPT !.stops = {}], 0) }

MCScore(token, ml, e) == (token * 7 + ml * 5 + e * 11) % 6
MCDraft(prev, step)   == (prev * 3 + step + 1) % 5
MCLogit(prev, step, t) == ((prev * 31 + step * 17 + t * t * 7 + t * 13) % 23) - 3
MCWeight(l) == IF l < 0 THEN 1 ELSE 2 + l
MCDraw(t)   == (t * 37 + 51) % 100

MCVocab == [t \in 0 .. 4 |-> CASE t = 0 -> <<"a">> [] t = 1 -> <<"a", "b">> [] t = 2 -> <<"c">>
                                [] t = 3 -> <<"b", "b">> [] t = 4 -> <<"c", "a">>]
Class(cs, rep, n) == [kind |-> "class", chars |-> cs, negate |-> FALSE, rep |-> rep, count |-> n]
Lit(ch) == [kind |-> "lit", char |-> ch]
Repeat(rep) == [kind |-> "repeat", rep |-> rep]
MCPatterns == { << Class({"a", "b"}, "count", 3), Lit("c") >>,
                << Class({"a"}, "plus", 0), [kind |-> "any"], Class({"b", "c"}, "one", 0) >>,
                << [Class({"a"}, "one", 0) EXCEPT !.negate = TRUE], Class({"c"}, "star", 0),
                   Repeat("star"), Lit("a"), Repeat("plus") >>,
                << Lit("a"), Class({"c"}, "star", 0), Repeat("star"), Repeat("plus") >>,
                << Lit("c"), Lit("a"), Lit("b") >> }
MCPrompts    == { <<0>>, <<3, 1, 0>> }
MCBatchCalls == { << <<0>>, <<1, 3, 0>> >>, << <<3>>, <<0, 1>>, <<1>> >> }
=============================================================================
