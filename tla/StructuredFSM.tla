--------------------------- MODULE StructuredFSM ---------------------------
(***************************************************************************)
(* The automaton that constrains structured generation (llm_client.go):    *)
(* CompileStructuredFSM, the mask of eligible tokens and the way a token's *)
(* characters advance it.  A pattern is the sequence of its elements,      *)
(*                                                                         *)
(*   [kind |-> "class", chars, negate, rep, count]   [..], rep one of      *)
(*                                    "one", "plus", "star", "count"       *)
(*   [kind |-> "any"]   [kind |-> "lit", char]                             *)
(*   [kind |-> "repeat", rep]   rep "plus" or "star"                       *)
(*                                                                         *)
(* where "repeat" is a + or * that follows something other than a class,   *)
(* or a class that has its repetition already.                             *)
(* A token is a sequence of characters.  States are numbered from 0; the   *)
(* transitions of a state are tried in order, each to one next state on a  *)
(* set of characters, "." standing for all of them.                        *)
(***************************************************************************)
EXTENDS Integers, SequencesExt

CONSTANTS Printable,  \* the characters a negated class ranges over
          FsmVocab    \* IDToToken as a function from token id to text

ASSUME VocabAssumption ==
  FsmVocab \in [DOMAIN FsmVocab -> Seq(UNION { ToSet(FsmVocab[id]) : id \in DOMAIN FsmVocab })]

Matches(t, ch) == "." \in t.chars \/ ch \in t.chars

(* The characters an element takes.  Negation flips the entries of the     *)
(* printable characters in the class map but leaves all of them in it.     *)
Keys(el) ==
  CASE el.kind = "any"   -> {"."}
    [] el.kind = "lit"   -> {el.char}
    [] el.kind = "class" -> IF el.negate THEN el.chars \cup Printable ELSE el.chars

(* What the parser makes: a literal is never a dot, and a count a number.  *)
Shaped(el) ==
  /\ el.kind \in {"class", "any", "lit", "repeat"}
  /\ el.kind = "lit" => el.char # "."
  /\ el.kind = "repeat" => el.rep \in {"plus", "star"}
  /\ el.kind = "class" => /\ el.rep \in {"one", "plus", "star", "count"}
                          /\ el.rep = "count" => el.count \in Nat

PatternShaped(pattern) ==
  /\ pattern \in Seq(ToSet(pattern))
  /\ \A i \in 1 .. Len(pattern) : Shaped(pattern[i])

To(chars, next) == [chars |-> chars, next |-> next]

(* A new state behind the last one, and a loop on the last one.            *)
Chained(states, chars) ==
  Append([states EXCEPT ![Len(states)] = Append(@, To(chars, Len(states)))], <<>>)

Looped(states, chars) ==
  [states EXCEPT ![Len(states)] = Append(@, To(chars, Len(states) - 1))]

Copies(states, chars, count) ==
  LET chain[k \in 0 .. count] == IF k <= 1 THEN Chained(states, chars)
                                 ELSE Chained(chain[k - 1], chars)
  IN  chain[count]

(* A + that stands alone adds the last state's transitions to the states   *)
(* they lead to.  They are loops, of which it makes duplicates, except     *)
(* behind a starred class: its "." leads to a state that was removed.      *)
Overhangs(states) ==
  LET final == states[Len(states)]
  IN  \E j \in 1 .. Len(final) : final[j].next >= Len(states)

Panics(states, el) == el.kind = "repeat" /\ el.rep = "plus" /\ Overhangs(states)

AddElement(states, el) ==
  CASE el.kind = "repeat"         -> states
    [] el.kind \in {"any", "lit"} -> Chained(states, Keys(el))
    [] el.kind = "class" /\ el.rep = "one"   -> Chained(states, Keys(el))
    [] el.kind = "class" /\ el.rep = "count" -> Copies(states, Keys(el), el.count)
    [] el.kind = "class" /\ el.rep = "plus"  -> Looped(Chained(states, Keys(el)), Keys(el))
    [] el.kind = "class" /\ el.rep = "star"  ->
         LET looped == Looped(Chained(states, Keys(el)), Keys(el))
         IN  [looped EXCEPT ![Len(looped)] = Append(@, To({"."}, Len(looped)))]

(* The states after each element.                                          *)
Built(pattern) ==
  LET built[i \in 0 .. Len(pattern)] ==
        IF i = 0 THEN << <<>> >> ELSE AddElement(built[i - 1], pattern[i])
  IN  built

(* CompileStructuredFSM does not return: an index is out of range.         *)
CompilePanics(pattern) ==
  \E i \in 1 .. Len(pattern) : Panics(Built(pattern)[i - 1], pattern[i])

Compile(pattern) ==
  LET states == Built(pattern)[Len(pattern)]
  IN  [ states   |-> IF Len(states) > 1 THEN states ELSE <<>>,
        current  |-> 0,
        complete |-> pattern = <<>>,
        broken   |-> FALSE ]   \* history: the soft-enforcement exit was taken

-----------------------------------------------------------------------------
Blocked == -1

(* The state after one character: the first transition that matches.       *)
StepFrom(states, s, ch) ==
  IF s \notin 0 .. Len(states) - 1 THEN Blocked
  ELSE LET ts   == states[s + 1]
           fits == { i \in 1 .. Len(ts) : Matches(ts[i], ch) }
       IN  IF fits = {} THEN Blocked
           ELSE ts[CHOOSE i \in fits : \A j \in fits : i <= j].next

(* walkFrom: a whole token, or Blocked.                                    *)
Walk(states, s, tok) ==
  LET at[k \in 0 .. Len(tok)] == IF k = 0 THEN s ELSE StepFrom(states, at[k - 1], tok[k])
  IN  at

WalkFrom(states, s, tok) == Walk(states, s, tok)[Len(tok)]

Accepting(states, s) == s >= Len(states) - 1

Fits(states, comp, s, tok) ==
  LET e == WalkFrom(states, s, tok)
  IN  e # Blocked /\ (Accepting(states, e) \/ e \in comp)

(* ensureCompletable: from which states whole tokens reach the end, in so  *)
(* many tokens or fewer.                                                   *)
Closer(states, comp) ==
  comp \cup { s \in 0 .. Len(states) - 2 :
               \E id \in DOMAIN FsmVocab : Fits(states, comp, s, FsmVocab[id]) }

Rounds(states) ==
  LET comp[k \in 0 .. Len(states)] == IF k = 0 THEN {Len(states) - 1}
                                      ELSE Closer(states, comp[k - 1])
  IN  comp

Completable(states) == Rounds(states)[Len(states)]

(* A mutant: a token is eligible if its own characters fit, wherever it    *)
(* leaves the pattern.                                                     *)
TokenMaskByWalk(fsm) ==
  IF fsm.complete \/ fsm.states = <<>> THEN DOMAIN FsmVocab
  ELSE LET walks == { id \in DOMAIN FsmVocab :
                        WalkFrom(fsm.states, fsm.current, FsmVocab[id]) # Blocked }
       IN  IF walks # {} THEN walks ELSE DOMAIN FsmVocab

(* TokenMask: the eligible tokens; when none can complete the pattern, the *)
(* tokens with any character that advances it.                             *)
TokenMask(fsm) ==
  IF fsm.complete \/ fsm.states = <<>> THEN DOMAIN FsmVocab
  ELSE LET comp == Completable(fsm.states)
           good == { id \in DOMAIN FsmVocab : Fits(fsm.states, comp, fsm.current, FsmVocab[id]) }
       IN  IF good # {} THEN good
           ELSE { id \in DOMAIN FsmVocab :
                    \E i \in 1 .. Len(FsmVocab[id]) :
                      StepFrom(fsm.states, fsm.current, FsmVocab[id][i]) # Blocked }

(* Advance: no matching transition ends the constraint (soft enforcement). *)
Advance(fsm, ch) ==
  LET next == StepFrom(fsm.states, fsm.current, ch)
  IN  IF fsm.current >= Len(fsm.states) THEN [fsm EXCEPT !.complete = TRUE]
      ELSE IF next = Blocked THEN [fsm EXCEPT !.complete = TRUE, !.broken = TRUE]
      ELSE [fsm EXCEPT !.current = next,
                       !.complete = @ \/ Accepting(fsm.states, next)]

Advances(fsm, tok) ==
  LET f[k \in 0 .. Len(tok)] == IF k = 0 THEN fsm ELSE Advance(f[k - 1], tok[k]) IN f

AdvanceToken(fsm, id) == Advances(fsm, FsmVocab[id])[Len(FsmVocab[id])]

-----------------------------------------------------------------------------
(* Reference: the texts a pattern of classes, any and literals denotes,    *)
(* as the source's comment describes the syntax.                           *)
InClass(el, ch) ==
  CASE el.kind = "any" -> TRUE
    [] el.kind = "lit" -> ch = el.char
    [] el.kind = "class" -> (ch \in el.chars) # el.negate

Repeats(el, n) ==
  IF el.kind # "class" THEN n = 1
  ELSE CASE el.rep = "one" -> n = 1
         [] el.rep = "plus" -> n >= 1
         [] el.rep = "star" -> TRUE
         [] el.rep = "count" -> n = el.count

(* Where an element may start in a text to leave off at one of the ends,   *)
(* and whether all of them from the last one backwards start at 1.         *)
Starts(el, text, ends) ==
  { j \in 1 .. Len(text) + 1 :
      \E n \in 0 .. Len(text) + 1 - j : /\ Repeats(el, n) /\ j + n \in ends
                                        /\ \A k \in j .. j + n - 1 : InClass(el, text[k]) }

Denotes(pattern, text) ==
  LET start[i \in 0 .. Len(pattern)] ==
        IF i = 0 THEN {Len(text) + 1}
        ELSE Starts(pattern[Len(pattern) + 1 - i], text, start[i - 1])
  IN  1 \in start[Len(pattern)]
=============================================================================
