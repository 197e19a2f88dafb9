---------------------------- MODULE LinkChannel ----------------------------
(***************************************************************************)
(* What optical_link promises: a bounded FIFO of words.  In one step the   *)
(* sender may add a word, and the receiver may be clocked: it then sees    *)
(* the oldest word, or nothing because that word is still on its way.      *)
(***************************************************************************)
EXTENDS Naturals, Sequences

CONSTANTS Word, NoWord, Capacity

VARIABLES q,      \* words accepted and not yet presented, oldest first
          out     \* the word presented at the last read clock, or NoWord

Init == q = <<>> /\ out = NoWord

(* at most one word enters, after whatever leaves *)
Send(rest) == \/ q' = rest
              \/ \E w \in Word : q' = Append(rest, w) /\ Len(q') <= Capacity

NotClocked == Send(q) /\ out' = out
Nothing    == Send(q) /\ out' = NoWord
Present    == q # <<>> /\ Send(Tail(q)) /\ out' = Head(q)

Next == NotClocked \/ Nothing \/ Present

Spec == Init /\ [][Next]_<<q, out>>
============================================================================
