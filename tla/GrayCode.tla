----------------------------- MODULE GrayCode -----------------------------
(***************************************************************************)
(* The two conversions of HDL/optical_link.v, on pointers of w bits.  A    *)
(* code is a function from bit positions to BOOLEAN.                       *)
(***************************************************************************)
EXTENDS Naturals

BitOf(b, j) == (b \div 2^j) % 2 = 1

(* b ^ (b >> 1) *)
bin2gray(w, b) == [j \in 0..(w - 1) |-> BitOf(b, j) # BitOf(b, j + 1)]

(* The top bit is copied, every lower bit is the xor of the code's bit and *)
(* the binary bit above it; the result is summed back to a number.         *)
gray2bin(w, g) ==
    LET bin[j \in 0..w] == IF j = w THEN FALSE ELSE bin[j + 1] # g[j]
        sum[j \in 0..w] == IF j = 0 THEN 0
                           ELSE sum[j - 1] + IF bin[j - 1] THEN 2^(j - 1) ELSE 0
    IN  sum[w]

(* gray2bin undoes bin2gray, and stepping the pointer (wrap included)      *)
(* changes one bit of the code: what the clock crossing relies on.         *)
RoundTrip(w) == \A b \in 0..(2^w - 1) : gray2bin(w, bin2gray(w, b)) = b

OneBitSteps(w) == \A b \in 0..(2^w - 1) :
    LET c == bin2gray(w, b)
        d == bin2gray(w, (b + 1) % 2^w)
    IN  \E j \in 0..(w - 1) : \A k \in 0..(w - 1) : (c[k] # d[k]) <=> (k = j)
===========================================================================
