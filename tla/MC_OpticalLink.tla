--------------------------- MODULE MC_OpticalLink --------------------------
(* A four-entry link over a fibre of no extra stage (READY_LIMIT = 2), with *)
(* 3-bit Gray pointers that wrap after every eight words.                   *)
EXTENDS OpticalLink, GrayCode

MCBits == 0..2
MCGray == [p \in 0..7 |-> bin2gray(3, p)]

(* The conversions at every pointer width up to the default FIFO's 5 bits. *)
ASSUME \A w \in 1..5 : RoundTrip(w) /\ OneBitSteps(w)
=============================================================================
