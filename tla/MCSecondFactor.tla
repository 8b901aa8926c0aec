--------------------------- MODULE MCSecondFactor ---------------------------
(* SecondFactor with two browsers, which are interchangeable.  The          *)
(* properties say nothing once a request was overtaken, and it stays so:    *)
(* such a state is checked, and not explored any further.                   *)
EXTENDS SecondFactor, TLC

Symmetry == Permutations(Browsers)

Undisturbed == ~overtaken

=============================================================================
