------------------------------ MODULE MCStream ------------------------------
(* Stream with one slot and two threads more.                               *)
EXTENDS Stream

=============================================================================
