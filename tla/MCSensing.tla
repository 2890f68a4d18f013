------------------------------ MODULE MCSensing ------------------------------
(* Sensing for TLC: a controller whose contact bits lie in different words.  *)
EXTENDS Sensing
MCLayout == [on_normal |-> 1, on_emergency |-> 2, transferring |-> 0]
=============================================================================
