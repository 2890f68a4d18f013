--------------------------- MODULE MCRegisterGuard ---------------------------
(* RegisterGuard for TLC: the two values in pattern and one out of it.       *)
EXTENDS RegisterGuard
MCValues == 0..2
==============================================================================
