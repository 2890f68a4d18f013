------------------------------- MODULE MCBench -------------------------------
(* Bench for TLC: two of the six inputs, with one pulsed relay or both.      *)
EXTENDS Bench

CONSTANTS d1, d2

MCInputs     == {d1, d2}
MCTest       == {"test"}
MCPulsed     == {"test", "bypass_delay"}
MCMaintained == {"force_transfer", "inhibit"}
=============================================================================
