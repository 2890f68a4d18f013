---------------------------- MODULE MCCommsLoss ----------------------------
(* CommsLoss for TLC: a GenWatch connection and a bystander.                *)
EXTENDS CommsLoss
CONSTANTS c1, c2
MCConns == {c1, c2}
============================================================================
