------------------------------- MODULE DeadMan -------------------------------
(****************************************************************************)
(* What the comms-loss rule promises, without its tracker, its timer, the    *)
(* queue of writes or the steps of a release: a dead man's switch over two   *)
(* relays.  CommsLoss implements it (CommsLoss!DeadManRule).                 *)
(****************************************************************************)
EXTENDS Integers

CONSTANTS
    Relays,
    Timeout     \* checks the operator may be silent

VARIABLES
    present,    \* a commanding connection is up
    quiet,      \* checks since the operator was last heard, capped
    phase,      \* "armed", "releasing", "failed" or "released"
    ordered,    \* an order to switch a relay on may still reach it
    risk,       \* such an order was outstanding during the last release
    relay

switch == <<present, quiet, phase, ordered, risk, relay>>

Falls == \A r \in Relays : relay'[r] => relay[r]

Init ==
    /\ present = FALSE
    /\ quiet = 0
    /\ phase = "armed"
    /\ ordered = FALSE
    /\ risk = FALSE
    /\ relay = [r \in Relays |-> FALSE]

Rearmed == IF phase = "released" THEN "armed" ELSE phase

\* Perhaps an order to switch a relay on comes with it.
MayOrder ==
    \/ ordered' = TRUE /\ risk' = TRUE
    \/ UNCHANGED <<ordered, risk>>

\* The operator is heard.
Hear ==
    /\ present' = TRUE
    /\ quiet' = 0
    /\ phase' = Rearmed
    /\ MayOrder
    /\ UNCHANGED relay

\* Someone else is heard: that counts only while there is no operator.
HearBystander ==
    /\ phase' = IF present THEN phase ELSE Rearmed
    /\ MayOrder
    /\ UNCHANGED <<present, quiet, relay>>

Leave == present' = FALSE /\ UNCHANGED <<quiet, phase, ordered, risk, relay>>

\* A check interval passes: never a second one over the silence of a present
\* operator without a release, and a failed release waits for one only.
Pass ==
    /\ ~(present /\ quiet > Timeout /\ phase = "armed")
    /\ quiet' = IF quiet > Timeout THEN quiet ELSE quiet + 1
    /\ phase' = IF phase = "failed" THEN "armed" ELSE phase
    /\ UNCHANGED <<present, ordered, risk, relay>>

\* Only over a silent operator, or none.
Release ==
    /\ phase = "armed"
    /\ present => quiet > Timeout
    /\ phase' = "releasing"
    /\ risk' = ordered
    /\ UNCHANGED <<present, quiet, ordered, relay>>

\* A relay comes on by an order only.
Switch ==
    /\ relay' \in [Relays -> BOOLEAN]
    /\ ~ordered => Falls
    /\ ordered' => ordered
    /\ UNCHANGED <<present, quiet, phase, risk>>

Released ==
    /\ phase = "releasing"
    /\ phase' = "released"
    /\ relay' \in [Relays -> BOOLEAN] /\ Falls
    /\ ~risk => \A r \in Relays : ~relay'[r]
    /\ UNCHANGED <<present, quiet, ordered, risk>>

Fail ==
    /\ phase = "releasing"
    /\ phase' = "failed"
    /\ relay' \in [Relays -> BOOLEAN] /\ Falls
    /\ UNCHANGED <<present, quiet, ordered, risk>>

Next ==
    \/ Hear \/ HearBystander \/ Leave
    \/ Pass
    \/ Release \/ Released \/ Fail
    \/ Switch

Spec == Init /\ [][Next]_switch
==============================================================================
