---------------------------- MODULE DurableCount ----------------------------
(****************************************************************************)
(* What the lifetime counter promises its readers, without positions, saves, *)
(* files or the executor: it counts one by one, and what was shown cannot be *)
(* lost as long as nothing spoiled the record of it.                         *)
(* TransferStore implements it (TransferStore!DurableCounting).              *)
(****************************************************************************)
EXTENDS Integers

VARIABLES
    total,     \* counted in all
    counted,   \* the count the service has
    safe,      \* what a power failure leaves
    shown,     \* the largest count a client was shown
    spoiled    \* the record was damaged: nothing is promised about it

counter == <<total, counted, safe, shown, spoiled>>

Init ==
    /\ total = 0 /\ counted = 0 /\ safe = 0 /\ shown = 0
    /\ spoiled = FALSE

Count ==
    /\ counted' = counted + 1
    /\ total' = total + 1
    /\ UNCHANGED <<safe, shown, spoiled>>

\* What is safe grows with what was counted, never beyond it.
Persist ==
    /\ safe' \in (IF spoiled THEN 0..total ELSE safe..counted)
    /\ UNCHANGED <<total, counted, shown, spoiled>>

\* A count is shown once it is safe.
Show ==
    /\ spoiled \/ counted <= safe
    /\ shown' = IF counted > shown THEN counted ELSE shown
    /\ UNCHANGED <<total, counted, safe, spoiled>>

\* A restart takes up at what was safe or later, never below what was shown.
Restart ==
    /\ counted' \in (IF spoiled THEN 0..total ELSE safe..counted)
    /\ safe' \in (IF spoiled THEN 0..total ELSE safe..counted')
    /\ UNCHANGED <<total, shown, spoiled>>

\* A failed save, a save over a newer one, a kill that leaves a restart on a
\* record a power failure could still take back, or a restart that could not
\* read the record.
Spoil ==
    /\ ~spoiled
    /\ spoiled' = TRUE
    /\ counted' \in 0..counted
    /\ safe' \in safe..counted
    /\ UNCHANGED <<total, shown>>

Next == Count \/ Persist \/ Show \/ Restart \/ Spoil

Spec == Init /\ [][Next]_counter
=============================================================================
