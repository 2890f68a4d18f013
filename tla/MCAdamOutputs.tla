---------------------------- MODULE MCAdamOutputs ----------------------------
EXTENDS AdamOutputs, TLC
CONSTANTS t1, t2
MCTest == {"test"}
MCInhibit == {"inhibit"}
MCNoRelays == {}
MCOneTask == {t1}
MCTasks == {t1, t2}
Symmetry == Permutations(MCTasks)
==============================================================================
