---------------------------- MODULE RegisterGuard ----------------------------
(****************************************************************************)
(* The write side of the register map: _GuardedSlaveContext and              *)
(* LiveDataBlock (server.py), the mode policy, the reject latch and the      *)
(* fault_summary register of RegisterStore (state.py), which the sampling    *)
(* loop and the dispatch tasks (__main__.py) write as well.                  *)
(*                                                                           *)
(* A request is served without an await between validate() and setValues(),  *)
(* so it is one action.                                                      *)
(****************************************************************************)
EXTENDS Integers, Sequences, SequencesExt

CONSTANTS
    Values,        \* register values a client writes
    MaxCount,      \* bound: registers in one write
    MaxDispatches  \* bound: no further write while this many dispatches run

ASSUME ConstantsAssumption ==
    /\ Values \subseteq Nat
    /\ MaxCount \in Nat \ {0}
    /\ MaxDispatches \in Nat

Modes == {"auto", "manual", "test", "unknown"}

Test == 256
Inhibit == 257
ForceTransfer == 258
BypassDelay == 259
Commands == {Test, Inhibit, ForceTransfer, BypassDelay}

\* The command registers and their neighbours on either side.
Addresses == (Test - 1)..(BypassDelay + 1)

\* Function codes: 6, 16, 5 or 15, 23, and 22.
WriteSingle == "single"
WriteMultiple == "multiple"
WriteCoils == "coils"
ReadWrite == "readwrite"
MaskWrite == "mask"

\* _ALLOWED_MODES_FOR_ADDR
AllowedModes(addr) == IF addr = Inhibit THEN {"auto", "manual"} ELSE {"auto"}

VARIABLES
    assumedMode,  \* configuration: the mode every sample reports
    mode,         \* snapshot.ats_mode
    faults,       \* snapshot.fault_bits
    rejected,     \* snapshot.mode_reject_active
    dispatches,   \* dispatch tasks under way
    \* History.
    write,        \* the last write request
    reply,        \* its answer: acknowledged, and the intents it dispatched
    refusedLast,  \* a command write was refused, or dropped, for its mode
                  \* since the last one that was accepted
    cycleFailed,  \* the last sampling cycle failed
    outputBad     \* a dispatch failed, or a sample found an output wrong,
                  \* since the last dispatch that succeeded

vars == <<assumedMode, mode, faults, rejected, dispatches, write, reply,
          refusedLast, cycleFailed, outputBad>>

NoWrite == [fc |-> WriteSingle, start |-> Test, values |-> <<>>]
NoReply == [acked |-> TRUE, intents |-> <<>>]

Init ==
    /\ assumedMode \in Modes
    /\ mode = "unknown"
    /\ faults \in {{}, {"output"}}
    /\ rejected = FALSE
    /\ dispatches = 0
    /\ write = NoWrite
    /\ reply = NoReply
    /\ refusedLast = FALSE
    /\ cycleFailed = FALSE
    /\ outputBad = ("output" \in faults)

------------------------------------------------------------------------------
(* Serving a write.                                                          *)

\* The intents of one value: "on" and "off" of the register's relay.
Intent(addr, v) ==
    IF v = 1 THEN <<[addr |-> addr, on |-> TRUE]>>
    ELSE IF v = 0 /\ addr \in {Inhibit, ForceTransfer}
    THEN <<[addr |-> addr, on |-> FALSE]>>
    ELSE <<>>

Covered(w) == w.start..(w.start + Len(w.values) - 1)

\* Mutant: only the first register of a write is validated.
RefusalsOfFirst(w) ==
    {a \in {w.start} : a \notin Commands \/ mode \notin AllowedModes(a)}

\* validate() stops at the first register it refuses.
Refusals(w) == {a \in Covered(w) : a \notin Commands \/ mode \notin AllowedModes(a)}

\* Coil writes and FC23 are refused.  FC22 is none of the codes validate()
\* handles and falls through to pymodbus, which checks bounds alone: every
\* register here is within them.
validate(w) ==
    \/ w.fc \in {WriteSingle, WriteMultiple} /\ Refusals(w) = {}
    \/ w.fc = MaskWrite

\* can_write latches when the register it refuses is a command register.
Latches(w) ==
    /\ w.fc \in {WriteSingle, WriteMultiple}
    /\ \E a \in Refusals(w) : a \in Commands /\ \A b \in Refusals(w) : a <= b

\* Mutant: the values of a write are gone through twice.
IntentsTwice(w) == FlattenSeq([i \in 1..(2 * Len(w.values)) |->
    LET j == ((i - 1) % Len(w.values)) + 1
    IN  Intent(w.start + j - 1, w.values[j])])

\* write_register for each value in turn.  Its own mode check is the last
\* line of defence behind validate, and the only one of a mask write.
Intents(w) == FlattenSeq([i \in 1..Len(w.values) |->
    LET a == w.start + i - 1
    IN  IF a \in Commands /\ mode \in AllowedModes(a)
        THEN Intent(a, w.values[i]) ELSE <<>>])

\* write_register latches when it drops a value for the mode.
Dropped(w) == \E a \in Covered(w) : a \in Commands /\ mode \notin AllowedModes(a)

Acknowledged(w) ==
    /\ validate(w)
    /\ reply' = [acked |-> TRUE, intents |-> Intents(w)]
    /\ dispatches' = dispatches + Len(Intents(w))
    /\ rejected' = ((rejected \/ Dropped(w)) /\ Intents(w) = <<>>)
    /\ refusedLast' = ((refusedLast \/ Dropped(w)) /\ Intents(w) = <<>>)

Excepted(w) ==
    /\ ~validate(w)
    /\ reply' = [acked |-> FALSE, intents |-> <<>>]
    /\ rejected' = (rejected \/ Latches(w))
    /\ refusedLast' = (refusedLast \/ Latches(w))
    /\ UNCHANGED dispatches

Serve(w) ==
    /\ dispatches < MaxDispatches
    /\ write' = w
    /\ Acknowledged(w) \/ Excepted(w)
    /\ UNCHANGED <<assumedMode, mode, faults, cycleFailed, outputBad>>

\* The value of a mask write is the one its masks leave of the register's own.
Request(fc) ==
    \E a \in Addresses, n \in IF fc = WriteMultiple THEN 1..MaxCount ELSE {1} :
        \E vs \in [1..n -> Values] :
            Serve([fc |-> fc, start |-> a, values |-> vs])

------------------------------------------------------------------------------
(* The other writers of the snapshot.                                        *)

DispatchDone ==
    /\ dispatches > 0
    /\ dispatches' = dispatches - 1
    /\ faults' = faults \ {"output"}
    /\ outputBad' = FALSE
    /\ UNCHANGED <<assumedMode, mode, rejected, write, reply, refusedLast,
                   cycleFailed>>

DispatchFails ==
    /\ dispatches > 0
    /\ dispatches' = dispatches - 1
    /\ faults' = faults \cup {"output"}
    /\ outputBad' = TRUE
    /\ UNCHANGED <<assumedMode, mode, rejected, write, reply, refusedLast,
                   cycleFailed>>

\* apply_input_snapshot keeps the bits the service owns and takes the
\* driver's; both drivers report CALIBRATION only.
Merged(old, driver) == (old \cap {"input", "output"}) \cup driver

\* Mutant: a sample clears the reject latch with the rest of the input fault.
SampleDoneUnlatching(driver, wrong) ==
    /\ mode' = assumedMode
    /\ faults' = (Merged(faults, driver) \ {"input"})
                     \cup (IF wrong THEN {"output"} ELSE {})
    /\ rejected' = FALSE
    /\ cycleFailed' = FALSE
    /\ outputBad' = (outputBad \/ wrong)
    /\ UNCHANGED <<assumedMode, dispatches, write, reply, refusedLast>>

\* A sampling cycle that read everything; "wrong" when the fail-safe is not
\* armed or a relay does not follow.
SampleDone(driver, wrong) ==
    /\ mode' = assumedMode
    /\ faults' = (Merged(faults, driver) \ {"input"})
                     \cup (IF wrong THEN {"output"} ELSE {})
    /\ cycleFailed' = FALSE
    /\ outputBad' = (outputBad \/ wrong)
    /\ UNCHANGED <<assumedMode, rejected, dispatches, write, reply, refusedLast>>

SampleFails ==
    /\ faults' = faults \cup {"input"}
    /\ cycleFailed' = TRUE
    /\ UNCHANGED <<assumedMode, mode, rejected, dispatches, write, reply,
                   refusedLast, outputBad>>

Next ==
    \/ \E fc \in {WriteSingle, WriteMultiple, WriteCoils, ReadWrite, MaskWrite} :
         Request(fc)
    \/ DispatchDone \/ DispatchFails
    \/ \E driver \in SUBSET {"calibration"}, wrong \in BOOLEAN :
         SampleDone(driver, wrong)
    \/ SampleFails

Spec == Init /\ [][Next]_vars

------------------------------------------------------------------------------
(* Properties.                                                               *)

\* read_register(ADDR_FAULT_SUMMARY)
fault_summary == faults \cup (IF rejected THEN {"input"} ELSE {})

TypeOK ==
    /\ assumedMode \in Modes
    /\ mode \in {"unknown", assumedMode}
    /\ faults \subseteq {"input", "output", "calibration"}
    /\ rejected \in BOOLEAN
    /\ dispatches \in 0..(MaxDispatches + MaxCount)
    /\ reply.acked \in BOOLEAN
    /\ refusedLast \in BOOLEAN /\ cycleFailed \in BOOLEAN
    /\ outputBad \in BOOLEAN

\* fault_summary tells a client exactly what happened, although the server,
\* the sampling loop and the dispatch tasks all write the snapshot:
\* FAULT_INPUT while the last cycle failed or a command was refused for its
\* mode and none accepted since, FAULT_OUTPUT until a dispatch succeeds.
FaultSummaryHonest ==
    /\ ("input" \in fault_summary) = (cycleFailed \/ refusedLast)
    /\ ("output" \in fault_summary) = outputBad

\* Every value of a write that is in the pattern of its register, in order.
Whole(w) == FlattenSeq([i \in 1..Len(w.values) |->
                Intent(w.start + i - 1, w.values[i])])

\* server.py:99: the client knows whether its write took effect.  A write
\* answered with an exception dispatches nothing; one acknowledged dispatches
\* every value it holds that is in the pattern of its register, in order, and
\* never some of them.  The exception is a mask write, acknowledged unchecked:
\* its one value is dispatched or dropped, and the answer does not say which.
AllOrNothing ==
    /\ reply.intents \in {<<>>, Whole(write)}
    /\ ~reply.acked => reply.intents = <<>>
    /\ reply.acked /\ write.fc # MaskWrite => reply.intents = Whole(write)
==============================================================================
