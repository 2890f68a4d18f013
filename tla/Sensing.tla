------------------------------- MODULE Sensing -------------------------------
(****************************************************************************)
(* From the contacts to the published position: the ADAM driver's debounce   *)
(* and Load Disconnect hold (io_adam.py), the ASCO serial reader with its    *)
(* register map and its reconnects (io_asco_serial.py, behind io_hybrid.py), *)
(* the two reads of a sampling cycle (__main__.py) and what the store makes  *)
(* of the positions it is given (state.py).                                  *)
(*                                                                           *)
(* The source-available and engine-start inputs go the way of the position   *)
(* contacts and are left out.                                                *)
(****************************************************************************)
EXTENDS Integers, Sequences, FiniteSets

CONSTANTS
    None,
    Samples,      \* debounce_samples
    Hold,         \* TRANSFERRING_HOLD_S, in ticks of the monotonic clock
    WordBits,     \* bits of a holding register
    Words,        \* status_register_count
    Layout,       \* where the controller has its bits, whatever the map says
    MaxStrokes,   \* bound: strokes of the switch
    MaxNoise,     \* bound: reads that are disturbed
    MaxCount      \* bound: transfers counted, rightly or by a wrong map

Rails == {"utility", "generator"}
Levels == {"on_normal", "on_emergency"}

Positions == Rails \cup {"transferring", "unknown"}

InputSnapshot == [position : Positions, calibration : BOOLEAN]

ASSUME ConstantsAssumption ==
    /\ Samples \in Nat \ {0}
    /\ Hold \in Nat
    /\ WordBits \in Nat \ {0}
    /\ Words \in Nat
    /\ Layout \in [on_normal : Nat, on_emergency : Nat, transferring : Nat]
    /\ \A b, c \in DOMAIN Layout : Layout[b] = Layout[c] => b = c
    /\ MaxStrokes \in Nat
    /\ MaxNoise \in Nat
    /\ MaxCount \in Nat
    /\ None \notin [Levels -> BOOLEAN] /\ None \notin Nat
    /\ None \notin InputSnapshot

\* Bit numbers of AscoSerialConfig; the transferring bit is optional.
BitMap == [on_normal : Nat, on_emergency : Nat, transferring : Nat \cup {None}]

VARIABLES
    \* The switch.
    rail,        \* the rail the load is on, or is leaving
    stroke,      \* mid-stroke: both position contacts open
    pulse,       \* the Load Disconnect contact is closed
    \* The driver.
    bits,        \* AscoSerialConfig, or None for the ADAM
    stable,      \* _Debouncer._stable, None before the first read
    candidate,   \* _Debouncer._candidate_count
    seen,        \* ticks since _load_disconnect_seen_mono, or None
    port,        \* the serial adapter works
    client,      \* the serial client: None, "open" or "closed"
    connected,   \* AscoSerialReader._connected
    \* The service.
    cycle,       \* inputs read, outputs being read; None between cycles
    published,   \* what of the inputs the snapshot holds
    inputFault,  \* FAULT_INPUT
    count,       \* transfer_count_lifetime
    \* History.
    reads,       \* the last Samples reads, filled up with the first; of the
                 \* serial reader, the last one
    agreed,      \* the last level all of them agreed on, per contact
    strokes,     \* strokes begun
    transfers,   \* true number of transfers to the generator
    noise,       \* disturbed reads
    spurious,    \* those of them that saw a Load Disconnect pulse
    fresh,       \* reads since one saw the pulse, that one included, or
                 \* since one was disturbed; Samples of them are enough
    lapsed       \* the hold ran out before Samples such reads

switch  == <<rail, stroke, pulse, strokes, transfers>>
link    == <<port, client, connected>>
filter  == <<stable, candidate, seen>>
service == <<cycle, published, inputFault, count>>
history == <<reads, agreed, noise, spurious, fresh, lapsed>>
vars == <<switch, bits, link, filter, service, history>>

Adam == bits = None

------------------------------------------------------------------------------
(* The switch, and what its contacts show.                                   *)

StartStroke ==
    /\ ~stroke /\ strokes < MaxStrokes
    /\ stroke' = TRUE
    /\ pulse' = TRUE
    /\ strokes' = strokes + 1
    /\ UNCHANGED <<rail, transfers, bits, link, filter, service, history>>

PulseEnds ==
    /\ pulse
    /\ pulse' = FALSE
    /\ UNCHANGED <<rail, stroke, strokes, transfers, bits, link, filter,
                   service, history>>

EndStroke ==
    /\ stroke
    /\ stroke' = FALSE
    /\ pulse' = FALSE
    /\ rail' = IF rail = "utility" THEN "generator" ELSE "utility"
    /\ transfers' = IF rail = "utility" THEN transfers + 1 ELSE transfers
    /\ UNCHANGED <<strokes, bits, link, filter, service, history>>

Contacts == [on_normal    |-> rail = "utility" /\ ~stroke,
             on_emergency |-> rail = "generator" /\ ~stroke]

Flipped(levels, ch) == [levels EXCEPT ![ch] = ~@]

Recorded(levels) ==
    IF reads = <<>> THEN [i \in 1..Samples |-> levels]
                    ELSE Append(Tail(reads), levels)

\* The history of the reads, and the level Samples of them last agreed on.
Record(levels) ==
    /\ reads' = Recorded(levels)
    /\ agreed' = [ch \in Levels |->
                    IF \A i \in 1..Samples : reads'[i][ch] = levels[ch]
                    THEN levels[ch] ELSE agreed[ch]]

------------------------------------------------------------------------------
(* IOAdamDriver.read_inputs.                                                 *)

\* Mutant: a read of the old level does not reset the count.
DebouncedLax(levels) ==
    LET pending == [ch \in Levels |-> IF levels[ch] = stable[ch]
                                      THEN candidate[ch]
                                      ELSE candidate[ch] + 1]
        flips   == {ch \in Levels : pending[ch] >= Samples}
    IN  /\ stable' = [ch \in Levels |-> IF ch \in flips THEN levels[ch]
                                                        ELSE stable[ch]]
        /\ candidate' = [ch \in Levels |-> IF ch \in flips THEN 0
                                                           ELSE pending[ch]]

\* Mutant: one read too many before a level is taken.
DebouncedLate(levels) ==
    LET flips == {ch \in Levels : candidate[ch] >= Samples}
    IN  /\ stable' = [ch \in Levels |-> IF ch \in flips THEN levels[ch]
                                                        ELSE stable[ch]]
        /\ candidate' = [ch \in Levels |->
               IF ch \in flips \/ levels[ch] = stable[ch]
               THEN 0 ELSE candidate[ch] + 1]

\* _Debouncer.update after the first read.
Debounced(levels) ==
    LET pending == [ch \in Levels |-> IF levels[ch] = stable[ch]
                                      THEN 0 ELSE candidate[ch] + 1]
        flips   == {ch \in Levels : pending[ch] >= Samples}
    IN  /\ stable' = [ch \in Levels |-> IF ch \in flips THEN levels[ch]
                                                        ELSE stable[ch]]
        /\ candidate' = [ch \in Levels |-> IF ch \in flips THEN 0
                                                           ELSE pending[ch]]

\* The first read is the baseline.
Seeded(levels) ==
    /\ stable' = levels
    /\ candidate' = [ch \in Levels |-> 0]

update(levels) == IF stable = None THEN Seeded(levels) ELSE Debounced(levels)

\* Mutant: the hold never runs out.
_bit_pulse_latched(since) == since # None

_bit_pulse(since) == since # None /\ since < Hold

Decoded(transferring, levels) ==
    IF transferring THEN "transferring"
    ELSE IF levels["on_normal"] /\ ~levels["on_emergency"] THEN "utility"
    ELSE IF levels["on_emergency"] /\ ~levels["on_normal"] THEN "generator"
    ELSE "unknown"

Snapshot(transferring, levels) ==
    [position    |-> Decoded(transferring, levels),
     calibration |-> levels["on_normal"] /\ levels["on_emergency"]]

\* A read of the contacts as they are, or with one of the three disturbed.
AdamReads(levels, disconnect) ==
    /\ seen' = IF disconnect THEN 0 ELSE seen
    /\ update(levels)
    /\ Record(levels)
    /\ cycle' = Snapshot(_bit_pulse(seen'), stable')
    /\ fresh' = IF ~disconnect /\ fresh = Samples THEN Samples
                ELSE IF levels # Contacts THEN 0
                ELSE IF disconnect THEN 1 ELSE fresh + 1
    /\ lapsed' = (lapsed \/ (seen' = Hold /\ fresh' < Samples))
    /\ UNCHANGED link

AdamRead ==
    /\ Adam
    /\ AdamReads(Contacts, pulse)
    /\ UNCHANGED <<noise, spurious>>

AdamReadNoisy ==
    /\ Adam
    /\ noise < MaxNoise
    /\ noise' = noise + 1
    /\ \/ \E ch \in Levels : /\ AdamReads(Flipped(Contacts, ch), pulse)
                             /\ UNCHANGED spurious
       \/ /\ AdamReads(Contacts, ~pulse)
          /\ spurious' = IF pulse THEN spurious ELSE spurious + 1

\* The driver's connection and its reconnects do not reach this state.
AdamReadFails == Adam /\ UNCHANGED link

------------------------------------------------------------------------------
(* AscoSerialReader.                                                         *)

\* AscoSerialConfig.validate: every bit lies in the block that is read.
validate(map) ==
    \A b \in {map.on_normal, map.on_emergency, map.transferring} \ {None} :
        b \in 0..(Words * WordBits - 1)

\* The rest of the bits of the block, which mean something else.
Others == 0..(Words * WordBits - 1) \ {Layout[b] : b \in DOMAIN Layout}

\* The controller's status block, least significant bit and register first; a
\* register is the set of its bits that are one.
Registers(others) ==
    LET set == {Layout[ch] : ch \in {c \in Levels : Contacts[c]}}
                 \cup (IF stroke THEN {Layout.transferring} ELSE {})
                 \cup others
    IN  [w \in 1..Words |->
            {b \in 0..(WordBits - 1) : (w - 1) * WordBits + b \in set}]

\* Mutant: the bits of a register are counted from the other end.
_extract_bit_reversed(regs, b) ==
    LET word == b \div WordBits
        bit  == WordBits - 1 - (b % WordBits)
    IN  word < Len(regs) /\ bit \in regs[word + 1]

_extract_bit(regs, b) ==
    LET word == b \div WordBits
        bit  == b % WordBits
    IN  word < Len(regs) /\ bit \in regs[word + 1]

\* The words of the block that came, all of them or fewer.
AscoReads(regs) ==
    LET levels       == [ch \in Levels |-> _extract_bit(regs, bits[ch])]
        transferring == bits.transferring # None
                          /\ _extract_bit(regs, bits.transferring)
    IN  /\ cycle' = Snapshot(transferring, levels)
        /\ reads' = <<Contacts>>
        /\ UNCHANGED <<filter, agreed, fresh, lapsed, spurious>>

\* A client that is not known to be connected is replaced or opened again.
Reconnected == port \/ (connected /\ client = "open")

_ensure_connected ==
    /\ client' = IF Reconnected THEN "open" ELSE "closed"
    /\ connected' = Reconnected

AscoRead ==
    /\ ~Adam
    /\ _ensure_connected
    /\ port /\ client' = "open"
    /\ \E others \in SUBSET Others : AscoReads(Registers(others))
    /\ UNCHANGED <<port, noise>>

AscoReadShort ==
    /\ ~Adam
    /\ noise < MaxNoise
    /\ noise' = noise + 1
    /\ _ensure_connected
    /\ port /\ client' = "open"
    /\ \E n \in 0..(Words - 1), others \in SUBSET Others :
         AscoReads(SubSeq(Registers(others), 1, n))
    /\ UNCHANGED port

\* The connection, the read or its answer fails; a failed read forgets the
\* connection, an error answer does not.
AscoReadFails ==
    /\ ~Adam
    /\ \/ _ensure_connected
       \/ /\ client' = IF Reconnected THEN "open" ELSE "closed"
          /\ connected' = FALSE
    /\ UNCHANGED port

\* The adapter is unplugged, which pymodbus may notice, or works again.
PortChanges ==
    /\ ~Adam
    /\ port' = ~port
    /\ client' \in {client} \cup (IF port /\ client # None THEN {"closed"}
                                                           ELSE {})
    /\ UNCHANGED <<connected, switch, bits, filter, service, history>>

------------------------------------------------------------------------------
(* _sampling_loop: read_inputs, read_output_state, then publish both.        *)

ReadInputs ==
    /\ cycle = None
    /\ AdamRead \/ AscoRead
    /\ UNCHANGED <<switch, bits, published, inputFault, count>>

ReadInputsDisturbed ==
    /\ cycle = None
    /\ AdamReadNoisy \/ AscoReadShort
    /\ UNCHANGED <<switch, bits, published, inputFault, count>>

ReadInputsFails ==
    /\ cycle = None
    /\ AdamReadFails \/ AscoReadFails
    /\ inputFault' = TRUE
    /\ UNCHANGED <<switch, bits, filter, cycle, published, count, history>>

\* Mutant: any way to the generator counts.
ToGeneratorFromAny(from, to) == from # "generator" /\ to = "generator"

ToGenerator(from, to) ==
    from \in {"utility", "transferring"} /\ to = "generator"

\* apply_input_snapshot, apply_output_state, set_input_fault(False).
Publish ==
    /\ cycle # None
    /\ ToGenerator(published.position, cycle.position) => count < MaxCount
    /\ published' = cycle
    /\ count' = IF ToGenerator(published.position, cycle.position)
                THEN count + 1 ELSE count
    /\ inputFault' = FALSE
    /\ cycle' = None
    /\ UNCHANGED <<switch, bits, link, filter, history>>

\* The inputs of a cycle whose outputs cannot be read are not published.
ReadOutputsFails ==
    /\ cycle # None
    /\ cycle' = None
    /\ inputFault' = TRUE
    /\ UNCHANGED <<switch, bits, link, filter, published, count, history>>

Tick ==
    /\ seen # None /\ seen < Hold
    /\ seen' = seen + 1
    /\ UNCHANGED <<switch, bits, link, stable, candidate, service, history>>

------------------------------------------------------------------------------
Unpublished == [position |-> "unknown", calibration |-> FALSE]

\* Every map that passes validation, right or wrong.
Maps == {map \in [on_normal    : 0..(Words * WordBits),
                  on_emergency : 0..(Words * WordBits),
                  transferring : 0..(Words * WordBits) \cup {None}] :
           validate(map)}

Init ==
    /\ rail \in Rails
    /\ stroke = FALSE
    /\ pulse = FALSE
    /\ bits \in Maps \cup {None}
    /\ port = TRUE
    /\ count = 0
    /\ agreed = [ch \in Levels |-> FALSE]
    /\ strokes = 0
    /\ transfers = 0
    /\ noise = 0
    /\ spurious = 0
    /\ lapsed = FALSE
    /\ stable = None
    /\ candidate = [ch \in Levels |-> 0]
    /\ seen = None
    /\ client = None
    /\ connected = FALSE
    /\ cycle = None
    /\ published = Unpublished
    /\ inputFault = FALSE
    /\ reads = <<>>
    /\ fresh = Samples

\* The service is restarted; the count is on disk.
Restart ==
    /\ stable' = None
    /\ candidate' = [ch \in Levels |-> 0]
    /\ seen' = None
    /\ client' = None
    /\ connected' = FALSE
    /\ cycle' = None
    /\ published' = Unpublished
    /\ inputFault' = FALSE
    /\ reads' = <<>>
    /\ fresh' = Samples
    /\ UNCHANGED <<switch, bits, port, count, agreed, noise, spurious, lapsed>>

Next ==
    \/ StartStroke \/ PulseEnds \/ EndStroke
    \/ PortChanges
    \/ ReadInputs \/ ReadInputsDisturbed \/ ReadInputsFails
    \/ Publish \/ ReadOutputsFails
    \/ Tick
    \/ Restart

Spec == Init /\ [][Next]_vars

\* Time passes; a cycle tried again and again succeeds, and is not disturbed.
Fairness ==
    /\ WF_vars(Tick)
    /\ SF_vars(ReadInputs)
    /\ SF_vars(Publish)

FairSpec == Spec /\ Fairness

------------------------------------------------------------------------------
(* Properties.                                                               *)

TypeOK ==
    /\ rail \in Rails /\ stroke \in BOOLEAN /\ pulse \in BOOLEAN
    /\ bits # None => bits \in BitMap
    /\ stable # None => stable \in [Levels -> BOOLEAN]
    /\ candidate \in [Levels -> 0..(Samples - 1)]
    /\ seen # None => seen \in 0..Hold
    /\ port \in BOOLEAN /\ connected \in BOOLEAN
    /\ client \in {None, "open", "closed"}
    /\ cycle # None => cycle \in InputSnapshot
    /\ published \in InputSnapshot
    /\ inputFault \in BOOLEAN
    /\ count \in 0..MaxCount

\* The integrator's counters amount to this: a contact's level is the one
\* that the last Samples successive reads agreed on, however disturbed reads
\* and failed cycles come between.
DebounceExact == stable # None => stable = agreed

\* The contacts are debounced one by one, and still no combination of levels
\* is made up: the one the driver settles on was read, whole, in one of the
\* last Samples reads.
SettledWasRead ==
    [][stable' \notin {None, stable} => \E i \in 1..Samples : reads'[i] = stable']_vars

\* The bits of the map that are the controller's.
Right == {b \in DOMAIN Layout : bits[b] = Layout[b]}

Fits == Levels \subseteq Right /\ bits.transferring \in {Layout.transferring, None}

\* The serial reader names a rail only on registers that show that contact
\* closed and the other one open, wherever the bits lie, however many of the
\* words come and whatever else the map has wrong, as long as it has that
\* contact's bit right; and it raises a calibration fault only when the map has
\* the bit of a contact wrong, the two never being closed at once.
SerialGrounded ==
    LET Shows(ch) == reads[1][ch] /\ ~reads[1][CHOOSE o \in Levels : o # ch]
    IN  ~Adam /\ cycle # None =>
          /\ cycle.position = "utility" /\ "on_normal" \in Right
               => Shows("on_normal")
          /\ cycle.position = "generator" /\ "on_emergency" \in Right
               => Shows("on_emergency")
          /\ cycle.calibration => ~(Levels \subseteq Right)

\* No transfer is counted that did not happen, through outages, restarts and
\* disturbed reads, as long as there are fewer of these than the debounce would
\* take for a level; except one for each that saw a Load Disconnect pulse, and
\* unless a hold ran out on fewer reads than the debounce needs to notice the
\* stroke: the stale rail that is then published after "transferring" looks
\* like an arrival.  The serial reader's map has to be the controller's.
CountsExplained ==
    (Adam \/ Fits) /\ ~lapsed /\ noise < Samples => count <= transfers + spurious

\* The published position settles on where the switch is: the hold runs out,
\* the debounce catches up and the serial reader, if its map is right, finds
\* its way back.
PositionConverges == \A r \in Rails :
    (Adam \/ Fits) /\ <>[](rail = r /\ ~stroke) /\ []<>port /\ <>[][~Restart]_vars
      => <>[](published.position = r)
==============================================================================
