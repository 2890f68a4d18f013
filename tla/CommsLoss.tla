------------------------------ MODULE CommsLoss ------------------------------
(****************************************************************************)
(* The comms-loss safety rule: ConnectionTracker (server.py), SafetyWatchdog *)
(* (safety.py), the command dispatch tasks (__main__.py) and the two         *)
(* maintained relays they drive through the ADAM-6060 (io_adam.py), with the *)
(* read-back registers the sampling loop publishes (state.py).               *)
(*                                                                           *)
(* Everything runs on one asyncio loop, so an action is the code between two *)
(* awaits.  The model starts once the startup reset has landed and the first *)
(* sample has published the ATS mode; before that RegisterStore refuses      *)
(* every command.  FAULT_* bits and the pulsed relays are not part of this   *)
(* component's state.                                                        *)
(****************************************************************************)
EXTENDS Integers, Sequences, FiniteSets

CONSTANTS
    Conns,        \* TCP connections (one request handler instance each)
    None,         \* Python's None
    Timeout,      \* TIMEOUT_S, in units of CHECK_INTERVAL_S
    Retries,      \* ADAM_RETRIES
    MaxPending    \* bound: no new command while this many are queued

ASSUME ConstantsAssumption ==
    /\ None \notin Conns
    /\ Timeout \in Nat
    /\ Retries \in Nat
    /\ MaxPending \in Nat

Relays == {"inhibit", "force_transfer"}

\* The longest silence the model tells apart from a longer one.
MaxSilence == Timeout + 1

\* A write_coil handed to the pymodbus client, and who awaits it.
Request == [src   : {"command", "watchdog"},
            relay : Relays,
            on    : BOOLEAN,
            tries : 0..Retries]

VARIABLES
    commander,      \* ConnectionTracker._commander
    silence,        \* now - SafetyWatchdog._last_read_monotonic, in checks
    released,       \* SafetyWatchdog._released
    commanderGone,  \* SafetyWatchdog._commander_gone
    wd,             \* where SafetyWatchdog.run() is
    bus,            \* writes waiting for the client's lock, FIFO
    relay,          \* the physical relays
    rb,             \* cmd_inhibit_active / cmd_force_transfer_active
    sample,         \* read_output_state() result not yet applied, or None
    \* History: what the operator's side did, whatever the tracker thinks.
    opQuiet,        \* checks since the commanding connection was last heard
    dropped,        \* the commanding connection dropped, no command since
    exposed         \* an assert was pending at, or accepted since, the
                    \* start of the last release

watchdog == <<silence, released, commanderGone>>
history  == <<opQuiet, dropped, exposed>>
vars == <<commander, watchdog, wd, bus, relay, rb, sample, history>>

\* run(): "sleep" (in asyncio.sleep after a check that had nothing to do or
\* a release that landed), "failed" (the same sleep, after an exception),
\* "due" (sleep over), or the relay whose release drive_outputs is awaiting.
WdStates == {"sleep", "failed", "due"} \cup Relays

Advance(n) == IF n < MaxSilence THEN n + 1 ELSE n

\* Command writes waiting, whatever the watchdog has queued beside them.
Pending == Cardinality({i \in 1..Len(bus) : bus[i].src = "command"})

Asserting(q) == \E i \in 1..Len(q) : q[i].on

Write(src, r, on) == [src |-> src, relay |-> r, on |-> on, tries |-> 0]

AllReleased == [r \in Relays |-> FALSE]

------------------------------------------------------------------------------
Init ==
    /\ commander = None
    /\ silence = 0
    /\ released = FALSE
    /\ commanderGone = FALSE
    /\ wd = "sleep"
    /\ bus = <<>>
    /\ relay = AllReleased
    /\ rb = AllReleased
    /\ sample = None
    /\ opQuiet = 0
    /\ dropped = FALSE
    /\ exposed = FALSE

------------------------------------------------------------------------------
(* ConnectionTracker, called for every decoded request before validation.    *)

note_modbus_read ==
    /\ silence' = 0
    /\ commanderGone' = FALSE
    /\ released' = FALSE

\* Mutant: any request re-arms the watchdog.
RearmsAlways(c, cmdWrite) == TRUE

\* Requests that re-arm the watchdog: a command write makes its connection
\* the commander; without a commander any activity counts.
Rearms(c, cmdWrite) == cmdWrite \/ commander \in {None, c}

note_request(c, cmdWrite) ==
    /\ commander' = IF cmdWrite THEN c ELSE commander
    /\ IF Rearms(c, cmdWrite) THEN note_modbus_read ELSE UNCHANGED watchdog

\* Mutant: the drop takes the latch back.
note_commander_lost_rearms ==
    commanderGone' = TRUE /\ released' = FALSE /\ UNCHANGED silence

note_commander_lost == commanderGone' = TRUE /\ UNCHANGED <<silence, released>>

\* Mutant: any connection's drop counts as the commander's.
note_disconnect_any(c) ==
    /\ commander' = IF c = commander THEN None ELSE commander
    /\ note_commander_lost
    /\ dropped' = (dropped \/ c = commander)
    /\ UNCHANGED <<wd, bus, relay, rb, sample, opQuiet, exposed>>

\* callback_disconnected -> note_disconnect.  A bystander's disconnect
\* changes nothing.
note_disconnect(c) ==
    /\ c = commander
    /\ commander' = None
    /\ note_commander_lost
    /\ dropped' = TRUE
    /\ UNCHANGED <<wd, bus, relay, rb, sample, opQuiet, exposed>>

------------------------------------------------------------------------------
(* Requests served by the Modbus server.                                     *)

\* Any request that is not an FC06 or FC16 write into 0x0100-0x0103, and
\* queues nothing: a read, a refused write, a mask write that is dropped.
Read(c) ==
    /\ note_request(c, FALSE)
    /\ opQuiet' = IF c = commander THEN 0 ELSE opQuiet
    /\ UNCHANGED <<wd, bus, relay, rb, sample, dropped, exposed>>

\* A command write that validate() refuses (mode, address range) or
\* write_register drops (out-of-pattern value): tracked, no dispatch.
RejectedCommand(c) ==
    /\ note_request(c, TRUE)
    /\ opQuiet' = 0
    /\ dropped' = FALSE
    /\ UNCHANGED <<wd, bus, relay, rb, sample, exposed>>

\* An accepted maintained command: setValues -> write_register -> on_command
\* creates a dispatch task whose drive_outputs queues one write.  The task
\* waits for nothing before that, so it is queued here.
Queued(r, on) ==
    /\ Pending < MaxPending
    /\ bus' = Append(bus, Write("command", r, on))
    /\ dropped' = FALSE
    /\ exposed' = (exposed \/ on)
    /\ UNCHANGED <<wd, relay, rb, sample>>

Command(c, r, on) ==
    /\ note_request(c, TRUE)
    /\ opQuiet' = 0
    /\ Queued(r, on)

\* The same by a mask write (FC22), which the server lets through to
\* setValues: the tracker does not take it for a command write.
MaskedCommand(c, r, on) ==
    /\ note_request(c, FALSE)
    /\ opQuiet' = IF c = commander THEN 0 ELSE opQuiet
    /\ Queued(r, on)

------------------------------------------------------------------------------
(* SafetyWatchdog.run().                                                     *)

\* One CHECK_INTERVAL_S passes.  A sleep that is over ends before the next
\* one does; a release being awaited may take any number of them.
Tick ==
    /\ wd # "due"
    /\ silence' = Advance(silence)
    /\ opQuiet' = Advance(opQuiet)
    /\ wd' = IF wd \in {"sleep", "failed"} THEN "due" ELSE wd
    /\ UNCHANGED <<commander, released, commanderGone, bus, relay, rb, sample,
                   dropped, exposed>>

CommsLost == silence > Timeout \/ commanderGone

CheckIdle ==
    /\ wd = "due"
    /\ ~(CommsLost /\ ~released)
    /\ wd' = "sleep"
    /\ UNCHANGED <<commander, watchdog, bus, relay, rb, sample, history>>

\* release_maintained_commands(), then drive_outputs(inhibit=False,
\* force_transfer=False) up to its first await.
CheckFires ==
    /\ wd = "due"
    /\ CommsLost /\ ~released
    /\ rb' = AllReleased
    /\ bus' = Append(bus, Write("watchdog", "inhibit", FALSE))
    /\ wd' = "inhibit"
    /\ exposed' = Asserting(bus)
    /\ UNCHANGED <<commander, watchdog, relay, sample, opQuiet, dropped>>

------------------------------------------------------------------------------
(* The pymodbus client: requests take its lock in turn; an attempt that      *)
(* times out gives the lock up and queues again, Retries times.  A timeout   *)
(* does not tell whether the ADAM applied the write.                         *)

Apply(req, applied) ==
    relay' = IF applied THEN [relay EXCEPT ![req.relay] = req.on] ELSE relay

Serving(src) == bus # <<>> /\ Head(bus).src = src

\* Mutant: a write is retried without end.
RetryUnbounded ==
    /\ bus # <<>>
    /\ \E applied \in BOOLEAN : Apply(Head(bus), applied)
    /\ bus' = Append(Tail(bus), [Head(bus) EXCEPT !.tries = @ + 1])
    /\ UNCHANGED <<commander, watchdog, wd, rb, sample, history>>

Retry ==
    /\ bus # <<>>
    /\ Head(bus).tries < Retries
    /\ \E applied \in BOOLEAN : Apply(Head(bus), applied)
    /\ bus' = Append(Tail(bus), [Head(bus) EXCEPT !.tries = @ + 1])
    /\ UNCHANGED <<commander, watchdog, wd, rb, sample, history>>

\* The last attempt timed out, or the ADAM is unreachable or answered with an
\* exception (then nothing was applied).
Fails(req) == \E applied \in BOOLEAN :
    /\ applied => req.tries = Retries
    /\ Apply(req, applied)

\* _dispatch_command: the write was acknowledged.
CommandDone ==
    /\ Serving("command")
    /\ Apply(Head(bus), TRUE)
    /\ bus' = Tail(bus)
    /\ UNCHANGED <<commander, watchdog, wd, rb, sample, history>>

CommandFailed ==
    /\ Serving("command")
    /\ Fails(Head(bus))
    /\ bus' = Tail(bus)
    /\ UNCHANGED <<commander, watchdog, wd, rb, sample, history>>

\* drive_outputs goes on to the second relay.
InhibitReleased ==
    /\ Serving("watchdog")
    /\ Head(bus).relay = "inhibit"
    /\ Apply(Head(bus), TRUE)
    /\ bus' = Append(Tail(bus), Write("watchdog", "force_transfer", FALSE))
    /\ wd' = "force_transfer"
    /\ UNCHANGED <<commander, watchdog, rb, sample, history>>

\* drive_outputs returned: latch, and sleep.
ReleaseDone ==
    /\ Serving("watchdog")
    /\ Head(bus).relay = "force_transfer"
    /\ Apply(Head(bus), TRUE)
    /\ bus' = Tail(bus)
    /\ released' = TRUE
    /\ wd' = "sleep"
    /\ UNCHANGED <<commander, silence, commanderGone, rb, sample, history>>

\* Mutant: the release is latched before its writes are known to have landed.
ReleaseFailedLatched ==
    /\ Serving("watchdog")
    /\ Fails(Head(bus))
    /\ bus' = Tail(bus)
    /\ released' = TRUE
    /\ wd' = "sleep"
    /\ UNCHANGED <<commander, silence, commanderGone, rb, sample, history>>

\* Mutant: the exception ends run().
ReleaseFailedUncaught ==
    /\ Serving("watchdog")
    /\ Fails(Head(bus))
    /\ bus' = Tail(bus)
    /\ UNCHANGED <<commander, watchdog, wd, rb, sample, history>>

\* drive_outputs raised: not latched, next check tries both again.
ReleaseFailed ==
    /\ Serving("watchdog")
    /\ Fails(Head(bus))
    /\ bus' = Tail(bus)
    /\ wd' = "failed"
    /\ UNCHANGED <<commander, watchdog, rb, sample, history>>

------------------------------------------------------------------------------
(* The sampling loop's part in the read-back registers.                      *)

ReadOutputs ==
    /\ sample = None
    /\ sample' = relay
    /\ UNCHANGED <<commander, watchdog, wd, bus, relay, rb, history>>

\* Mutant: a sample only ever sets read-back bits.
ApplyOutputsSticky ==
    /\ sample # None
    /\ rb' = [r \in Relays |-> rb[r] \/ sample[r]]
    /\ sample' = None
    /\ UNCHANGED <<commander, watchdog, wd, bus, relay, history>>

ApplyOutputs ==
    /\ sample # None
    /\ rb' = sample
    /\ sample' = None
    /\ UNCHANGED <<commander, watchdog, wd, bus, relay, history>>

------------------------------------------------------------------------------
Client(c) ==
    \/ Read(c)
    \/ RejectedCommand(c)
    \/ \E r \in Relays, on \in BOOLEAN : Command(c, r, on) \/ MaskedCommand(c, r, on)
    \/ note_disconnect(c)

Next ==
    \/ \E c \in Conns : Client(c)
    \/ Tick
    \/ CheckIdle
    \/ CheckFires
    \/ Retry
    \/ CommandDone
    \/ CommandFailed
    \/ InhibitReleased
    \/ ReleaseDone
    \/ ReleaseFailed
    \/ ReadOutputs
    \/ ApplyOutputs

Spec == Init /\ [][Next]_vars

\* The event loop runs every task that can run, time passes, and the ADAM
\* answers a release it is asked for again and again.  Clients owe nothing.
Fairness ==
    /\ WF_vars(Tick)
    /\ WF_vars(CheckIdle \/ CheckFires)
    /\ WF_vars(Retry \/ CommandDone \/ CommandFailed \/ InhibitReleased
                     \/ ReleaseDone \/ ReleaseFailed)
    /\ SF_vars(InhibitReleased)
    /\ SF_vars(ReleaseDone)
    /\ WF_vars(ReadOutputs)
    /\ WF_vars(ApplyOutputs)

FairSpec == Spec /\ Fairness

------------------------------------------------------------------------------
(* Properties.                                                               *)

TypeOK ==
    /\ commander \in Conns \cup {None}
    /\ silence \in 0..MaxSilence
    /\ released \in BOOLEAN
    /\ commanderGone \in BOOLEAN
    /\ wd \in WdStates
    /\ bus \in Seq(Request)
    /\ relay \in [Relays -> BOOLEAN]
    /\ rb \in [Relays -> BOOLEAN]
    /\ sample \in [Relays -> BOOLEAN] \cup {None}
    /\ opQuiet \in 0..MaxSilence
    /\ dropped \in BOOLEAN
    /\ exposed \in BOOLEAN

\* CHANGELOG C-1.  While the operator's connection is up, however many
\* bystanders poll: a check that finds it silent for longer than the window
\* does not go back to sleep without a release that landed or failed.
OnTime ==
    (commander # None /\ wd = "sleep" /\ opQuiet > Timeout) => released

\* The latch can be trusted: once the watchdog has latched a release, both
\* relays are off unless an assert was still pending when that release
\* started or was accepted after it started.  run() latches only after both
\* writes of drive_outputs were acknowledged.
LatchHonest == released /\ ~exposed => relay = AllReleased

\* A release is never started under an operator who was heard in the window.
NoSpuriousRelease ==
    [][CheckFires => (commander # None => opQuiet > Timeout)]_vars

\* A release the rule calls for is not given up: the watchdog retries every
\* check until the writes land or comms come back.
RetriedUntilReleased ==
    (CommsLost /\ ~released) ~> (released \/ ~CommsLost)

\* The read-back registers end up telling what the relays are, although the
\* watchdog clears them before the relays drop and a sample taken earlier is
\* applied later.
ReadbackConverges == \A r \in Relays :
    /\ <>[](relay[r]) => <>[](rb[r])
    /\ <>[](~relay[r]) => <>[](~rb[r])

\* Where the rule is, seen from outside.
Phase == IF wd \in Relays THEN "releasing"
         ELSE IF wd = "failed" THEN "failed"
         ELSE IF released THEN "released" ELSE "armed"

Switch == INSTANCE DeadMan WITH
    present <- commander # None, quiet <- opQuiet, phase <- Phase,
    ordered <- Asserting(bus), risk <- exposed

\* The whole component is a dead man's switch: tracker, timer, queue, retries
\* and the two-step release together do only what DeadMan allows, in its order.
DeadManRule == Switch!Spec

\* server.py:212: "A drop of the commanding connection triggers an immediate
\* release."
DropReleases == dropped ~> (~dropped \/ relay = AllReleased)

\* safety.py:3: no read from GenWatch within the window, then the maintained
\* commands are released.
SilenceReleases ==
    (silence > Timeout) ~> (silence <= Timeout \/ relay = AllReleased)
==============================================================================
