----------------------------- MODULE AdamOutputs -----------------------------
(****************************************************************************)
(* The command outputs of the ADAM-6060 (io_adam.py) and everything of the   *)
(* service that drives them (__main__.py): the dispatch tasks, the pulse     *)
(* release tasks they leave behind, the sampling loop with its startup reset *)
(* and its stuck-relay check, and the release on shutdown.                   *)
(*                                                                           *)
(* All of them are tasks of one asyncio loop: an action is the code between  *)
(* two awaits.  Each awaits at most one Modbus operation, so a task is its   *)
(* entry in "op".  The safety watchdog only adds releases of maintained      *)
(* relays (module CommsLoss) and is left out, as is the FAULT_INPUT bit.     *)
(****************************************************************************)
EXTENDS Integers, FiniteSets

CONSTANTS
    Pulsed,        \* "test", "bypass_delay"
    Maintained,    \* "inhibit", "force_transfer"
    Tasks,         \* bound: identities of dispatch tasks with their releases
    None,          \* Python's None
    RequireWatchdog, \* require_hw_watchdog: FALSE only by waiver
    MaxLate        \* bound: writes in flight that nobody awaits any more

ASSUME ConstantsAssumption ==
    /\ Pulsed \subseteq {"test", "bypass_delay"}
    /\ Maintained \subseteq {"inhibit", "force_transfer"}
    /\ Pulsed \cup Maintained # {}
    /\ "main" \notin Tasks /\ None \notin Tasks
    /\ RequireWatchdog \in BOOLEAN
    /\ MaxLate \in Nat

Relays == Pulsed \cup Maintained

\* The order in which release_all_outputs writes.
ReleaseOrder == [test |-> 1, force_transfer |-> 2, inhibit |-> 3, bypass_delay |-> 4]

Foremost(rs) == CHOOSE r \in rs : \A q \in rs : ReleaseOrder[r] <= ReleaseOrder[q]

\* The task that samples while the service runs and releases on its way out.
Main == "main"
Writers == Tasks \cup {Main}

VARIABLES
    \* The ADAM-6060.
    relay,        \* the physical relays
    failSafe,     \* its host watchdog is really armed
    late,         \* writes on their way to it that nobody awaits any more
    \* The driver.
    connected,    \* _connected, and the client's own idea of it
    armed,        \* _hw_watchdog_ok
    slot,         \* _test_release_task / _bypass_release_task while not done
    commanded,    \* _commanded_do, or None
    settled,      \* relays commanded longer than OUTPUT_SETTLING_S ago
    op,           \* per task: the operation it is in, or None
    \* The service.
    svc,          \* "running", "stopping" or "exited"
    outputsReset, \* the startup reset has landed
    known,        \* a sample has published the ATS mode
    outputFault,  \* FAULT_OUTPUT
    \* History.
    accepted,     \* a command was accepted since the service started
    lost,         \* pulsed relays a write had switched on before it reported
                  \* failure, and relays one switched on after that
    finished,     \* the release on the way out landed
    clean         \* no dispatch was asserting then, or accepted meanwhile

adam    == <<relay, failSafe, late>>
driver  == <<connected, armed, slot, commanded, settled, op>>
service == <<svc, outputsReset, known, outputFault>>
history == <<accepted, lost, finished, clean>>
vars == <<adam, driver, service, history>>

\* Where an operation is: in _ensure_connected ("connect", "verify"), waiting
\* for its answer ("send"), on a client that was closed meanwhile ("closed"),
\* or in one of the two sleeps of _release ("window", "retry").
Stages == {"connect", "verify", "send", "closed", "window", "retry"}
Jobs == {"command", "release", "reset", "read", "final"}

\* Only a dispatch asserts; only a read has no relay; only a release sleeps.
Operation ==
    {o \in [job : Jobs, relay : Relays \cup {None}, on : BOOLEAN, at : Stages] :
        /\ o.on => o.job = "command"
        /\ o.relay = None <=> o.job = "read"
        /\ o.at \in {"window", "retry"} => o.job = "release"}

ASSUME NoneAssumption ==
    None \notin Operation /\ None \notin BOOLEAN /\ None \notin Relays

NoTasks == [x \in Writers |-> None]
NoSlots == [r \in Pulsed |-> None]
NothingCommanded == [r \in Relays |-> None]

\* A write as it travels.
Sent == [relay : Relays, on : BOOLEAN]

At(x, stage) == op[x] # None /\ op[x].at = stage
Doing(x, job) == op[x] # None /\ op[x].job = job

\* Dispatching an assert.
Asserting(x) == Doing(x, "command") /\ op[x].on

------------------------------------------------------------------------------
(* _ensure_connected and the answers of the ADAM.                            *)

\* Requests still waiting on a client that is closed under them fail.
Closed(ops) == [y \in Writers |->
    IF ops[y] # None /\ ops[y].at = "send" THEN [ops[y] EXCEPT !.at = "closed"]
                                           ELSE ops[y]]

\* ops after task x starts an operation, up to its first await: straight on
\* the wire when connected, else the old client is closed and replaced.
Begun(ops, x, job, r, on) ==
    IF connected
    THEN [ops EXCEPT ![x] = [job |-> job, relay |-> r, on |-> on, at |-> "send"]]
    ELSE [Closed(ops) EXCEPT
             ![x] = [job |-> job, relay |-> r, on |-> on, at |-> "connect"]]

Moved(x, stage) == [op EXCEPT ![x].at = stage]

\* The write of x is on its way, and has not been answered.
InFlight(x) ==
    IF (At(x, "send") \/ At(x, "closed")) /\ op[x].relay # None
    THEN {[relay |-> op[x].relay, on |-> op[x].on]} ELSE {}

\* Nobody awaits these writes any more.  The ADAM may apply them all the same,
\* now or later: the kernel goes on sending what a closed socket still holds.
GivenUp(writes) ==
    late' = IF Cardinality(late \cup writes) <= MaxLate THEN late \cup writes
                                                        ELSE late

\* Mutant: a release that failed once is given up.
RaisedForGood(x) ==
    /\ op' = [op EXCEPT ![x] = None]
    /\ outputFault' = (outputFault \/ Doing(x, "command"))
    /\ GivenUp(InFlight(x))
    /\ UNCHANGED <<relay, failSafe, slot, commanded, settled, svc, outputsReset,
                   known, history>>

\* The operation of x raised: a release will retry, a dispatch reports a
\* fault, the sampling loop waits for its next cycle.
Raised(x) ==
    /\ op' = IF Doing(x, "release") THEN Moved(x, "retry")
                                    ELSE [op EXCEPT ![x] = None]
    /\ outputFault' = (outputFault \/ Doing(x, "command"))
    /\ GivenUp(InFlight(x))
    /\ lost' = lost \cup {w.relay : w \in {v \in InFlight(x) :
                                v.on /\ v.relay \in Pulsed /\ relay[v.relay]}}
    /\ UNCHANGED <<relay, failSafe, slot, commanded, settled, svc, outputsReset,
                   known, accepted, finished, clean>>

\* connect() got its socket; _verify_hw_watchdog starts.
ConnectUp(x) ==
    /\ At(x, "connect")
    /\ connected' = TRUE
    /\ op' = Moved(x, "verify")
    /\ UNCHANGED <<adam, armed, slot, commanded, settled, service, history>>

ConnectFails(x) ==
    /\ At(x, "connect") /\ ~Doing(x, "final")
    /\ connected' = FALSE
    /\ Raised(x)
    /\ UNCHANGED armed

\* What _verify_hw_watchdog may conclude: a register it cannot read counts as
\* not armed.
Verdicts == IF RequireWatchdog THEN {failSafe, FALSE} ELSE {TRUE}

Verified(x) ==
    /\ At(x, "verify") /\ connected
    /\ armed' \in Verdicts
    /\ op' = Moved(x, "send")
    /\ UNCHANGED <<adam, connected, slot, commanded, settled, service, history>>

\* Another task lost the connection meanwhile, before the verification was
\* through or between it and the request.
VerifyFails(x) ==
    /\ At(x, "verify") /\ ~connected /\ ~Doing(x, "final")
    /\ armed' \in Verdicts
    /\ Raised(x)
    /\ UNCHANGED connected

\* The ADAM applies a write whose answer is still to come, or never comes;
\* with ADAM_RETRIES it may do so again.
Lands(x) ==
    /\ At(x, "send") /\ ~Doing(x, "read")
    /\ relay' = [relay EXCEPT ![op[x].relay] = op[x].on]
    /\ UNCHANGED <<failSafe, late, driver, service, history>>

\* It applies a write that its task, or its process, has given up.
LandsLate(w) ==
    /\ w \in late
    /\ relay' = [relay EXCEPT ![w.relay] = w.on]
    /\ late' = late \ {w}
    /\ lost' = IF w.on THEN lost \cup {w.relay} ELSE lost
    /\ UNCHANGED <<failSafe, driver, service, accepted, finished, clean>>

\* Time-out on the last attempt, a closed client (both clear _connected), or
\* an exception response (which does not).
Fails(x) ==
    /\ At(x, "send") \/ At(x, "closed")
    /\ ~Doing(x, "final")
    /\ connected' \in IF At(x, "closed") THEN {FALSE} ELSE {connected, FALSE}
    /\ Raised(x)
    /\ UNCHANGED armed

\* The ADAM applies the write of x and answers.
Answered(x, job) ==
    /\ At(x, "send") /\ Doing(x, job)
    /\ relay' = [relay EXCEPT ![op[x].relay] = op[x].on]
    /\ UNCHANGED <<failSafe, late>>

Record(r, on) ==
    /\ commanded' = [commanded EXCEPT ![r] = on]
    /\ settled' = settled \ {r}

Settle(r) ==
    /\ commanded[r] # None /\ r \notin settled
    /\ settled' = settled \cup {r}
    /\ UNCHANGED <<adam, connected, armed, slot, commanded, op, service, history>>

------------------------------------------------------------------------------
(* Dispatch tasks: drive_outputs with one command.                           *)

\* The F1 gate: nothing is asserted while the fail-safe is unverified.
Refused(on) == on /\ ~armed

\* A command the store accepted, up to the first await of its dispatch.  The
\* Modbus connections outlive the server task that a stop cancels: commands
\* are accepted until the process exits.
Accept(t, r, on) ==
    /\ svc # "exited" /\ known
    /\ op[t] = None
    /\ r \in Pulsed => on
    /\ accepted' = TRUE
    /\ \/ /\ Refused(on)
          /\ outputFault' = TRUE
          /\ UNCHANGED op
       \/ /\ ~Refused(on) /\ r \in Pulsed /\ slot[r] # None
          /\ outputFault' = FALSE
          /\ UNCHANGED op
       \/ /\ ~Refused(on) /\ (r \in Pulsed => slot[r] = None)
          /\ op' = Begun(op, t, "command", r, on)
          /\ UNCHANGED outputFault
    /\ clean' = (clean /\ ~on)
    /\ UNCHANGED <<adam, connected, armed, slot, commanded, settled, svc,
                   outputsReset, known, lost, finished>>

MaintainedDone(t) ==
    /\ Answered(t, "command") /\ op[t].relay \in Maintained
    /\ Record(op[t].relay, op[t].on)
    /\ op' = [op EXCEPT ![t] = None]
    /\ outputFault' = FALSE
    /\ lost' = lost \ {op[t].relay}
    /\ UNCHANGED <<connected, armed, slot, svc, outputsReset, known, accepted,
                   finished, clean>>

\* Mutant: the task that ends the pulse repeats its write.
PulseRepeated(t) ==
    /\ Answered(t, "command") /\ op[t].relay \in Pulsed
    /\ Record(op[t].relay, TRUE)
    /\ slot' = [slot EXCEPT ![op[t].relay] = t]
    /\ op' = [op EXCEPT ![t] = [@ EXCEPT !.job = "release", !.at = "window"]]
    /\ outputFault' = FALSE
    /\ UNCHANGED <<connected, armed, svc, outputsReset, known, history>>

\* _pulse: the relay is on; a task of its own will release it.
PulseStarted(t) ==
    /\ Answered(t, "command") /\ op[t].relay \in Pulsed
    /\ Record(op[t].relay, TRUE)
    /\ slot' = [slot EXCEPT ![op[t].relay] = t]
    /\ op' = [op EXCEPT ![t] = [@ EXCEPT !.job = "release", !.on = FALSE,
                                         !.at = "window"]]
    /\ outputFault' = FALSE
    /\ UNCHANGED <<connected, armed, svc, outputsReset, known, history>>

------------------------------------------------------------------------------
(* _release.                                                                 *)

\* Mutant: nothing to release while disconnected.
WindowOverConnected(t) ==
    /\ At(t, "window")
    /\ Record(op[t].relay, FALSE)
    /\ op' = IF connected THEN Begun(op, t, "release", op[t].relay, FALSE)
                          ELSE [op EXCEPT ![t] = None]
    /\ UNCHANGED <<adam, connected, armed, slot, service, history>>

\* OFF is on record from the end of the window on, whether or not it lands.
WindowOver(t) ==
    /\ At(t, "window")
    /\ Record(op[t].relay, FALSE)
    /\ op' = Begun(op, t, "release", op[t].relay, FALSE)
    /\ UNCHANGED <<adam, connected, armed, slot, service, history>>

RetryOver(t) ==
    /\ At(t, "retry")
    /\ op' = Begun(op, t, "release", op[t].relay, FALSE)
    /\ UNCHANGED <<adam, connected, armed, slot, commanded, settled, service,
                   history>>

\* The task is done, and with it the slot that still names it.
Released(t) ==
    /\ Answered(t, "release")
    /\ slot' = [r \in Pulsed |-> IF slot[r] = t THEN None ELSE slot[r]]
    /\ op' = [op EXCEPT ![t] = None]
    /\ lost' = lost \ {op[t].relay}
    /\ UNCHANGED <<connected, armed, commanded, settled, service, accepted,
                   finished, clean>>

------------------------------------------------------------------------------
(* release_all_outputs, on behalf of "reset" and "final".                    *)

\* Cancels the release task each slot names, then starts the first write.
ReleaseAll(job) ==
    LET cancelled == [x \in Writers |->
            IF \E r \in Pulsed : slot[r] = x THEN None ELSE op[x]]
    IN  /\ op' = Begun(cancelled, Main, job, Foremost(Relays), FALSE)
        /\ slot' = NoSlots
        /\ GivenUp(UNION {InFlight(slot[r]) : r \in {q \in Pulsed : slot[q] # None}})

Following(r) == {q \in Relays : ReleaseOrder[r] < ReleaseOrder[q]}

\* One write of it was answered.
OneReleased(job) ==
    /\ Answered(Main, job)
    /\ Record(op[Main].relay, FALSE)

ReleaseNext(job) ==
    /\ OneReleased(job)
    /\ Following(op[Main].relay) # {}
    /\ op' = Begun(op, Main, job, Foremost(Following(op[Main].relay)), FALSE)
    /\ lost' = lost \ {op[Main].relay}
    /\ UNCHANGED <<connected, armed, slot, service, accepted, finished, clean>>

------------------------------------------------------------------------------
(* The sampling loop.                                                        *)

\* Mutant: outputs_reset is set before the reset is awaited.
CycleEager ==
    /\ svc = "running" /\ op[Main] = None
    /\ outputsReset' = TRUE
    /\ IF outputsReset THEN /\ op' = Begun(op, Main, "read", None, FALSE)
                            /\ UNCHANGED <<slot, late>>
                       ELSE ReleaseAll("reset")
    /\ UNCHANGED <<relay, failSafe, connected, armed, commanded, settled, svc, known,
                   outputFault, history>>

\* SAMPLE_INTERVAL_S is over: the reset first, until it has landed once.
Cycle ==
    /\ svc = "running" /\ op[Main] = None
    /\ IF outputsReset THEN /\ op' = Begun(op, Main, "read", None, FALSE)
                            /\ UNCHANGED <<slot, late>>
                       ELSE ReleaseAll("reset")
    /\ UNCHANGED <<relay, failSafe, connected, armed, commanded, settled, service, history>>

\* The last relay is released: on to the inputs in the same cycle.
ResetDone ==
    /\ OneReleased("reset")
    /\ Following(op[Main].relay) = {}
    /\ outputsReset' = TRUE
    /\ op' = Begun(op, Main, "read", None, FALSE)
    /\ lost' = lost \ {op[Main].relay}
    /\ UNCHANGED <<connected, armed, slot, svc, known, outputFault, accepted,
                   finished, clean>>

\* check_output_consistency; commands inside their settling window pass.
Consistent == \A r \in settled : relay[r] = commanded[r]

\* Mutant: the read-back is published but not checked.
ReadDoneUnchecked ==
    /\ At(Main, "send") /\ Doing(Main, "read")
    /\ known' = TRUE
    /\ outputFault' = (outputFault \/ ~armed)
    /\ op' = [op EXCEPT ![Main] = None]
    /\ UNCHANGED <<adam, connected, armed, slot, commanded, settled, svc,
                   outputsReset, history>>

\* read_inputs and read_output_state succeeded and are published.
ReadDone ==
    /\ At(Main, "send") /\ Doing(Main, "read")
    /\ known' = TRUE
    /\ outputFault' = (outputFault \/ ~armed \/ ~Consistent)
    /\ op' = [op EXCEPT ![Main] = None]
    /\ UNCHANGED <<adam, connected, armed, slot, commanded, settled, svc,
                   outputsReset, history>>

------------------------------------------------------------------------------
(* Start, stop and the ADAM's own behaviour.                                 *)

\* _amain: the first connect() and its verdict, then the tasks.
Boot ==
    /\ svc = "exited"
    /\ svc' = "running"
    /\ connected' \in BOOLEAN
    /\ armed' \in IF connected' THEN Verdicts ELSE {~RequireWatchdog}
    /\ outputFault' = ~armed'
    /\ finished' = FALSE
    /\ clean' = FALSE
    /\ UNCHANGED <<adam, slot, commanded, settled, op, outputsReset, known,
                   accepted, lost>>

\* A signal: the sampling loop, the watchdog and the server's task are
\* cancelled, then the outputs released.  Dispatch tasks are nobody's to
\* cancel: one that is under way goes on beside the release.
Stop ==
    /\ svc = "running"
    /\ svc' = "stopping"
    /\ ReleaseAll("final")
    /\ clean' = \A t \in Tasks : ~Asserting(t)
    /\ UNCHANGED <<relay, failSafe, connected, armed, commanded, settled,
                   outputsReset, known, outputFault, accepted, lost, finished>>

\* Everything the process knew is gone; the relays stay as they are.
Exit ==
    /\ svc' = "exited"
    /\ connected' = FALSE
    /\ armed' = ~RequireWatchdog
    /\ slot' = NoSlots
    /\ commanded' = NothingCommanded
    /\ settled' = {}
    /\ op' = NoTasks
    /\ outputsReset' = FALSE
    /\ known' = FALSE
    /\ outputFault' = FALSE
    /\ accepted' = FALSE

\* The last write of the release on the way out was answered.
Leaves ==
    /\ relay' = [relay EXCEPT ![op[Main].relay] = FALSE]
    /\ lost' = lost \ {op[Main].relay}
    /\ finished' = TRUE
    /\ GivenUp(UNION {InFlight(t) : t \in Tasks})
    /\ Exit
    /\ UNCHANGED <<failSafe, clean>>

\* Mutant: the first answer ends the release.
StoppedEarly == At(Main, "send") /\ Doing(Main, "final") /\ Leaves

\* Mutant: the answer of the last write is not awaited.
StoppedBlind ==
    /\ At(Main, "send") /\ Doing(Main, "final")
    /\ Following(op[Main].relay) = {}
    /\ finished' = TRUE
    /\ GivenUp(UNION {InFlight(x) : x \in Writers})
    /\ Exit
    /\ UNCHANGED <<relay, failSafe, lost, clean>>

\* close() and exit.
Stopped ==
    /\ At(Main, "send") /\ Doing(Main, "final")
    /\ Following(op[Main].relay) = {}
    /\ Leaves

\* Killed, or the release on the way out failed or took more than 5 s.
Dies ==
    /\ svc # "exited"
    /\ Exit
    /\ clean' = FALSE
    /\ GivenUp(UNION {InFlight(x) : x \in Writers})
    /\ UNCHANGED <<relay, failSafe, lost, finished>>

\* The ADAM's host watchdog trips: nothing talks to it.
HostWatchdogTrips ==
    /\ failSafe /\ ~connected
    /\ relay' = [r \in Relays |-> FALSE]
    /\ UNCHANGED <<failSafe, late, driver, service, history>>

\* The module is replaced or factory-reset: it comes back with its relays
\* off and whatever configuration it has.
Swap ==
    /\ failSafe' \in BOOLEAN
    /\ relay' = [r \in Relays |-> FALSE]
    /\ connected' = FALSE
    /\ op' = Closed(op)
    /\ UNCHANGED <<late, armed, slot, commanded, settled, service, history>>

------------------------------------------------------------------------------
\* Whatever an earlier instance or a bench write left on.
Init ==
    /\ relay \in [Relays -> BOOLEAN]
    /\ failSafe \in BOOLEAN
    /\ late = {}
    /\ connected = FALSE
    /\ armed = ~RequireWatchdog
    /\ slot = NoSlots
    /\ commanded = NothingCommanded
    /\ settled = {}
    /\ op = NoTasks
    /\ svc = "exited"
    /\ outputsReset = FALSE
    /\ known = FALSE
    /\ outputFault = FALSE
    /\ accepted = FALSE
    /\ lost = {}
    /\ finished = FALSE
    /\ clean = FALSE

Operate(x) ==
    \/ ConnectUp(x) \/ ConnectFails(x)
    \/ Verified(x) \/ VerifyFails(x)
    \/ Lands(x) \/ Fails(x)

Pulse(t) ==
    \/ PulseStarted(t) \/ WindowOver(t) \/ RetryOver(t) \/ Released(t)

Next ==
    \/ Boot \/ Stop \/ Stopped \/ Dies
    \/ \E x \in Writers : Operate(x)
    \/ \E t \in Tasks :
         \/ \E r \in Relays, on \in BOOLEAN : Accept(t, r, on)
         \/ MaintainedDone(t)
         \/ Pulse(t)
    \/ \E job \in {"reset", "final"} : ReleaseNext(job)
    \/ Cycle \/ ResetDone \/ ReadDone
    \/ \E r \in Relays : Settle(r)
    \/ \E w \in Sent : LandsLate(w)
    \/ HostWatchdogTrips \/ Swap

Spec == Init /\ [][Next]_vars

\* What a task is due to do next when the ADAM does not answer.
Moves(x) ==
    \/ ConnectFails(x) \/ VerifyFails(x) \/ Fails(x)
    \/ x \in Tasks /\ (WindowOver(x) \/ RetryOver(x))
    \/ x = Main /\ Cycle

\* The loop runs every task that can run; the ADAM, asked again and again,
\* connects, lets itself be verified, and answers reads and releases.
Fairness ==
    /\ \A r \in Relays : WF_vars(Settle(r))
    /\ \A x \in Writers : WF_vars(Moves(x)) /\ SF_vars(ConnectUp(x))
                                            /\ SF_vars(Verified(x))
    /\ \A t \in Tasks : SF_vars(Released(t))
    /\ SF_vars(ReleaseNext("reset"))
    /\ SF_vars(ResetDone)
    /\ SF_vars(ReadDone)

FairSpec == Spec /\ Fairness

------------------------------------------------------------------------------
(* Properties.                                                               *)

TypeOK ==
    /\ relay \in [Relays -> BOOLEAN]
    /\ failSafe \in BOOLEAN /\ late \subseteq Sent
    /\ connected \in BOOLEAN /\ armed \in BOOLEAN
    /\ slot \in [Pulsed -> Tasks \cup {None}]
    /\ commanded \in [Relays -> BOOLEAN \cup {None}]
    /\ settled \subseteq Relays
    /\ op \in [Writers -> Operation \cup {None}]
    /\ svc \in {"running", "stopping", "exited"}
    /\ outputsReset \in BOOLEAN /\ known \in BOOLEAN
    /\ outputFault \in BOOLEAN /\ accepted \in BOOLEAN
    /\ finished \in BOOLEAN /\ clean \in BOOLEAN
    /\ lost \subseteq Relays

\* ICD 9.3: whatever a previous instance left on, the relays are off by the
\* time commands can be accepted, and stay off until one is; the exception is
\* a write of that instance which the ADAM applies only then.
StartReleased == known /\ ~accepted => \A r \in Relays : relay[r] => r \in lost

\* Somebody is due to turn a pulsed relay off: its release task, or the
\* dispatch that is turning it on.
Owned(r) == \E t \in Tasks : op[t] # None /\ op[t].relay = r
                             /\ op[t].job \in {"release", "command"}

\* A pulsed relay is on only while somebody is due to turn it off, however
\* pulses overlap, fail and are retried; the exception is a write that
\* reported failure and that the ADAM applied, before or after.
PulseOwned == svc = "running" /\ known =>
    \A r \in Pulsed : relay[r] => Owned(r) \/ r \in lost

\* A pulse that was acknowledged ends: its release is retried until it lands.
PulseEnds == \A t \in Tasks, r \in Pulsed :
    (At(t, "window") /\ op[t].relay = r) ~> (svc # "running" \/ ~relay[r])

\* The relay is on although no pulse on it is starting or in its window.
Stranded(r) ==
    /\ svc = "running" /\ known /\ relay[r]
    /\ \A t \in Tasks : op[t] # None /\ op[t].relay = r
                        => op[t].job = "release" /\ op[t].at # "window"

\* A pulsed relay that stays stranded on is reported as FAULT_OUTPUT, again
\* after every command that clears the bit.
StuckFlagged == \A r \in Pulsed : []<>(~Stranded(r)) \/ []<>outputFault

\* io_adam.py:111: "A pulsed relay (test, bypass) MUST drop when its window
\* elapses."
PulseDrops == \A r \in Pulsed : relay[r] ~> (svc # "running" \/ ~relay[r])

\* io_adam.py:406: "never ASSERT an ATS output while the ADAM's hardware
\* fail-safe is unverified".
NeverAssertUnverified ==
    [][(\E r \in Relays : ~relay[r] /\ relay'[r]) => armed]_vars

\* A stopped service leaves no relay latched, once its release on the way out
\* is acknowledged; the exceptions are an assert under way when it was stopped
\* or accepted after, which may still land behind the release, and one that
\* reported failure.
StopReleases == svc = "exited" /\ finished /\ clean =>
    \A r \in Relays : relay[r] => r \in lost
==============================================================================
