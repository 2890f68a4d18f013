# Formal model of the ATS-Pi service (`atspi`)

The service is a Modbus TCP server between GenWatch (the operator's side) and an
automatic transfer switch, whose command relays and position contacts hang on an
ADAM-6060 I/O module.  It runs as one Python process on one asyncio event loop.
Beside it, a bench tool walks an operator through the wiring before the service is
installed.  These modules model the parts where several tasks, network peers, a disk,
an operator and a crash can meet in an order nobody wrote a test for.

## 1. The system

| Component (source) | State it keeps | Operations | Talks to |
|---|---|---|---|
| Connection tracker (`server.py` `ConnectionTracker`) | which connection commands | `note_request`, `note_disconnect` | safety watchdog |
| Safety watchdog (`safety.py`) | last read, `_released`, `_commander_gone` | `note_modbus_read`, `note_commander_lost`, `run` | register store, driver |
| Register store (`state.py`) | one immutable snapshot, 24-hour list | `apply_input_snapshot`, `apply_output_state`, `set_*_fault`, `can_write`, `write_register`, `read_register` | state file |
| Guarded server (`server.py`) | none of its own | `validate`, `getValues`, `setValues` | store, tracker, `on_command` |
| Dispatch (`__main__.py` `_dispatch_command`) | one task per accepted command, kept by nobody | `drive_outputs`, output fault | driver, store |
| Sampling loop (`__main__.py`) | `outputs_reset` | startup reset, read, publish, check | driver, store |
| Lifecycle (`__main__.py` `_amain`) | the critical tasks | start, shutdown | all of the above |
| ADAM driver, outputs (`io_adam.py`) | connection, fail-safe verdict, pulse slots, commanded values | `connect`, `drive_outputs`, `_pulse`, `_release`, `release_all_outputs`, `check_output_consistency` | ADAM-6060 through a pymodbus client |
| ADAM driver, inputs (`io_adam.py`) | `_Debouncer` counters, the time a Load Disconnect pulse was seen | `read_inputs` | ADAM-6060 |
| State file (`persistence.py`) | a JSON file | `load`, `save` | the file system |
| ASCO reader and hybrid driver (`io_asco_serial.py`, `io_hybrid.py`) | a serial client, `_connected` | `read_inputs`, reconnects | the switch's controller; the ADAM driver for outputs |
| Bench tool (`bench.py`) | the checks done, the relay it holds | `_verify_di`, `_verify_do`, the release on the way out | operator, ADAM driver |
| Health endpoint (`health.py`) | none | `build_status`, in a thread of its own | store, watchdog (reads only) |
| Notification, configuration, mock driver | — | — | — |

What is hard here:

* **Interleaving on one loop.**  Every `await` lets other tasks run: the watchdog
  awaits its release while commands arrive, a write reconnects between the check of
  the fail-safe and the write, two pulses of one relay overlap.
* **Writes with an unknown outcome.**  A Modbus write that times out may have been
  applied, and the client's retry queues behind later writes.
* **Crashes and restarts.**  Relays keep their state over a restart; a saved count
  may be ahead of or behind what a client saw; the first read after a restart is
  believed without debounce.
* **Two notions of time.**  The debounce counts reads, the Load Disconnect hold
  counts seconds; outages stretch one and not the other.  The 24-hour window uses a
  wall clock that may be set back.
* **Executor threads.**  An asynchronous save runs beside a synchronous one.
* **Interrupts.**  A Ctrl-C at a prompt of the bench tool takes effect at a later
  await, perhaps inside the release of the relays.

What makes each component correct: a maintained command does not outlive its
operator (tracker, watchdog); a pulse ends and a stuck relay is reported (outputs);
relays start released and are left released (lifecycle); the published position is
one the contacts showed, and settles (inputs, ASCO reader); a transfer is counted
once, and a count a client saw is never taken back (store, state file); a write
takes effect whole or not at all and the client can tell (server, store); a pass of
the bench tool vouches for the wiring, and it holds no relay while it waits (bench).

## 2. Modules

| Module | What it is |
|---|---|
| `DeadMan` | abstract: a dead man's switch over two relays |
| `CommsLoss` | tracker, watchdog, maintained commands, client queue, read-back registers; refines `DeadMan` |
| `CommsLossProofs` | theorems about `CommsLoss`, the refinement among them |
| `AdamOutputs` | output driver, pulses, startup reset, stuck-relay check, shutdown, crash |
| `AdamOutputsProofs` | theorems about `AdamOutputs` |
| `Sensing` | contacts, ADAM debounce and hold, ASCO reader, the sampling cycle, the count |
| `SensingProofs` | theorems about `Sensing`: its types, the debounce, the serial reader |
| `SensingCountProofs` | the theorem about the transfers that `Sensing` counts |
| `DurableCount` | abstract: a counter whose shown values survive |
| `TransferStore` | transfer counting, both saves, state file, restarts, the clock; refines `DurableCount` |
| `TransferStoreProofs` | theorems about `TransferStore`, the refinement among them |
| `RegisterGuard` | write validation, mode policy, reject latch, `fault_summary` and its writers |
| `RegisterGuardProofs` | theorems about `RegisterGuard` |
| `Bench` | the bench tool, its prompts, Ctrl-C and release |
| `BenchProofs` | theorems about `Bench` |
| `SequenceLemmas` | induction over the naturals, least elements, flattened sequences |
| `MC*` | small instances for TLC, one per checked module |

An action is the code between two awaits, with everything it calls.  Where the
code's names are usable they are kept (`note_request`, `apply_input_snapshot`,
`validate`).  Definitions whose comment starts with "Mutant" are plausible bugs,
used only to show that a property would notice them.

**`CommsLoss`.**  Time is counted in `CHECK_INTERVAL_S` and silence is capped one
above `Timeout`.  The pymodbus client is `bus`, a FIFO of writes waiting for its
lock: `Retry` is an attempt that timed out and queues again, applied or not.
`Command` queues the first write of the dispatch task directly, because the task
waits for nothing before it.  `wd` is the place of `run()`.  The model starts when
the startup reset has landed; before that the store refuses every command (the mode
is unknown).  A request that is not a command write is `Read`; a command write that
is refused or out of pattern still makes its connection the commander
(`RejectedCommand`), since the tracker runs before validation.  A mask write (FC22)
is the other way round: it is dispatched like a command and tracked like a read
(`MaskedCommand`).

**`DeadMan`** is what an operator would be told: the relays come on by an order only
(which may come from somebody who is not heard as the operator, as a mask write does);
a release starts only over a silent or absent operator; no second check passes over
a silence without one; after a release that completed, with no order outstanding
when it began, both relays are off; a failed release is tried again.
`CommsLoss!DeadManRule` maps the place of `run()` and the latch to `phase`, and the
queue to "an order may still reach a relay".

**`AdamOutputs`.**  Each task awaits at most one operation, its entry in `op`:
connecting, verifying, waiting for an answer, waiting on a client that another
task's reconnect has closed, or in one of the sleeps of `_release`.  A dispatch
becomes the release task of its pulse.  `Lands` lets the ADAM apply a write whose
answer is still out, once or more; the order of writes waiting for the client's lock
is left open, which is more than the client does.  `Swap` replaces the module,
`HostWatchdogTrips` is its own fail-safe.  Settling is a fact per relay, `settled`.
A write that its task gives up, or that the process leaves behind, is kept in `late`
and may be applied at any time after (`LandsLate`): the kernel goes on sending what a
closed socket still holds.  A stop cancels the server's task only, and pymodbus's
connections outlive it: `Accept` is possible until the process exits, beside the
release on the way out.
The safety watchdog's releases and FAULT_INPUT are not part of this module.

**`Sensing`.**  The switch moves in strokes, a Load Disconnect pulse at the start of
each.  `bits = None` is the ADAM, any other value a bit map of the serial reader.
A cycle reads the inputs (`ReadInputs`), then the outputs, and publishes both
(`Publish`) or neither (`ReadOutputsFails`): the inputs of a cycle that fails have
been through the debounce and the hold all the same.  A disturbed read of the ADAM
flips one contact or the pulse; one of the controller brings fewer words.  The
controller has its three bits where `Layout` says, whatever the map says, and
anything in the others (`Others`); a register is the set of its one bits
(`Registers`), decoded bit by bit (`_extract_bit`).  `Maps` are all bit maps that
pass `validate`, right or wrong, two meanings on one bit included: `Right` are the
bits of the map that are the controller's, and a map `Fits` when its contact bits
are, and its transferring bit if it has one.  The serial client is none, open or
closed, beside the reader's own belief `connected`.  The hold is in ticks of the
monotonic clock, unrelated to cycles.  The source-available and engine-start inputs,
debounced the same way, are left out.

**`TransferStore`.**  A synchronous save blocks the loop: while `syncSave` is under
way neither `Sample` nor `ModbusRead` can happen, which is the argument the code
makes.  A save is a rename and then an fsync of the directory; a power failure
keeps either side of a rename not yet synced.  A load that fails, at any restart,
starts from zeros as `StateFile.load` does (`Readings`).  A sample is any position,
in any order: which ones the drivers report, and whether a count stands for a
transfer, is `Sensing`'s subject (`CountsExplained`).  The wall clock advances, and
is set back by up to `MaxSetback` in all.

**`DurableCount`** is the counter a client is promised: it counts one by one,
shows a count only once it is safe, and takes up after any crash at or above what was
shown, unless the record was spoiled.  `TransferStore!DurableCounting` maps
`store.count` and `durable.count` to it.

**`RegisterGuard`.**  A request is one action, because no await separates
`validate` from `setValues`.  The function codes `validate` refuses or looks into are
there, and with FC22 (`MaskWrite`) the one pymodbus serves beside them: it falls
through to a check of bounds.  The configured mode is chosen in `Init`; the published
one is unknown until the first sample.

**`Bench`.**  One task, `step`, walks through `todo`.  A prompt is a blocking
`readline` inside the loop, so at a prompt no release task runs and a Ctrl-C only
marks the task (`cancel`): the SIGINT handler of `asyncio.run` cancels the main task
and returns to the read.  The cancellation arrives at the next await, whose request
may have been sent; it is not an `Exception`, so no handler of `_run` stops it.  A
second Ctrl-C is raised at the prompt itself.  `Killed` is any signal without a
handler.  When a pulse's window ends is left open, which allows more than the 1.5 s
of the code.  Wiring is any map of signals to channels; the operator actuates the
signal asked for, and may answer anything.

## 3. Runs

| Run | Instance | Shows |
|---|---|---|
| `comms_loss` | 2 connections, window 2 checks, 1 retry, 1 command queued | `OnTime`, `LatchHonest`, `NoSpuriousRelease`, `DeadManRule`, `RetriedUntilReleased`, `ReadbackConverges` |
| `comms_loss_drop` | 2 connections, window 1, no retry | **violated**: `DropReleases` |
| `comms_loss_silence` | same | **violated**: `SilenceReleases` |
| `transfer_safety` | 2 transfers counted, clock to 3, window 1, set back by 1, 1 executor save, 2 restarts, any positions, save and load failures | `ServedIsDurable`, `DiskCoherent`, `WindowWithin`, `DurableCounting` |
| `guard_safety` | writes of 1 to 3 registers at 6 addresses, by every function code that writes, 3 values, every mode | `FaultSummaryHonest`, `AllOrNothing` |
| `outputs_safety` | one pulsed relay, 2 tasks, 2 late writes | `StartReleased`, `PulseOwned`, `StopReleases` |
| `outputs_liveness` | one pulsed and one maintained relay, 1 task, readback waived | `StopReleases`, `PulseEnds`, `StuckFlagged` |
| `outputs_pulse` | one pulsed relay, 1 task | **violated**: `PulseDrops` |
| `outputs_gate` | two relays, 1 task | **violated**: `NeverAssertUnverified` |
| `sensing` | either driver, every validated bit map, 3 samples, hold 1 tick, 2 words of 2 bits, 2 strokes, 1 disturbed read | `DebounceExact`, `SettledWasRead`, `SerialGrounded`, `CountsExplained`, `PositionConverges` |
| `bench` | 2 inputs, 3 relays, 2 Ctrl-C | `LeftReleased`, `NothingHeldAtPrompt`, `PassMeansWired`, `Finishes` |
| `bench_interrupt` | 2 inputs, 4 relays, 1 Ctrl-C | **violated**: `ReleasedOnExit` |

Each module's `TypeOK` is checked by its passing run.  What each property says, and
of which code, stands above it in its module.

**Bounds.**  Two connections are a commander and a bystander; a third would be a
second bystander.  A window of two checks tells "silent for a while" from "silent too
long".  A queue of one command (two writes) plus the watchdog's write is enough for a
retry to overtake.  Two dispatch tasks are two overlapping pulses of one relay, with
the sampling loop as the third party, and each of them can leave a late write behind;
`outputs_liveness` adds a second relay, so that the release on the way out has a relay
behind it and one ahead.  Two transfers are an older save and a newer
one; a clock of three with a window of one has entries inside, at the edge of and
past the window, and one step back puts an entry ahead of the clock.  Two restarts
allow one in a state another left behind.  Three registers reach over the edge of
the band and past a refused register.  Three samples are the code's default: counts
of 0, 1 and 2 for each contact, one ahead of the other.  Two strokes go there and
back, so a rail left can be reported after its return was due; one disturbed read is
one of the fewer-than-three that the debounce has to bear.  Two words of two bits hold
the controller's three bits across the edge of the words and one bit that means
something else, and the maps put theirs anywhere.  A count up to five is never reached
but by a wrong map.  Two inputs can be
swapped, shared or dead.  Three relays are a pulse and the two maintained ones; two
Ctrl-C are the one that marks the task and the one that is raised.
`AdamOutputs` needs no bound on restarts, swaps or failures: its state is finite.
In `Sensing` and `Bench` the same is true of restarts, failed cycles and failed
requests.

**Fairness.**  The loop runs every task that can run and time passes (weak
fairness).  Strong fairness is assumed of answers only: an ADAM asked again and
again eventually connects, lets itself be verified and answers; a sampling cycle
tried again and again reads its inputs and its outputs.  Without that no release
and no position could be promised.  `Finishes` assumes that each await of the bench
tool ends and that its operator answers.  Nothing is assumed of clients, crashes,
swaps, the serial adapter or the power; `PositionConverges` speaks of runs in which
the switch and the service settle and the adapter works again and again.

`StuckFlagged` speaks of a running service.  `bench` says CHECK_DEADLOCK FALSE
because the tool ends.

**Histories** record what the code does not keep, and name the exceptions the
properties have:

* `CommsLoss`: `opQuiet` and `dropped`, what the operator's side did whatever the
  tracker thinks; `exposed`, an assert was pending when the release began, or came
  during it.
* `AdamOutputs`: `lost`, relays on by a write that reported failure, before or after
  it was applied; `finished`, the release on the way out was acknowledged; `clean`, no
  dispatch was asserting when the stop came and no assert was accepted after.
* `TransferStore`: `served`, the largest count a client saw; `transfers`, what this
  process and those before it counted; `spoiled`, a save failed, landed over a newer
  one or was cut short by a kill, or a load fell back to zeros.
* `Sensing`: `reads` and `agreed`, the last reads and the level they agreed on;
  `spurious`, disturbed reads that saw a pulse; `lapsed`, a hold ran out before the
  debounce had the reads to notice the stroke; `noise`, disturbed reads, of which the
  count bears fewer than the debounce asks for.
* `Bench`: `asserted`, the relays this run drove; `failed`, `cut`, `late`, `killed`,
  what became of the release on the way out; `transient`, the operator vouched for
  an input that no read saw change.

## 4. Where the code and its own words differ

Shown by a run:

* **A dropped commander may not be released** (`comms_loss_drop`).  The drop sets
  `_commander_gone` and forgets the commander; until the next check any
  connection's request re-arms the watchdog and clears the flag
  (`server.py:241-244`, `safety.py:53`).
* **A command accepted during a release is latched away** (`comms_loss_silence`).
  `_released = True` after the await (`safety.py:122`) overwrites the re-arming of a
  command that came meanwhile; silence after that is never acted upon.
* **A pulse with a lost answer stays on** (`outputs_pulse`).  The release is
  scheduled after the write returns (`io_adam.py:607-611`).  `StuckFlagged` shows it
  is at least reported.
* **The fail-safe gate is read too early** (`outputs_gate`).  The write behind the
  gate reconnects and re-verifies (`io_adam.py:416`, `668`), and goes ahead whatever
  the verdict.
* **Ctrl-C can cut the bench tool's release short** (`bench_interrupt`).  Pressed at
  the last prompt, it is delivered at the first request of `release_all_outputs`,
  which stops there (`bench.py:293-308`).

Named as an exception of a property that holds otherwise:

* **A phantom transfer after an outage in mid-stroke** (`lapsed` of
  `CountsExplained`).  If reads fail after the one that saw the pulse, the hold can
  run out on the clock while the debounce still lacks reads (`io_adam.py:356`): the
  rail the switch has left is published again after "transferring", and if it is the
  generator that looks like an arrival, and is counted.
* **A disturbed read of Load Disconnect at the generator counts** (`spurious`):
  DI 0 is latched from a single read, without debounce.
* **Disturbed reads in a row are believed** (`noise < Samples` of
  `CountsExplained`).  A debounce of `Samples` reads can be no better than that; with
  `Samples` of 1, which the configuration allows, a single disturbed read may count.
* **An old save over a new one** (`spoiled` of `DurableCounting`).  The executor's
  record of a retransfer can replace the file after the synchronous save of the next
  transfer (`state.py:568`); the count is served, and a restart comes up one lower.
* **A load that fails starts from zeros** (`spoiled`).  Deliberate and logged
  (`persistence.py:60-65`), and still a count that runs backwards.
* **A stop can leave a relay on** (`clean` of `StopReleases`).  The shutdown cancels
  `server_task` alone (`__main__.py:342`): the connections stay, and a command
  accepted while the release is awaited, or a dispatch under way before, writes its
  ON behind that relay's OFF.  "A stopped service must not leave a relay latched",
  says `__main__.py:350-351`.
* **A write given up may still land** (`lost` of `StartReleased`, `PulseOwned` and
  `StopReleases`).  Nothing in the code can tell; a stuck relay is reported.
* **A mask write is not looked at** (the exception of `AllOrNothing`, and
  `MaskedCommand`).  `validate` refuses FC05, FC15 and FC23 and looks into FC06 and
  FC16; FC22 falls through to pymodbus's check of bounds (`server.py:139-142`).  It
  is acknowledged on a read-only register, without effect, and dropped for the mode
  after it was acknowledged, although every write without effect is to be refused
  (`server.py:48-50`).  On a command register its value is dispatched and its
  connection does not become the commander (`server.py:231`).
* **A wrong bit map passes validation** (`Right` and `Fits`).  `validate` checks that
  each bit is in the block, not that they differ (`io_asco_serial.py:137-167`): with
  one bit for both contacts the position is unknown for ever, with a calibration
  fault while that contact is closed.

Met while reading, not shown by a run:

* `io_adam.py:373` says a transient cannot raise CALIBRATION; a disturbed first read,
  the debounce's baseline, can, as can contacts that overlap by one sample.
* `bench.py:214` says the release of a maintained relay always runs, dropped SSH
  included; SIGHUP ends the process without its `finally` (`killed`).
* `bench.py:8` drives outputs "one at a time", and line 228 waits 0.3 s "for any
  pulse to complete"; the pulses last 1.5 s, and the loop is blocked at the prompts,
  so a pulse overlaps the checks that follow.  `NothingHeldAtPrompt` therefore
  speaks of the maintained relays.
* `bench.py:103` treats the end of the input as a skip; the empty line it returns
  counts as no.
* A bench run whose release failed can still exit with 0.
* `_export_state` loads through `StateFile` "so an unreadable source bails out"
  (`__main__.py:403`); `load` falls back to zeros instead.  `_import_state` takes any
  JSON, and what it lacks becomes zero.

Outside the exceptions they name the mechanisms are sound: that is what the passing
runs show.

## 5. Proofs

Every safety invariant and action property of a passing run, and both refinements, are
theorems of their specifications, for every value of the constants.  They rest on each
module's assumptions on its constants alone: bounds are naturals, relays are among the
four there are, the controller's three bits lie apart, and the model value `None` is
none of the values it stands beside (a task, an operation, a record, an exit code, a
bit number, a snapshot).

`CommsLossProofs`, for all connections, windows, retries and queue lengths:

* `TypeCorrect`: `TypeOK` is inductive.
* `ReleasesOnTime`, `ReleasesOnlyOnLoss`: neither property is inductive.  `TimerInv`
  adds that, with a commander connected, the watchdog's timer *is* that connection's
  silence, that a pending drop means there is no commander, and that the watchdog
  only sleeps on a silence it has handled.
* `LatchTrusted`: `ReleaseInv` adds that the queue holds at most one write of the
  watchdog's, an OFF of the relay `run()` is at; that without exposure nothing queued
  asserts; and that a relay the release has passed stays off.  Lemmas on the queue
  (`QueueServed`, `QueueAppended`, `NothingAsserted`, `ServedKeeps`) carry the steps.
* `ImplementsDeadMan`: `CommsLoss` refines `DeadMan`.  Every action is mapped to a
  step of it or to a stutter, under the three invariants above and `PhaseInv` (no
  release is under way while one is latched, so that `Phase` tells them apart).

`AdamOutputsProofs`, for any wiring, any number of dispatch tasks and with or without
the hardware watchdog.  An operation that fails, reconnects or is retried can become
many things; the lemmas say once what a step does to the tasks (`GoesOn`, `Starts`,
`Becomes`, `Failing`), and the invariants are argued over those four.

* `TypeCorrect`: `TypeOK`.
* `JobsInv` underlies the rest: which task can have which job in which state of the
  service.
* `StartIsReleased`: `ResetInv` adds that the relays the startup reset has been
  through (`Behind`) stay off; the reset is the only writer until a command is
  accepted.
* `PulsesAreOwned`: `PulseInv` is stronger than `PulseOwned`.  A task that has not yet
  sent its ON may fail without releasing, so it does not count as an owner: of each
  relay that is on, some task is releasing it, or has the write that may have turned
  it on outstanding (`Holder`).
* `StopIsReleased`: `StopInv` adds that after a stop with no assert under way, and
  while none is accepted, every writer left only turns relays off; the commands that
  do come in beside the release are part of the argument.

`TransferStoreProofs`, for any window, list length, number of executor saves,
transfers, restarts and clock corrections.  `RecordsStep` says where records come
from: a step brings at most one that was not there, and that is the store's.

* `TypeCorrect`: `TypeOK`, with `CountInv`: no record, in flight or on disk, is
  further than what was counted in all.
* `ShownIsDurable`: `DurableInv` orders the counts, from the one shown through the
  durable and the visible record to memory, and closes the gap between saves.
* `DiskIsCoherent`: `CoherentInv` says it of all records, not only of those on disk.
* `WindowIsHonest`: `OrderInv` bounds how far entries are out of order by what the
  clock was set back; `WindowInv` says that the kept entries are the history without
  a prefix, every entry of which was old enough to drop.
* `ImplementsDurableCount`: `TransferStore` refines `DurableCount`, under `CountInv`
  and `DurableInv`.

`RegisterGuardProofs`, for any registers, any length of a write and any number of
dispatches: `FaultSummaryTrue`, whose `FaultInv` ties each fault flag to its last
writer; `WholeWrites`, from `ValidatedWhole` (what `validate` looks into and lets
through is what `setValues` takes) and `MaskedWhole` (of the one value of a mask write
`setValues` takes all or nothing); `TypeCorrect`.

`SensingProofs` and `SensingCountProofs`, for any debounce, hold and registers,
whatever the contacts and the disturbances do:

* `TypeCorrect`: `TypeOK`.
* `DebounceIsWindowed`: `DebounceExact`, with `DebounceInv`.  The driver keeps no
  reads, so the invariant says what a counter stands for (`Counts`): the last
  `candidate` reads differ from the stable level and the one before them does not.
* `SettledLevelsWereRead`: `SettledWasRead`, from the same invariant.  A contact that
  has just changed has its level in the whole window, so the read at which the other
  contact's counter started shows both.
* `SerialReadsGrounded`: `SerialGrounded`.  The controller's bits lie apart
  (`LayoutApart`); one that the map has right is found again where `Registers` puts
  it, for any word size and whatever else is set (`BitPlace`, `BitsShow`), and a bit
  that a short answer lacks reads as open, which makes no contact closed.  Of a bit
  the map has wrong nothing is claimed.
* `SerialCountsTrue`: with the serial reader and a map that fits, the count never
  exceeds the transfers, without any of the other exceptions of `CountsExplained`.
* `CountsAreExplained`: `CountsExplained`.  A position travels through levels, hold
  and cycle before it is counted, so the invariant is an account: `Owed` is what has
  happened less what is counted, and whatever could still be counted must be owed
  (`Earned`).  Where nothing is owed and the service waits for the generator
  (`Waits`), the generator cannot be read: the switch is not there, and the debounce
  either has not yet noticed that it left, while the hold still covers that
  (`Noticing`), or shows no generator and is not about to (`Clear`); together
  `Barred`.

`BenchProofs`, for any inputs, relays and number of interrupts:

* `NeverHeldAtPrompt`: `HoldInv` adds whose check a held relay belongs to.
* `TypeCorrect`: `TypeOK`, with `FlowInv`: what is on `todo` fits the step.
* `LeavesReleased`: `LeftInv` adds that a relay this run drove and that is still on is
  on the list of the release; `RelayOrderHas` shows that the list leaves none out.
* `PassVouches`: `PassInv` adds that an input not known to be on its channel is still
  on the list, and that between the two reads of a check only the signal asked for
  has changed (`Agree`).

`SequenceLemmas` holds what several of them need.  The library's induction theorems
take an operator and cannot be instantiated by the provers at hand; `SetInduction` is
derived from its statement about well-founded relations, which speaks of sets.

What the proofs changed in the models: `CountsExplained` used to lack
`noise < Samples`.  No invariant could be found without it, and TLC gave the
counterexample on an instance with as many disturbed reads as samples, which the
run does not have.  Four definitions were put in a form that can be reasoned
about and say the same: the records kept on load are a `FlattenSeq`, the order of
release in `AdamOutputs` a rank of each relay, in `Bench` a concatenation, and a
register the set of its one bits.

Only model-checked: the liveness properties (`RetriedUntilReleased`,
`ReadbackConverges`, `PulseEnds`, `StuckFlagged`, `PositionConverges`, `Finishes`),
since fairness and ENABLED are beyond the proof system used, and the five properties
shown violated.

## 6. Not modelled

* **Health endpoint, notification, driver protocol**: no state of their own.  The
  health thread may pair the two words of a counter from two snapshots, which the
  code accepts (`state.py:355-360`).
* **Configuration** and the checks at start: one pass over a file, no behaviour over
  time.  **Export and import of the state**: offline commands of one step.
* **Mock driver**: a stand-in for tests.
* **The remaining registers** `read_register` maps, plain projections of the
  snapshot; the source-available and engine-start inputs; the decoding of the
  fail-safe registers, which is a verdict in `AdamOutputs`.
* pymodbus's own background reconnect; systemd's restart limits.

## 7. Plan

1. Composition: the watchdog's release beside `AdamOutputs`' reconnects and shutdown.
   The two meet in `CommsLoss` only as a write that may fail or be retried, and
   `AdamOutputs` knows no watchdog; a theorem that a release of the composition
   implies both `LatchHonest` and `PulseOwned` would close the gap.
2. An abstract pulse (asserted, due, released) that `AdamOutputs` implements, as
   `DurableCount` is for the state file.
3. The two words of a counter as the health thread pairs them.
