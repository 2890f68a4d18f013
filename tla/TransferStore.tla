---------------------------- MODULE TransferStore ----------------------------
(****************************************************************************)
(* Transfer counting and its persistence: the part of RegisterStore that     *)
(* counts transfers out of the sampled positions (state.py) and the          *)
(* StateFile it saves to (persistence.py).                                   *)
(*                                                                           *)
(* The sampling loop and the Modbus server share one event loop, which a     *)
(* synchronous save blocks; asynchronous saves run in threads of the loop's  *)
(* executor beside it.  The process can be killed and the power can fail     *)
(* between any two steps.                                                    *)
(*                                                                           *)
(* A sample is any position: which ones the drivers report, and whether a    *)
(* count stands for a transfer of the switch, is module Sensing's.           *)
(****************************************************************************)
EXTENDS Integers, Sequences, FiniteSets, SequencesExt

CONSTANTS
    None,
    Window,        \* ROLLING_WINDOW_S, in ticks of the wall clock
    MaxSaves,      \* bound: asynchronous saves under way at a time
    MaxTransfers,  \* bound: transfers counted
    MaxTime,       \* bound: wall clock
    MaxSetback,    \* bound: how far the wall clock is set back in all
    MaxRestarts    \* bound: restarts of the service

ASSUME ConstantsAssumption ==
    /\ Window \in Nat
    /\ MaxSaves \in Nat
    /\ MaxTransfers \in Nat
    /\ MaxTime \in Nat \ {0}
    /\ MaxSetback \in Nat
    /\ MaxRestarts \in Nat

Positions == {"utility", "generator", "transferring", "unknown"}

\* PersistedState; also the fields of the store's snapshot it is taken from.
\* transfer_count_24h is always published as Len(recent).
PersistedState ==
    [count : 0..MaxTransfers, to_gen : 0..MaxTime, to_util : 0..MaxTime,
     recent : Seq(1..MaxTime)]

Zeros == [count |-> 0, to_gen |-> 0, to_util |-> 0, recent |-> <<>>]

Saves == 1..MaxSaves

\* A call of StateFile.save; "replaced" when its rename is done.
Saving == [rec : PersistedState, replaced : BOOLEAN]

ASSUME NoneAssumption == None \notin Saving

VARIABLES
    now,         \* wall clock
    setback,     \* how far it was set back so far
    \* The service.
    position,    \* snapshot.position
    store,       \* snapshot fields that are persisted
    syncSave,    \* the save the event loop is blocked in, or None
    saves,       \* per executor slot: the save under way, or None
    \* The file system.
    visible,     \* contents of the state file
    durable,     \* contents it has after a power failure
    \* History and bookkeeping.
    served,      \* largest lifetime count a Modbus read returned
    transfers,   \* counted in all, by this process and those before it
    spoiled,     \* a save failed, landed over a newer one, or was cut short
                 \* between its rename and the fsync of the directory, or a
                 \* load failed
    log,         \* when each count of this boot (or reloaded) was made
    sampledAt,   \* wall clock of the last sample or load
    restarts

service == <<position, store, syncSave, saves>>
disk    == <<visible, durable>>
history == <<served, transfers, spoiled, log, sampledAt, restarts>>
clock   == <<now, setback>>
vars == <<clock, service, disk, history>>

Save(rec) == [rec |-> rec, replaced |-> FALSE]

Idle == syncSave = None

NoSaves == [s \in Saves |-> None]

------------------------------------------------------------------------------
Init ==
    /\ now = 1
    /\ setback = 0
    /\ position = "unknown"
    /\ store = Zeros
    /\ syncSave = None
    /\ saves = NoSaves
    /\ visible = Zeros
    /\ durable = Zeros
    /\ served = 0
    /\ transfers = 0
    /\ spoiled = FALSE
    /\ log = <<>>
    /\ sampledAt = 1
    /\ restarts = 0

------------------------------------------------------------------------------
Tick ==
    /\ now < MaxTime
    /\ now' = now + 1
    /\ UNCHANGED <<setback, service, disk, history>>

\* NTP or an operator corrects a clock that ran ahead.
ClockStepsBack ==
    /\ now > 1
    /\ setback < MaxSetback
    /\ now' = now - 1
    /\ setback' = setback + 1
    /\ UNCHANGED <<service, disk, history>>

------------------------------------------------------------------------------
(* RegisterStore.                                                            *)

\* Mutant: one popleft instead of a loop.
EvictOne(q, cutoff) == IF q # <<>> /\ Head(q) < cutoff THEN Tail(q) ELSE q

\* popleft while the head is past the cutoff.
Evict(q, cutoff) ==
    LET kept == {i \in 1..Len(q) : q[i] >= cutoff}
    IN  IF kept = {} THEN <<>> ELSE SubSeq(q, Min(kept), Len(q))

ToGenerator(from, to) ==
    from \in {"utility", "transferring"} /\ to = "generator"

ToUtility(from, to) ==
    from \in {"generator", "transferring"} /\ to = "utility"

Counted(rec, t) ==
    [rec EXCEPT !.count = @ + 1, !.to_gen = t,
                !.recent = Evict(Append(@, t), t - Window)]

\* Mutant: the retransfer goes on the 24-hour list.
ReturnedListed(rec, t) ==
    [rec EXCEPT !.to_util = t, !.recent = Evict(Append(@, t), t - Window)]

\* Mutant: the retransfer is counted.
ReturnedCounted(rec, t) ==
    [rec EXCEPT !.count = @ + 1, !.to_util = t, !.recent = Evict(@, t - Window)]

Returned(rec, t) ==
    [rec EXCEPT !.to_util = t, !.recent = Evict(@, t - Window)]

Evicted(rec, t) == [rec EXCEPT !.recent = Evict(@, t - Window)]

\* apply_input_snapshot: swap the snapshot, then save.  A count is saved
\* before the event loop does anything else; a retransfer is handed to the
\* executor; nothing else is saved.
apply_input_snapshot(p) ==
    /\ Idle
    /\ position' = p
    /\ sampledAt' = now
    /\ \/ /\ ToGenerator(position, p)
          /\ transfers < MaxTransfers
          /\ transfers' = transfers + 1
          /\ store' = Counted(store, now)
          /\ syncSave' = Save(store')
          /\ log' = Append(log, now)
          /\ UNCHANGED saves
       \/ /\ ToUtility(position, p)
          /\ store' = Returned(store, now)
          /\ \E s \in Saves :
               /\ saves[s] = None
               /\ saves' = [saves EXCEPT ![s] = Save(store')]
          /\ UNCHANGED <<syncSave, transfers, log>>
       \/ /\ ~ToGenerator(position, p) /\ ~ToUtility(position, p)
          /\ store' = Evicted(store, now)
          /\ UNCHANGED <<syncSave, saves, transfers, log>>
    /\ UNCHANGED <<clock, disk, served, spoiled, restarts>>

Sample == \E p \in Positions : apply_input_snapshot(p)

\* Mutant: the save of a count does not hold up the server.
ModbusReadMeanwhile ==
    /\ served' = Max({served, store.count})
    /\ UNCHANGED <<clock, service, disk, transfers, spoiled, log,
                   sampledAt, restarts>>

\* A Modbus read of transfer_count_lifetime, both words from one snapshot.
ModbusRead ==
    /\ Idle
    /\ served' = Max({served, store.count})
    /\ UNCHANGED <<clock, service, disk, transfers, spoiled, log,
                   sampledAt, restarts>>

------------------------------------------------------------------------------
(* StateFile.save: temporary file and fsync, then rename, then fsync of the  *)
(* directory.                                                                *)

\* os.replace: atomic.
Replace(rec) ==
    /\ visible' = rec
    /\ spoiled' = (spoiled \/ rec.count < visible.count)
    /\ UNCHANGED durable

SyncReplace ==
    /\ syncSave # None /\ ~syncSave.replaced
    /\ Replace(syncSave.rec)
    /\ syncSave' = [syncSave EXCEPT !.replaced = TRUE]
    /\ UNCHANGED <<clock, position, store, saves, served, transfers, log,
                   sampledAt, restarts>>

\* Mutant: save returns without the fsync of the directory.
SyncDoneUnsynced ==
    /\ syncSave # None /\ syncSave.replaced
    /\ syncSave' = None
    /\ UNCHANGED <<clock, position, store, saves, disk, history>>

SyncDone ==
    /\ syncSave # None /\ syncSave.replaced
    /\ durable' = visible
    /\ syncSave' = None
    /\ UNCHANGED <<clock, position, store, saves, visible, history>>

AsyncReplace(s) ==
    /\ saves[s] # None /\ ~saves[s].replaced
    /\ Replace(saves[s].rec)
    /\ saves' = [saves EXCEPT ![s].replaced = TRUE]
    /\ UNCHANGED <<clock, position, store, syncSave, served, transfers,
                   log, sampledAt, restarts>>

AsyncDone(s) ==
    /\ saves[s] # None /\ saves[s].replaced
    /\ durable' = visible
    /\ saves' = [saves EXCEPT ![s] = None]
    /\ UNCHANGED <<clock, position, store, syncSave, visible, history>>

\* What may fail: everything up to the rename (an OSError _save_blocking
\* swallows), or the fsync of the directory (which save itself swallows).
SyncFails ==
    /\ syncSave # None
    /\ syncSave' = None
    /\ spoiled' = TRUE
    /\ UNCHANGED <<clock, position, store, saves, disk, served,
                   transfers, log, sampledAt, restarts>>

AsyncFails(s) ==
    /\ saves[s] # None
    /\ saves' = [saves EXCEPT ![s] = None]
    /\ spoiled' = TRUE
    /\ UNCHANGED <<clock, position, store, syncSave, disk, served,
                   transfers, log, sampledAt, restarts>>

------------------------------------------------------------------------------
(* Restarts.                                                                 *)

\* StateFile.load and RegisterStore.__init__: every entry past the cutoff is
\* dropped, wherever it is.
Kept(q, cutoff) ==
    FlattenSeq([i \in 1..Len(q) |-> IF q[i] >= cutoff THEN <<q[i]>> ELSE <<>>])

Loaded(rec, t) == [rec EXCEPT !.recent = Kept(@, t - Window)]

\* What load makes of a record: zeros, when the file cannot be read or parsed.
Readings(rec) == {rec, Zeros}

Boot(rec, read) ==
    /\ restarts < MaxRestarts
    /\ restarts' = restarts + 1
    /\ visible' = rec
    /\ store' = Loaded(read, now)
    /\ log' = store'.recent
    /\ sampledAt' = now
    /\ position' = "unknown"
    /\ syncSave' = None
    /\ saves' = NoSaves
    /\ UNCHANGED <<clock, served, transfers>>

\* The process dies and systemd restarts it: the file system survives, and
\* load reads a rename that a power failure could still undo.
Killed ==
    \E read \in Readings(visible) :
        /\ Boot(visible, read)
        /\ spoiled' = (spoiled \/ visible # durable \/ read # visible)
        /\ UNCHANGED durable

\* The power fails: a rename not yet fsynced may be lost.
PowerFails ==
    \E rec \in {visible, durable} : \E read \in Readings(rec) :
        /\ Boot(rec, read)
        /\ durable' = rec
        /\ spoiled' = (spoiled \/ read # rec)

------------------------------------------------------------------------------
Next ==
    \/ Tick \/ ClockStepsBack
    \/ Sample
    \/ ModbusRead
    \/ SyncReplace \/ SyncDone \/ SyncFails
    \/ \E s \in Saves : AsyncReplace(s) \/ AsyncDone(s) \/ AsyncFails(s)
    \/ Killed \/ PowerFails

Spec == Init /\ [][Next]_vars

------------------------------------------------------------------------------
(* Properties.                                                               *)

TypeOK ==
    /\ transfers \in 0..MaxTransfers
    /\ now \in 1..MaxTime /\ sampledAt \in 1..MaxTime
    /\ setback \in 0..MaxSetback
    /\ position \in Positions
    /\ {store, visible, durable} \subseteq PersistedState
    /\ syncSave \in Saving \cup {None}
    /\ saves \in [Saves -> Saving \cup {None}]
    /\ served \in 0..MaxTransfers
    /\ spoiled \in BOOLEAN
    /\ log \in Seq(1..MaxTime)
    /\ restarts \in 0..MaxRestarts

\* CHANGELOG M-4: a count a Modbus client saw survives a power failure, as
\* long as no save failed, landed over a newer one or was cut short by a kill,
\* and no load failed.
ServedIsDurable == ~spoiled => served <= durable.count

\* The published 24-hour count is the number of transfers counted in the
\* window that ends with the last sample, give or take at the window's edge
\* what the wall clock was set back: exactly, while it never was.
WindowWithin ==
    LET since(t) == Cardinality({i \in 1..Len(log) : log[i] >= t})
        cutoff   == sampledAt - Window
    IN  /\ since(cutoff + setback) <= Len(store.recent)
        /\ Len(store.recent) <= since(cutoff - setback)

\* Whatever record is on disk, at any moment, is one the store could have
\* published: a count has its timestamp and its window entries fit it.
DiskCoherent == \A rec \in {visible, durable} :
    /\ (rec.count = 0) = (rec.to_gen = 0)
    /\ Len(rec.recent) <= rec.count

Counter == INSTANCE DurableCount WITH
    total <- transfers, counted <- store.count,
    safe <- durable.count, shown <- served

\* state.py:239: "GenWatch treats transfer_count_lifetime as monotonic": the
\* saves, the restarts and the Modbus reads together are a counter that takes
\* up, after any crash, at or above what was shown, unless it was spoiled.
DurableCounting == Counter!Spec
==============================================================================
