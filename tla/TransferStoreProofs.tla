------------------------ MODULE TransferStoreProofs ------------------------
(* Theorems about TransferStore, for any window, any number of executor      *)
(* slots, transfers, restarts and clock corrections.                         *)
EXTENDS TransferStore, SequenceLemmas, FiniteSetTheorems, TLAPS

------------------------------------------------------------------------------
(* The inductive invariants.                                                 *)

\* Every record there is, in memory, on its way or on disk.
Records ==
    {store, visible, durable}
        \cup (IF Idle THEN {} ELSE {syncSave.rec})
        \cup {saves[s].rec : s \in {s \in Saves : saves[s] # None}}

\* No record counts more than was ever counted.
CountInv == \A rec \in Records : rec.count <= transfers

\* While nothing was spoiled the counts are in order, from what was shown to
\* what is in memory, and between saves there is no gap left.
CountsOrdered ==
    /\ served <= durable.count
    /\ durable.count <= visible.count
    /\ \A rec \in Records : rec.count <= store.count
    /\ Idle => store.count <= durable.count
    /\ ~Idle => /\ syncSave.rec.count = store.count
                /\ syncSave.replaced => visible.count = store.count

DurableInv == ~spoiled => CountsOrdered

\* A record that counted has the time of its last count, and its window
\* entries fit its count.
Coherent(rec) ==
    /\ (rec.count = 0) <=> (rec.to_gen = 0)
    /\ Len(rec.recent) <= rec.count

CoherentInv == \A rec \in Records : Coherent(rec)

\* Entries are out of order, and ahead of the clock, at most by what the clock
\* was set back.
InOrder(q) ==
    /\ \A i, j \in 1..Len(q) : i < j => q[i] <= q[j] + setback
    /\ \A i \in 1..Len(q) : q[i] <= now + setback

OrderInv ==
    /\ \A rec \in Records : InOrder(rec.recent)
    /\ InOrder(log)
    /\ sampledAt <= now + setback

\* The window is the log without its first k entries, which were dropped in
\* time, up to an entry that was not to be dropped.
Window24(k) ==
    /\ store.recent = SubSeq(log, k + 1, Len(log))
    /\ \A i \in 1..k : /\ log[i] < sampledAt + setback - Window
                       /\ log[i] < now + setback - Window
    /\ k < Len(log) => log[k + 1] >= sampledAt - Window

WindowInv == \E k \in 0..Len(log) : Window24(k)

------------------------------------------------------------------------------
(* What the operators on the window return.                                  *)

\* Evict cuts off a prefix of entries past the cutoff, up to the first entry
\* that is not.
LEMMA EvictCuts ==
    ASSUME NEW S, S \subseteq Int, NEW q \in Seq(S), NEW cutoff \in Int
    PROVE  \E m \in 1..(Len(q) + 1) :
              /\ Evict(q, cutoff) = SubSeq(q, m, Len(q))
              /\ \A i \in 1..(m - 1) : q[i] < cutoff
              /\ m <= Len(q) => q[m] >= cutoff
<1> DEFINE kept == {i \in 1..Len(q) : q[i] >= cutoff}
<1>0. Len(q) \in Nat /\ \A i \in 1..Len(q) : q[i] \in Int
  <2>1. ASSUME NEW i \in 1..Len(q) PROVE q[i] \in Int
    <3>1. q[i] \in S
      OBVIOUS
    <3> QED BY <3>1
  <2> QED BY <2>1
<1>1. CASE kept = {}
  <2>1. Evict(q, cutoff) = <<>>
    BY <1>1 DEF Evict
  <2>2. SubSeq(q, Len(q) + 1, Len(q)) = <<>>
    BY <1>0
  <2>3. \A i \in 1..Len(q) : q[i] < cutoff
    BY <1>0, <1>1
  <2> WITNESS Len(q) + 1 \in 1..(Len(q) + 1)
  <2> QED BY <1>0, <2>1, <2>2, <2>3
<1>2. CASE kept # {}
  <2>0. kept \subseteq Nat
    OBVIOUS
  <2>1. /\ Min(kept) \in 1..Len(q) /\ q[Min(kept)] >= cutoff
        /\ \A i \in kept : Min(kept) <= i
    <3>1. Min(kept) \in kept /\ \A i \in kept : Min(kept) <= i
      <4> HIDE DEF kept
      <4> QED BY <1>2, <2>0, LeastIsMin
    <3> QED BY <3>1
  <2>2. Evict(q, cutoff) = SubSeq(q, Min(kept), Len(q))
    BY <1>2 DEF Evict
  <2> HIDE DEF kept
  <2>3. \A i \in 1..(Min(kept) - 1) : i \in 1..Len(q) /\ i \notin kept
    BY <1>0, <2>1
  <2>4. \A i \in 1..(Min(kept) - 1) : q[i] < cutoff
    BY <1>0, <2>3 DEF kept
  <2>5. Min(kept) \in 1..(Len(q) + 1)
    BY <1>0, <2>1
  <2> QED BY <2>1, <2>2, <2>4, <2>5
<1> QED BY <1>1, <1>2

LEMMA EvictShortens ==
    ASSUME NEW S, S \subseteq Int, NEW q \in Seq(S), NEW cutoff \in Int
    PROVE  Evict(q, cutoff) \in Seq(S) /\ Len(Evict(q, cutoff)) <= Len(q)
<1>1. PICK m \in 1..(Len(q) + 1) : Evict(q, cutoff) = SubSeq(q, m, Len(q))
  BY EvictCuts
<1>2. Len(q) \in Nat
  OBVIOUS
<1>3. \A i \in m..Len(q) : q[i] \in S
  BY <1>2
<1>4. SubSeq(q, m, Len(q)) \in Seq(S)
      /\ Len(SubSeq(q, m, Len(q))) = Len(q) - m + 1
  BY <1>2, <1>3, SubSeqProperties
<1> QED BY <1>1, <1>2, <1>4

LEMMA KeptShortens ==
    ASSUME NEW S, S \subseteq Int, NEW q \in Seq(S), NEW cutoff \in Int
    PROVE  /\ Kept(q, cutoff) \in Seq({t \in S : t >= cutoff})
           /\ Len(Kept(q, cutoff)) <= Len(q)
<1> DEFINE T == {t \in S : t >= cutoff}
           seqs == [i \in 1..Len(q) |->
                       IF q[i] >= cutoff THEN <<q[i]>> ELSE <<>>]
<1>1. ASSUME NEW i \in 1..Len(q)
      PROVE  seqs[i] \in Seq(T) /\ Len(seqs[i]) <= 1
  <2>1. CASE q[i] >= cutoff
    <3>1. q[i] \in T /\ seqs[i] = <<q[i]>>
      BY <2>1
    <3> HIDE DEF T, seqs
    <3> QED BY <3>1
  <2>2. CASE ~(q[i] >= cutoff)
    <3>1. seqs[i] = <<>>
      BY <2>2
    <3> HIDE DEF T, seqs
    <3> QED BY <3>1
  <2> QED BY <2>1, <2>2
<1>2. seqs \in [1..Len(q) -> Seq(T)] /\ Len(q) \in Nat
  BY <1>1
<1>3. FlattenSeq(seqs) \in Seq(T) /\ Len(FlattenSeq(seqs)) <= Len(q)
  <2> HIDE DEF T, seqs
  <2> QED BY <1>1, <1>2, FlattenLength
<1> QED BY <1>3 DEF Kept

------------------------------------------------------------------------------
(* Types.                                                                    *)

LEMMA ClockTyped ==
    ASSUME TypeOK
    PROVE  /\ 1..MaxTime \subseteq Int /\ now \in 1..MaxTime /\ now \in 0..MaxTime
           /\ now - Window \in Int
BY ConstantsAssumption DEF TypeOK, ConstantsAssumption

LEMMA StoreTyped ==
    ASSUME TypeOK, NEW rec \in PersistedState, rec.count < MaxTransfers
    PROVE  Counted(rec, now) \in PersistedState
<1> DEFINE q == Append(rec.recent, now)
<1>0. rec.recent \in Seq(1..MaxTime) /\ rec.count \in 0..MaxTransfers
  BY DEF PersistedState
<1>1. q \in Seq(1..MaxTime)
  BY <1>0, ClockTyped
<1>2. Evict(q, now - Window) \in Seq(1..MaxTime)
  <2> HIDE DEF q
  <2> QED BY <1>1, EvictShortens, ClockTyped
<1>3. rec.count + 1 \in 0..MaxTransfers
  BY <1>0, ConstantsAssumption DEF ConstantsAssumption
<1> QED BY <1>2, <1>3, ClockTyped DEF Counted, PersistedState

LEMMA WindowTyped ==
    ASSUME TypeOK, NEW rec \in PersistedState
    PROVE  /\ Returned(rec, now) \in PersistedState
           /\ Evicted(rec, now) \in PersistedState
           /\ Loaded(rec, now) \in PersistedState
<1>1. rec.recent \in Seq(1..MaxTime)
  BY DEF PersistedState
<1>2. Evict(rec.recent, now - Window) \in Seq(1..MaxTime)
  BY <1>1, EvictShortens, ClockTyped
<1>3. Kept(rec.recent, now - Window) \in Seq(1..MaxTime)
  <2> DEFINE T == {t \in 1..MaxTime : t >= now - Window}
  <2>1. Kept(rec.recent, now - Window) \in Seq(T)
    BY <1>1, KeptShortens, ClockTyped
  <2>2. T \subseteq 1..MaxTime
    OBVIOUS
  <2> HIDE DEF T
  <2> QED BY <2>1, <2>2, SeqMonotonic
<1> QED BY <1>1, <1>2, <1>3, ClockTyped DEF Returned, Evicted, Loaded, PersistedState

\* A save under way is a save.
LEMMA SaveTyped ==
    ASSUME TypeOK
    PROVE  /\ ~Idle => syncSave \in Saving
           /\ \A s \in Saves : saves[s] # None => saves[s] \in Saving
           /\ \A rec \in PersistedState : Save(rec) \in Saving /\ Save(rec) # None
<1>1. ASSUME NEW rec \in PersistedState PROVE Save(rec) \in Saving
  BY DEF Save, Saving
<1>2. /\ ~Idle => syncSave \in Saving
      /\ \A s \in Saves : saves[s] # None => saves[s] \in Saving
  BY DEF TypeOK, Idle
<1> QED BY <1>1, <1>2, NoneAssumption DEF NoneAssumption

LEMMA RecordsTyped == TypeOK => Records \subseteq PersistedState
BY SaveTyped DEF Records, Saving, TypeOK

LEMMA ZerosTyped == Zeros \in PersistedState
BY ConstantsAssumption DEF Zeros, PersistedState, ConstantsAssumption

\* After a crash the service boots from a record on disk, or from zeros when
\* it cannot be read, which spoils.
LEMMA CrashBoots ==
    ASSUME TypeOK, Killed \/ PowerFails
    PROVE  \E rec \in {visible, durable}, read \in {visible, durable, Zeros} :
              /\ read \in {rec, Zeros}
              /\ Boot(rec, read) /\ durable' \in {rec, durable}
              /\ spoiled' \in BOOLEAN /\ (spoiled => spoiled')
              /\ ~spoiled' => read = rec /\ durable' = rec
<1>1. \A rec : Readings(rec) \subseteq {rec, Zeros}
  BY DEF Readings
<1>2. CASE Killed
  <2>1. PICK read \in Readings(visible) :
           /\ Boot(visible, read) /\ durable' = durable
           /\ spoiled' = (spoiled \/ visible # durable \/ read # visible)
    BY <1>2 DEF Killed
  <2>2. spoiled' \in BOOLEAN /\ (spoiled => spoiled')
        /\ (~spoiled' => read = visible /\ durable' = visible)
    BY <2>1, Zenon
  <2> QED BY <1>1, <2>1, <2>2
<1>3. CASE PowerFails
  <2>1. PICK rec \in {visible, durable} : \E read \in Readings(rec) :
           /\ Boot(rec, read) /\ durable' = rec
           /\ spoiled' = (spoiled \/ read # rec)
    BY <1>3 DEF PowerFails
  <2>2. PICK read \in Readings(rec) :
           /\ Boot(rec, read) /\ durable' = rec
           /\ spoiled' = (spoiled \/ read # rec)
    BY <2>1
  <2>3. spoiled' \in BOOLEAN /\ (spoiled => spoiled') /\ (~spoiled' => read = rec)
    BY <2>2, Zenon
  <2> QED BY <1>1, <2>2, <2>3
<1> QED BY <1>2, <1>3

LEMMA TypeInit == Init => TypeOK
<1> SUFFICES ASSUME Init PROVE TypeOK
  OBVIOUS
<1>1. Zeros \in PersistedState
  BY ZerosTyped
<1>2. NoSaves \in [Saves -> Saving \cup {None}]
  BY DEF NoSaves
<1>3. <<>> \in Seq(1..MaxTime)
  OBVIOUS
<1>4. 1 \in 1..MaxTime /\ 0 \in 0..MaxTransfers /\ 0 \in 0..MaxSetback
      /\ 0 \in 0..MaxRestarts
  BY ConstantsAssumption DEF ConstantsAssumption
<1> QED BY <1>1, <1>2, <1>3, <1>4 DEF Init, TypeOK, Positions

LEMMA TypeStep == TypeOK /\ CountInv /\ [Next]_vars => TypeOK'
<1> SUFFICES ASSUME TypeOK, CountInv, [Next]_vars PROVE TypeOK'
  OBVIOUS
<1>a. MaxTransfers \in Nat /\ MaxTime \in Nat \ {0} /\ MaxSetback \in Nat
      /\ MaxRestarts \in Nat
  BY ConstantsAssumption DEF ConstantsAssumption
<1>b. /\ store \in PersistedState /\ visible \in PersistedState
      /\ durable \in PersistedState /\ store.count \in Nat
      /\ store.count \in 0..MaxTransfers
  BY DEF TypeOK, PersistedState
<1>c. store.count <= transfers
  BY DEF CountInv, Records
<1>4. CASE Tick
  <2>1. now' \in 1..MaxTime
    BY <1>4, <1>a DEF Tick, TypeOK
  <2> QED BY <1>4, <2>1 DEF Tick, service, disk, history, TypeOK
<1>5. CASE ClockStepsBack
  <2>1. now' \in 1..MaxTime /\ setback' \in 0..MaxSetback
    BY <1>5, <1>a DEF ClockStepsBack, TypeOK
  <2> QED BY <1>5, <2>1 DEF ClockStepsBack, service, disk, history, TypeOK
<1>6. CASE Sample
  <2>1. PICK p \in Positions : apply_input_snapshot(p)
    BY <1>6 DEF Sample
  <2>2. position' = p /\ sampledAt' = now /\ now \in 1..MaxTime
        /\ UNCHANGED <<clock, disk, served, spoiled, restarts>>
    BY <2>1, ClockTyped DEF apply_input_snapshot
  <2> SUFFICES /\ store' \in PersistedState
               /\ syncSave' \in Saving \cup {None}
               /\ saves' \in [Saves -> Saving \cup {None}]
               /\ log' \in Seq(1..MaxTime)
               /\ transfers' \in 0..MaxTransfers
    BY <2>2 DEF TypeOK, clock, disk
  <2>4. CASE ToGenerator(position, p)
    <3>1. store' = Counted(store, now) /\ syncSave' = Save(store')
          /\ log' = Append(log, now) /\ saves' = saves
          /\ transfers < MaxTransfers /\ transfers' = transfers + 1
      BY <2>1, <2>4 DEF apply_input_snapshot, ToGenerator, ToUtility
    <3>2. transfers' \in 0..MaxTransfers
      BY <3>1, <1>a DEF TypeOK
    <3>3. store.count < MaxTransfers
      BY <3>1, <1>a, <1>b, <1>c DEF TypeOK
    <3>4. store' \in PersistedState
      BY <1>b, <3>1, <3>3, StoreTyped
    <3>5. log \in Seq(1..MaxTime)
      BY DEF TypeOK
    <3>6. log' \in Seq(1..MaxTime)
      BY <2>2, <3>1, <3>5
    <3> QED BY <3>1, <3>2, <3>4, <3>6, SaveTyped DEF TypeOK
  <2>5. CASE ToUtility(position, p)
    <3>1. /\ store' = Returned(store, now)
          /\ \E s \in Saves : saves' = [saves EXCEPT ![s] = Save(store')]
          /\ UNCHANGED <<syncSave, transfers, log>>
      BY <2>1, <2>5 DEF apply_input_snapshot, ToGenerator, ToUtility
    <3>2. store' \in PersistedState
      BY <1>b, <3>1, WindowTyped
    <3> QED BY <3>1, <3>2, SaveTyped DEF TypeOK
  <2>6. CASE ~ToGenerator(position, p) /\ ~ToUtility(position, p)
    <3>1. /\ store' = Evicted(store, now)
          /\ UNCHANGED <<syncSave, saves, transfers, log>>
      BY <2>1, <2>6 DEF apply_input_snapshot
    <3> QED BY <1>b, <3>1, WindowTyped DEF TypeOK
  <2> QED BY <2>4, <2>5, <2>6
<1>7. CASE ModbusRead
  <2>1. served' \in {served, store.count}
    BY <1>7, <1>b, MaxOfTwo DEF ModbusRead, TypeOK
  <2> QED BY <1>7, <1>b, <2>1 DEF ModbusRead, clock, service, disk, TypeOK
<1>8. CASE SyncReplace
  <2>1. syncSave \in Saving
    BY <1>8, SaveTyped DEF SyncReplace, Idle
  <2>2. syncSave' \in Saving /\ visible' \in PersistedState /\ spoiled' \in BOOLEAN
    BY <1>8, <2>1 DEF SyncReplace, Replace, Saving
  <2> QED BY <1>8, <2>2 DEF SyncReplace, Replace, clock, TypeOK
<1>9. CASE SyncDone
  BY <1>9, <1>b DEF SyncDone, clock, history, TypeOK
<1>10. CASE SyncFails
  BY <1>10 DEF SyncFails, clock, disk, TypeOK
<1>11. ASSUME NEW s \in Saves, AsyncReplace(s) PROVE TypeOK'
  <2>1. saves[s] \in Saving
    BY <1>11, SaveTyped DEF AsyncReplace
  <2>2. /\ visible' \in PersistedState /\ spoiled' \in BOOLEAN
        /\ [saves[s] EXCEPT !.replaced = TRUE] \in Saving
    BY <1>11, <2>1 DEF AsyncReplace, Replace, Saving
  <2>3. saves' \in [Saves -> Saving \cup {None}]
    BY <1>11, <2>2 DEF AsyncReplace, TypeOK
  <2> QED BY <1>11, <2>2, <2>3 DEF AsyncReplace, Replace, clock, TypeOK
<1>12. ASSUME NEW s \in Saves, AsyncDone(s) PROVE TypeOK'
  BY <1>12, <1>b DEF AsyncDone, clock, history, TypeOK
<1>13. ASSUME NEW s \in Saves, AsyncFails(s) PROVE TypeOK'
  BY <1>13 DEF AsyncFails, clock, disk, TypeOK
<1>14. CASE Killed \/ PowerFails
  <2>1. PICK rec \in {visible, durable}, read \in {visible, durable, Zeros} :
           /\ read \in {rec, Zeros}
           /\ Boot(rec, read) /\ durable' \in {rec, durable}
           /\ spoiled' \in BOOLEAN
    BY <1>14, CrashBoots
  <2>2. store' \in PersistedState /\ visible' \in PersistedState
        /\ durable' \in PersistedState
    BY <1>b, <2>1, ZerosTyped, WindowTyped DEF Boot
  <2>3. log' \in Seq(1..MaxTime) /\ restarts' \in 0..MaxRestarts
        /\ saves' \in [Saves -> Saving \cup {None}] /\ position' \in Positions
    BY <1>a, <2>1, <2>2 DEF Boot, PersistedState, NoSaves, Positions, TypeOK
  <2> QED BY <2>1, <2>2, <2>3 DEF Boot, clock, TypeOK
<1>17. CASE UNCHANGED vars
  BY <1>17 DEF vars, clock, service, disk, history, TypeOK
<1> QED
  BY <1>4, <1>5, <1>6, <1>7, <1>8, <1>9, <1>10, <1>11, <1>12, <1>13, <1>14,
     <1>17 DEF Next
------------------------------------------------------------------------------
(* Where a step takes its records from.                                      *)

\* A step changes the store at most; everything else that holds a record got
\* it from one that was there.
LEMMA RecordsStep ==
    ASSUME TypeOK, [Next]_vars
    PROVE  \A rec \in Records' : rec \in Records \/ rec = store'
<1> DEFINE Under(ops) == {ops[s].rec : s \in {s \in Saves : ops[s] # None}}
<1>0. /\ {store, visible, durable} \subseteq Records
      /\ ~Idle => syncSave.rec \in Records
      /\ Under(saves) \subseteq Records
  BY DEF Records
<1>1. /\ {visible', durable'} \subseteq Records
      /\ ~Idle' => syncSave'.rec \in Records \cup {store'}
      /\ \A s \in Saves :
           saves'[s] # None => saves'[s].rec \in Records \cup {store'}
      => \A rec \in Records' : rec \in Records \/ rec = store'
  BY DEF Records
<1>2. ASSUME UNCHANGED <<syncSave, saves, visible, durable>>
      PROVE  \A rec \in Records' : rec \in Records \/ rec = store'
  BY <1>0, <1>1, <1>2 DEF Idle
<1>3. CASE Sample
  <2>1. PICK p \in Positions : apply_input_snapshot(p)
    BY <1>3 DEF Sample
  <2>2. Save(store').rec = store'
    BY DEF Save
  <2>3. UNCHANGED <<visible, durable>>
    BY <2>1 DEF apply_input_snapshot, disk
  <2>4. syncSave' = syncSave \/ syncSave' = Save(store')
    BY <2>1 DEF apply_input_snapshot
  <2>5. saves' = saves \/ \E s \in Saves : saves' = [saves EXCEPT ![s] = Save(store')]
    BY <2>1 DEF apply_input_snapshot
  <2>6. ASSUME NEW t \in Saves, saves'[t] # None
        PROVE  saves'[t].rec \in Records \cup {store'}
    BY <1>0, <2>2, <2>5, <2>6 DEF TypeOK
  <2> QED BY <1>0, <1>1, <2>2, <2>3, <2>4, <2>6 DEF Idle
<1>4. CASE SyncReplace
  <2>1. syncSave \in Saving /\ ~Idle
    BY <1>4, SaveTyped DEF SyncReplace, Idle
  <2>2. /\ syncSave'.rec = syncSave.rec /\ visible' = syncSave.rec
        /\ UNCHANGED <<durable, saves>>
    BY <1>4, <2>1 DEF SyncReplace, Replace, Saving
  <2> QED BY <1>0, <1>1, <2>1, <2>2
<1>5. CASE SyncDone \/ SyncFails
  BY <1>0, <1>1, <1>5 DEF SyncDone, SyncFails, disk, Idle
<1>6. ASSUME NEW s \in Saves, AsyncReplace(s)
      PROVE  \A rec \in Records' : rec \in Records \/ rec = store'
  <2>1. saves[s] \in Saving
    BY <1>6, SaveTyped DEF AsyncReplace
  <2>2. /\ visible' = saves[s].rec /\ UNCHANGED <<durable, syncSave>>
        /\ \A t \in Saves : saves'[t] # None =>
             saves[t] # None /\ saves'[t].rec = saves[t].rec
    BY <1>6, <2>1 DEF AsyncReplace, Replace, Saving, TypeOK
  <2>3. saves[s] # None
    BY <1>6 DEF AsyncReplace
  <2> QED BY <1>0, <1>1, <2>2, <2>3 DEF Idle
<1>7. ASSUME NEW s \in Saves, AsyncDone(s) \/ AsyncFails(s)
      PROVE  \A rec \in Records' : rec \in Records \/ rec = store'
  <2>1. /\ UNCHANGED <<visible, syncSave>> /\ durable' \in {visible, durable}
        /\ \A t \in Saves : saves'[t] # None => saves'[t] = saves[t]
    BY <1>7 DEF AsyncDone, AsyncFails, disk, TypeOK
  <2> QED BY <1>0, <1>1, <2>1 DEF Idle
<1>8. CASE Killed \/ PowerFails
  <2>1. PICK rec \in {visible, durable}, read \in {visible, durable, Zeros} :
           Boot(rec, read) /\ durable' \in {rec, durable}
    BY <1>8, CrashBoots
  <2> QED BY <1>0, <1>1, <2>1 DEF Boot, NoSaves, Idle
<1> QED
  BY <1>2, <1>3, <1>4, <1>5, <1>6, <1>7, <1>8
  DEF Next, Tick, ClockStepsBack, ModbusRead, service, disk, vars

------------------------------------------------------------------------------
(* The lifetime count.                                                       *)

LEMMA CountInit == Init => CountInv
<1> SUFFICES ASSUME Init PROVE CountInv
  OBVIOUS
<1>1. \A rec \in Records : rec = Zeros
  BY DEF Init, Records, Idle, NoSaves
<1> QED BY <1>1 DEF Init, CountInv, Zeros

\* What a sample makes of the count.
LEMMA SampleCounts ==
    ASSUME TypeOK, NEW p, apply_input_snapshot(p)
    PROVE  /\ ToGenerator(position, p) => /\ store'.count = store.count + 1
                                          /\ transfers' = transfers + 1
           /\ ~ToGenerator(position, p) => UNCHANGED <<store.count, transfers>>
BY DEF apply_input_snapshot, ToGenerator, ToUtility, Counted, Returned, Evicted,
       TypeOK, PersistedState

LEMMA CountStep == TypeOK /\ CountInv /\ [Next]_vars => CountInv'
<1> SUFFICES ASSUME TypeOK, CountInv, [Next]_vars PROVE CountInv'
  OBVIOUS
<1>0. /\ transfers \in Nat /\ MaxTransfers \in Nat
      /\ \A rec \in Records : rec.count \in Nat /\ rec.count <= transfers
      /\ {store, visible, durable} \subseteq Records
  <2>1. \A rec \in PersistedState : rec.count \in Nat
    BY DEF PersistedState
  <2> QED BY <2>1, RecordsTyped, ConstantsAssumption
          DEF TypeOK, Records, CountInv, ConstantsAssumption
<1>1. ASSUME store'.count <= transfers', transfers <= transfers', transfers' \in Nat
      PROVE  \A rec \in Records' : rec.count <= transfers'
  BY <1>0, <1>1, RecordsStep
<1>2. CASE Sample
  <2>1. PICK p \in Positions : apply_input_snapshot(p)
    BY <1>2 DEF Sample
  <2>2. \/ store'.count = store.count + 1 /\ transfers' = transfers + 1
        \/ store'.count = store.count /\ transfers' = transfers
    BY <2>1, SampleCounts
  <2>3. store.count <= transfers /\ store.count \in Nat
    BY <1>0
  <2> QED BY <1>0, <1>1, <2>2, <2>3 DEF CountInv
<1>3. CASE Killed \/ PowerFails
  <2>1. PICK rec \in {visible, durable}, read \in {visible, durable, Zeros} :
           read \in {rec, Zeros} /\ Boot(rec, read)
    BY <1>3, CrashBoots
  <2>2. store'.count = read.count /\ UNCHANGED transfers
    BY <2>1, ZerosTyped DEF Boot, Loaded, TypeOK, PersistedState
  <2>3. read.count <= transfers
    BY <1>0, <2>1 DEF Zeros
  <2> QED BY <1>0, <1>1, <2>2, <2>3 DEF CountInv
<1>4. CASE UNCHANGED <<transfers, store>>
  BY <1>0, <1>1, <1>4 DEF CountInv
<1> QED
  BY <1>2, <1>3, <1>4
  DEF Next, Tick, ClockStepsBack, ModbusRead, SyncReplace, SyncDone,
      SyncFails, AsyncReplace, AsyncDone, AsyncFails, Replace, service, history, vars

\* The state is well typed: in particular no record counts more than was ever
\* counted.
THEOREM TypeCorrect == Spec => []TypeOK
BY TypeInit, TypeStep, CountInit, CountStep, PTL DEF Spec
------------------------------------------------------------------------------
(* The count survives.                                                       *)

LEMMA DurableInit == Init => DurableInv
<1> SUFFICES ASSUME Init PROVE DurableInv
  OBVIOUS
<1>1. \A rec \in Records : rec = Zeros
  BY DEF Init, Records, Idle, NoSaves
<1> QED BY <1>1 DEF Init, DurableInv, CountsOrdered, Zeros, Idle

LEMMA CountsTyped ==
    ASSUME TypeOK
    PROVE  /\ \A rec \in Records : rec.count \in Nat
           /\ store.count \in Nat /\ visible.count \in Nat
           /\ durable.count \in Nat /\ served \in Nat
           /\ spoiled \in BOOLEAN
           /\ {store, visible, durable} \subseteq Records
<1>1. \A rec \in PersistedState : rec.count \in Nat
  BY DEF PersistedState
<1>2. {store, visible, durable} \subseteq Records
  BY DEF Records
<1> QED BY <1>1, <1>2, RecordsTyped DEF TypeOK

\* A rename puts a record in place; it spoils when that record is older.
LEMMA ReplaceOrders ==
    ASSUME TypeOK, DurableInv, NEW rec \in Records, Replace(rec), ~spoiled'
    PROVE  /\ ~spoiled
           /\ visible.count <= visible'.count /\ visible'.count <= store.count
<1>1. ~spoiled /\ ~(rec.count < visible.count)
  BY Zenon DEF Replace
<1> QED BY <1>1, CountsTyped DEF Replace, DurableInv, CountsOrdered

LEMMA DurableStep == TypeOK /\ TypeOK' /\ DurableInv /\ [Next]_vars => DurableInv'
<1> SUFFICES ASSUME TypeOK, TypeOK', DurableInv, [Next]_vars, ~spoiled'
             PROVE  CountsOrdered'
  BY DEF DurableInv
<1> USE DEF CountsOrdered
<1>0. ~spoiled => CountsOrdered
  BY DEF DurableInv
<1>1. ASSUME store.count <= store'.count, store'.count \in Nat, ~spoiled
      PROVE  \A rec \in Records' : rec.count <= store'.count
  BY <1>0, <1>1, CountsTyped, RecordsStep
<1>2. CASE UNCHANGED <<store, syncSave, visible, durable, served, spoiled>>
  BY <1>0, <1>1, <1>2, CountsTyped DEF Idle
<1>3. CASE Sample
  <2>1. PICK p \in Positions : apply_input_snapshot(p)
    BY <1>3 DEF Sample
  <2>2. Idle /\ UNCHANGED <<visible, durable, served, spoiled>>
    BY <2>1 DEF apply_input_snapshot, disk
  <2>3. CASE ToGenerator(position, p)
    <3>1. store'.count = store.count + 1
      BY <2>1, <2>3, SampleCounts
    <3>2. syncSave' = [rec |-> store', replaced |-> FALSE]
      BY <2>1, <2>3 DEF apply_input_snapshot, ToGenerator, ToUtility, Save
    <3>3. syncSave' \in Saving
      BY <3>2 DEF TypeOK, Saving
    <3>4. ~Idle'
      BY <3>3, NoneAssumption DEF Idle, NoneAssumption
    <3>5. syncSave'.rec.count = store'.count /\ ~syncSave'.replaced
      BY <3>2
    <3>6. ~spoiled /\ store'.count \in Nat
      BY <2>2, <3>1, CountsTyped
    <3>7. \A rec \in Records' : rec.count <= store'.count
      BY <1>1, <3>1, <3>6, CountsTyped
    <3> QED BY <1>0, <2>2, <3>4, <3>5, <3>6, <3>7
  <2>4. CASE ~ToGenerator(position, p)
    <3>1. store'.count = store.count /\ UNCHANGED syncSave
      BY <2>1, <2>4, SampleCounts DEF apply_input_snapshot
    <3> QED BY <1>0, <1>1, <2>2, <3>1, CountsTyped DEF Idle
  <2> QED BY <2>3, <2>4
<1>4. CASE ModbusRead
  <2>1. served' \in {served, store.count} /\ Idle
    BY <1>4, CountsTyped, MaxOfTwo DEF ModbusRead
  <2>2. UNCHANGED <<store, syncSave, visible, durable, spoiled>>
    BY <1>4 DEF ModbusRead, service, disk
  <2> QED BY <1>0, <1>1, <2>1, <2>2, CountsTyped DEF Idle
<1>5. CASE SyncReplace
  <2>1. syncSave \in Saving /\ ~Idle /\ syncSave.rec \in Records
    BY <1>5, SaveTyped DEF SyncReplace, Idle, Records
  <2>2. Replace(syncSave.rec) /\ UNCHANGED <<store, durable, served>>
    BY <1>5 DEF SyncReplace, Replace
  <2>3. ~spoiled /\ visible.count <= visible'.count
    BY <2>1, <2>2, ReplaceOrders
  <2>4. syncSave'.rec = syncSave.rec /\ visible' = syncSave.rec
    BY <1>5, <2>1 DEF SyncReplace, Replace, Saving
  <2>5. ~Idle'
    BY <1>5, <2>1, NoneAssumption DEF SyncReplace, Saving, Idle, NoneAssumption
  <2>6. durable'.count <= visible'.count
    <3>1. visible'.count \in Nat
      BY <2>1, <2>4, CountsTyped
    <3> QED BY <1>0, <2>2, <2>3, <3>1, CountsTyped
  <2> QED BY <1>0, <1>1, <2>1, <2>2, <2>3, <2>4, <2>5, <2>6, CountsTyped
<1>6. CASE SyncDone
  <2>1. /\ syncSave # None /\ syncSave.replaced /\ syncSave' = None
        /\ durable' = visible /\ UNCHANGED <<store, visible, served, spoiled>>
    BY <1>6 DEF SyncDone, history
  <2> QED BY <1>0, <1>1, <2>1, CountsTyped DEF Idle
<1>7. ASSUME NEW s \in Saves, AsyncReplace(s) PROVE CountsOrdered'
  <2>1. saves[s].rec \in Records
    BY <1>7, SaveTyped DEF AsyncReplace, Records
  <2>2. Replace(saves[s].rec) /\ UNCHANGED <<store, durable, served, syncSave>>
    BY <1>7 DEF AsyncReplace, Replace
  <2>3. ~spoiled /\ visible.count <= visible'.count /\ visible'.count <= store.count
    BY <2>1, <2>2, ReplaceOrders
  <2>4. visible'.count \in Nat
    BY <2>1, <2>2, CountsTyped DEF Replace
  <2> QED BY <1>0, <1>1, <2>2, <2>3, <2>4, CountsTyped DEF Idle
<1>8. ASSUME NEW s \in Saves, AsyncDone(s) PROVE CountsOrdered'
  <2>1. durable' = visible /\ UNCHANGED <<store, visible, syncSave, served, spoiled>>
    BY <1>8 DEF AsyncDone, history
  <2> QED BY <1>0, <1>1, <2>1, CountsTyped DEF Idle
<1>9. CASE SyncFails \/ \E s \in Saves : AsyncFails(s)
  BY <1>9 DEF SyncFails, AsyncFails
<1>10. CASE Killed \/ PowerFails
  <2>1. PICK rec \in {visible, durable} :
           Boot(rec, rec) /\ durable' = rec /\ ~spoiled
    BY <1>10, CrashBoots
  <2>2. /\ store'.count = rec.count /\ visible' = rec /\ served' = served
        /\ syncSave' = None /\ saves' = NoSaves
    BY <2>1 DEF Boot, Loaded, TypeOK, PersistedState
  <2>3. \A r \in Records' : r = store' \/ r = rec
    BY <2>1, <2>2 DEF Records, Idle, NoSaves
  <2> QED BY <1>0, <2>1, <2>2, <2>3, CountsTyped DEF Idle
<1> HIDE DEF CountsOrdered
<1> QED
  BY <1>2, <1>3, <1>4, <1>5, <1>6, <1>7, <1>8, <1>9, <1>10
  DEF Next, Tick, ClockStepsBack, service, disk, history, vars

\* A count that a client was shown survives a power failure, as long as no
\* save failed, landed over a newer one or was cut short, and no load failed.
THEOREM ShownIsDurable == Spec => []ServedIsDurable
<1>1. DurableInv => ServedIsDurable
  BY DEF DurableInv, CountsOrdered, ServedIsDurable
<1> QED BY <1>1, TypeInit, TypeStep, CountInit, CountStep, DurableInit, DurableStep,
           PTL DEF Spec
------------------------------------------------------------------------------
(* The record on disk.                                                       *)

LEMMA CoherentInit == Init => CoherentInv
<1> SUFFICES ASSUME Init PROVE CoherentInv
  OBVIOUS
<1>1. \A rec \in Records : rec = Zeros
  BY DEF Init, Records, Idle, NoSaves
<1>2. Coherent(Zeros)
  BY DEF Coherent, Zeros
<1> QED BY <1>1, <1>2 DEF CoherentInv

\* What counting, returning, evicting and loading keep of a coherent record.
LEMMA OperationsCoherent ==
    ASSUME TypeOK, NEW rec \in PersistedState, Coherent(rec)
    PROVE  /\ Coherent(Counted(rec, now))
           /\ Coherent(Returned(rec, now))
           /\ Coherent(Evicted(rec, now))
           /\ Coherent(Loaded(rec, now))
<1> DEFINE q == rec.recent
           cutoff == now - Window
<1>1. q \in Seq(1..MaxTime) /\ Append(q, now) \in Seq(1..MaxTime)
      /\ Len(Append(q, now)) = Len(q) + 1 /\ Len(q) \in Nat
  <2>1. q \in Seq(1..MaxTime)
    BY DEF PersistedState
  <2> HIDE DEF q
  <2> QED BY <2>1, ClockTyped
<1>2. rec.count \in Nat /\ now # 0
  BY ClockTyped DEF PersistedState
<1>3. /\ Evict(q, cutoff) \in Seq(1..MaxTime)
      /\ Len(Evict(q, cutoff)) <= Len(q)
      /\ Evict(Append(q, now), cutoff) \in Seq(1..MaxTime)
      /\ Len(Evict(Append(q, now), cutoff)) <= Len(q) + 1
  <2> HIDE DEF q
  <2>1. Evict(q, cutoff) \in Seq(1..MaxTime) /\ Len(Evict(q, cutoff)) <= Len(q)
    BY <1>1, EvictShortens, ClockTyped
  <2>2. /\ Evict(Append(q, now), cutoff) \in Seq(1..MaxTime)
        /\ Len(Evict(Append(q, now), cutoff)) <= Len(Append(q, now))
    BY <1>1, EvictShortens, ClockTyped
  <2> QED BY <1>1, <2>1, <2>2
<1>4. Kept(q, cutoff) \in Seq({t \in 1..MaxTime : t >= cutoff})
      /\ Len(Kept(q, cutoff)) <= Len(q)
  <2> HIDE DEF q
  <2> QED BY <1>1, KeptShortens, ClockTyped
<1>5. Len(q) <= rec.count /\ (rec.count = 0 <=> rec.to_gen = 0)
  BY DEF Coherent
<1>6. Coherent(Counted(rec, now))
  <2>1. LET c == Counted(rec, now)
        IN  c.count = rec.count + 1 /\ c.to_gen = now
            /\ c.recent = Evict(Append(q, now), cutoff)
    BY DEF Counted, PersistedState
  <2>2. Len(Evict(Append(q, now), cutoff)) <= rec.count + 1
    <3> DEFINE a == Len(Evict(Append(q, now), cutoff))
               b == Len(q)
    <3>1. a \in Nat /\ b \in Nat /\ a <= b + 1 /\ b <= rec.count
      BY <1>1, <1>3, <1>5
    <3> HIDE DEF a, b
    <3>2. a <= rec.count + 1
      BY <1>2, <3>1
    <3> QED BY <3>2 DEF a
  <2> QED BY <1>2, <2>1, <2>2 DEF Coherent
<1>7. ASSUME NEW r, r.count = rec.count, r.to_gen = rec.to_gen,
             Len(r.recent) \in Nat, Len(r.recent) <= Len(q)
      PROVE  Coherent(r)
  <2>1. Len(r.recent) <= rec.count
    <3> DEFINE a == Len(r.recent)
               b == Len(q)
    <3>1. a \in Nat /\ b \in Nat /\ a <= b /\ b <= rec.count
      BY <1>1, <1>5, <1>7
    <3> HIDE DEF a, b
    <3>2. a <= rec.count
      BY <1>2, <3>1
    <3> QED BY <3>2 DEF a
  <2> QED BY <1>5, <1>7, <2>1 DEF Coherent
<1>8. Len(Evict(q, cutoff)) \in Nat /\ Len(Kept(q, cutoff)) \in Nat
  BY <1>3, <1>4
<1>9. LET r == Returned(rec, now)
          e == Evicted(rec, now)
          l == Loaded(rec, now)
      IN  /\ r.count = rec.count /\ r.to_gen = rec.to_gen
          /\ r.recent = Evict(q, cutoff)
          /\ e.count = rec.count /\ e.to_gen = rec.to_gen
          /\ e.recent = Evict(q, cutoff)
          /\ l.count = rec.count /\ l.to_gen = rec.to_gen
          /\ l.recent = Kept(q, cutoff)
  BY DEF Returned, Evicted, Loaded, PersistedState
<1> QED BY <1>3, <1>4, <1>6, <1>7, <1>8, <1>9

LEMMA CoherentStep == TypeOK /\ CoherentInv /\ [Next]_vars => CoherentInv'
<1> SUFFICES ASSUME TypeOK, CoherentInv, [Next]_vars, NEW rec \in Records'
             PROVE  Coherent(rec)
  BY DEF CoherentInv, Coherent
<1>1. CASE rec \in Records
  BY <1>1 DEF CoherentInv
<1>2. CASE rec = store'
  <2>1. CASE Sample
    <3>1. store' \in {Counted(store, now), Returned(store, now), Evicted(store, now)}
      BY <2>1 DEF Sample, apply_input_snapshot
    <3>2. store \in Records /\ store \in PersistedState
      BY RecordsTyped DEF Records
    <3> QED BY <1>2, <3>1, <3>2, OperationsCoherent DEF CoherentInv
  <2>2. CASE Killed \/ PowerFails
    <3>1. PICK old \in {visible, durable}, read \in {visible, durable, Zeros} :
             read \in {old, Zeros} /\ Boot(old, read)
      BY <2>2, CrashBoots
    <3>2. store' = Loaded(read, now)
      BY <3>1 DEF Boot
    <3>3. old \in Records /\ old \in PersistedState
      BY RecordsTyped DEF Records
    <3>4. Coherent(Zeros) /\ Zeros \in PersistedState
      BY ZerosTyped DEF Coherent, Zeros
    <3> QED BY <1>2, <3>1, <3>2, <3>3, <3>4, OperationsCoherent DEF CoherentInv
  <2>3. CASE store' = store
    BY <1>2, <2>3 DEF CoherentInv, Records
  <2> QED
    BY <2>1, <2>2, <2>3
    DEF Next, Tick, ClockStepsBack, ModbusRead,
        SyncReplace, SyncDone, SyncFails, AsyncReplace, AsyncDone, AsyncFails,
        service, vars
<1> QED BY <1>1, <1>2, RecordsStep

\* Whatever record a crash leaves on disk is one the store could publish.
THEOREM DiskIsCoherent == Spec => []DiskCoherent
<1>1. TypeOK /\ CoherentInv => DiskCoherent
  BY DEF CoherentInv, Coherent, DiskCoherent, Records, TypeOK, PersistedState
<1> QED BY <1>1, TypeInit, TypeStep, CountInit, CountStep, CoherentInit, CoherentStep,
           PTL DEF Spec
------------------------------------------------------------------------------
(* The 24-hour window.                                                       *)

\* What was set back stays set back, and makes up for the clock.
LEMMA TimeMovesOn ==
    ASSUME TypeOK, [Next]_vars
    PROVE  /\ setback \in Nat /\ now \in Nat /\ setback' \in Nat /\ now' \in Nat
           /\ setback <= setback' /\ now + setback <= now' + setback'
<1>1. setback \in Nat /\ now \in Nat
  BY ClockTyped DEF TypeOK
<1>2. \/ UNCHANGED <<now, setback>>
      \/ now' = now + 1 /\ setback' = setback
      \/ now > 1 /\ now' = now - 1 /\ setback' = setback + 1
  BY DEF Next, Tick, ClockStepsBack, Sample,
     apply_input_snapshot, ModbusRead, SyncReplace, SyncDone, SyncFails,
     AsyncReplace, AsyncDone, AsyncFails, Killed, PowerFails, Boot, clock, vars
<1> QED BY <1>1, <1>2

LEMMA InOrderLater ==
    ASSUME TypeOK, [Next]_vars, NEW q \in Seq(1..MaxTime), InOrder(q)
    PROVE  InOrder(q)'
<1>1. \A i \in 1..Len(q) : q[i] \in Nat
  <2>1. \A i \in 1..Len(q) : q[i] \in 1..MaxTime
    BY SeqElements
  <2> QED BY <2>1, ClockTyped
<1>2. ASSUME NEW i \in 1..Len(q), NEW j \in 1..Len(q), i < j
      PROVE  q[i] <= q[j] + setback'
  <2>1. q[i] \in Nat /\ q[j] \in Nat /\ q[i] <= q[j] + setback
    BY <1>1, <1>2 DEF InOrder
  <2>2. setback \in Nat /\ setback' \in Nat /\ setback <= setback'
    BY TimeMovesOn
  <2> QED BY <2>1, <2>2
<1>3. ASSUME NEW i \in 1..Len(q) PROVE q[i] <= now' + setback'
  <2>1. q[i] \in Nat /\ q[i] <= now + setback
    BY <1>1, <1>3 DEF InOrder
  <2> QED BY <2>1, TimeMovesOn
<1> QED BY <1>2, <1>3 DEF InOrder

LEMMA InOrderAppend ==
    ASSUME TypeOK, NEW q \in Seq(1..MaxTime), InOrder(q)
    PROVE  InOrder(Append(q, now))
<1> DEFINE h == Append(q, now)
<1>1. /\ Len(q) \in Nat /\ Len(h) = Len(q) + 1 /\ h[Len(q) + 1] = now
      /\ \A i \in 1..Len(q) : h[i] = q[i]
  BY ClockTyped
<1>2. now \in Nat /\ setback \in Nat
  BY ClockTyped DEF TypeOK
<1> HIDE DEF h
<1>3. \A i \in 1..Len(h) : i \in 1..Len(q) \/ i = Len(q) + 1
  BY <1>1
<1>4. \A i \in 1..Len(h) : h[i] <= now + setback
  BY <1>1, <1>2, <1>3 DEF InOrder
<1>5. ASSUME NEW i \in 1..Len(h), NEW j \in 1..Len(h), i < j
      PROVE  h[i] <= h[j] + setback
  <2>1. i \in 1..Len(q)
    BY <1>1, <1>5
  <2> QED BY <1>1, <1>3, <1>5, <2>1 DEF InOrder
<1> QED BY <1>4, <1>5 DEF InOrder, h

LEMMA InOrderSelected ==
    ASSUME NEW g, NEW q, Selects(g, q, Len(q)), InOrder(q)
    PROVE  InOrder(g)
BY DEF InOrder, Selects

LEMMA EvictInOrder ==
    ASSUME NEW q \in Seq(1..MaxTime), NEW cutoff \in Int, InOrder(q)
    PROVE  InOrder(Evict(q, cutoff))
<1>1. PICK m \in 1..(Len(q) + 1) : Evict(q, cutoff) = SubSeq(q, m, Len(q))
  <2>1. 1..MaxTime \subseteq Int
    OBVIOUS
  <2> QED BY <2>1, EvictCuts
<1> DEFINE e == SubSeq(q, m, Len(q))
<1>2. Len(q) \in Nat /\ Len(e) = Len(q) - m + 1
      /\ \A i \in 1..Len(e) : e[i] = q[m + i - 1]
  BY SubSeqProperties
<1> HIDE DEF e
<1>3. \A i \in 1..Len(e) : m + i - 1 \in 1..Len(q)
  BY <1>2
<1>4. InOrder(e)
  <2>1. \A i \in 1..Len(e) : e[i] <= now + setback
    BY <1>2, <1>3 DEF InOrder
  <2>2. ASSUME NEW i \in 1..Len(e), NEW j \in 1..Len(e), i < j
        PROVE  e[i] <= e[j] + setback
    <3>1. m + i - 1 < m + j - 1
      BY <2>2
    <3> QED BY <1>2, <1>3, <3>1 DEF InOrder
  <2> QED BY <2>1, <2>2 DEF InOrder
<1> QED BY <1>1, <1>4 DEF e

LEMMA KeptInOrder ==
    ASSUME NEW q \in Seq(1..MaxTime), NEW cutoff \in Int, InOrder(q)
    PROVE  InOrder(Kept(q, cutoff))
<1> DEFINE seqs == [i \in 1..Len(q) |->
                       IF q[i] >= cutoff THEN <<q[i]>> ELSE <<>>]
<1>1. q \in [1..Len(q) -> 1..MaxTime] /\ Len(q) \in Nat
  BY SeqElements
<1>2. ASSUME NEW i \in 1..Len(q)
      PROVE  seqs[i] \in Seq(1..MaxTime) /\ seqs[i] \in {<<>>, <<q[i]>>}
  <2>1. seqs[i] \in {<<>>, <<q[i]>>} /\ q[i] \in 1..MaxTime
    BY <1>1
  <2> DEFINE S == 1..MaxTime
  <2> HIDE DEF seqs, S
  <2>2. \A x \in S : <<x>> \in Seq(S)
    OBVIOUS
  <2>3. <<>> \in Seq(S)
    OBVIOUS
  <2>4. q[i] \in S
    BY <2>1 DEF S
  <2>5. seqs[i] \in Seq(S)
    BY <2>1, <2>2, <2>3, <2>4
  <2> QED BY <2>1, <2>5 DEF S
<1>3. seqs \in [1..Len(q) -> Seq(1..MaxTime)]
  BY <1>2
<1>4. Selects(FlattenSeq(seqs), q, Len(q))
  <2> HIDE DEF seqs
  <2> QED BY <1>1, <1>2, <1>3, FlattenSelects
<1> QED BY <1>4, InOrderSelected DEF Kept

LEMMA RecentTyped ==
    ASSUME TypeOK
    PROVE  /\ \A rec \in Records \cup {Zeros} : rec.recent \in Seq(1..MaxTime)
           /\ store \in Records /\ store \in PersistedState
           /\ log \in Seq(1..MaxTime)
<1>1. \A rec \in PersistedState : rec.recent \in Seq(1..MaxTime)
  BY DEF PersistedState
<1> QED BY <1>1, RecordsTyped, ZerosTyped DEF Records, TypeOK

\* What a step does to the window and its log.
LEMMA WindowSteps ==
    ASSUME TypeOK, [Next]_vars
    PROVE  \/ /\ sampledAt' = now /\ UNCHANGED <<now, setback>>
              /\ \/ /\ log' = log
                    /\ store'.recent = Evict(store.recent, now - Window)
                 \/ /\ log' = Append(log, now)
                    /\ store'.recent = Evict(Append(store.recent, now), now - Window)
           \/ /\ sampledAt' = now /\ UNCHANGED <<now, setback>>
              /\ log' = store'.recent
              /\ \E rec \in Records \cup {Zeros} :
                    store'.recent = Kept(rec.recent, now - Window)
           \/ UNCHANGED <<sampledAt, log, store>>
<1>1. CASE Sample
  <2>1. /\ sampledAt' = now /\ UNCHANGED <<now, setback>>
        /\ \/ store' = Counted(store, now) /\ log' = Append(log, now)
           \/ store' = Returned(store, now) /\ log' = log
           \/ store' = Evicted(store, now) /\ log' = log
    <3>1. PICK p \in Positions : apply_input_snapshot(p)
      BY <1>1 DEF Sample
    <3>2. sampledAt' = now /\ UNCHANGED <<now, setback>>
      BY <3>1 DEF apply_input_snapshot, clock
    <3>3. \/ store' = Counted(store, now) /\ log' = Append(log, now)
          \/ store' = Returned(store, now) /\ log' = log
          \/ store' = Evicted(store, now) /\ log' = log
      BY <3>1 DEF apply_input_snapshot
    <3> QED BY <3>2, <3>3
  <2>2. /\ Counted(store, now).recent = Evict(Append(store.recent, now), now - Window)
        /\ Returned(store, now).recent = Evict(store.recent, now - Window)
        /\ Evicted(store, now).recent = Evict(store.recent, now - Window)
    BY RecentTyped DEF Counted, Returned, Evicted, PersistedState
  <2> QED BY <2>1, <2>2
<1>2. CASE Killed \/ PowerFails
  <2>1. PICK rec \in {visible, durable}, read \in {visible, durable, Zeros} :
           read \in {rec, Zeros} /\ Boot(rec, read)
    BY <1>2, CrashBoots
  <2>2. read \in Records \cup {Zeros} /\ read \in PersistedState
    BY <2>1, RecordsTyped, ZerosTyped DEF Records
  <2>3. store'.recent = Kept(read.recent, now - Window)
    BY <2>1, <2>2 DEF Boot, Loaded, PersistedState
  <2> QED BY <2>1, <2>2, <2>3 DEF Boot, clock
<1>3. CASE UNCHANGED <<sampledAt, log, store>>
  BY <1>3
<1> QED
  BY <1>1, <1>2, <1>3
  DEF Next, Tick, ClockStepsBack, ModbusRead,
      SyncReplace, SyncDone, SyncFails, AsyncReplace, AsyncDone, AsyncFails,
      service, history, vars

LEMMA OrderInit == Init => OrderInv
<1> SUFFICES ASSUME Init PROVE OrderInv
  OBVIOUS
<1>1. \A rec \in Records : rec = Zeros
  BY DEF Init, Records, Idle, NoSaves
<1>2. InOrder(<<>>)
  BY DEF InOrder
<1> QED BY <1>1, <1>2 DEF Init, OrderInv, Zeros

LEMMA OrderStep == TypeOK /\ TypeOK' /\ OrderInv /\ [Next]_vars => OrderInv'
<1> SUFFICES ASSUME TypeOK, TypeOK', OrderInv, [Next]_vars PROVE OrderInv'
  OBVIOUS
<1>0. now - Window \in Int
  BY ClockTyped
<1>1. /\ \A rec \in Records : InOrder(rec.recent)'
      /\ InOrder(log)
      /\ \A q \in Seq(1..MaxTime) : InOrder(q) => InOrder(q)'
  BY RecentTyped, InOrderLater DEF OrderInv
<1>2. sampledAt' <= now' + setback'
  <2>1. now \in Nat /\ setback \in Nat /\ sampledAt \in Nat
    BY ClockTyped DEF TypeOK
  <2>2. sampledAt' = now \/ sampledAt' = sampledAt
    BY WindowSteps
  <2> QED BY <2>1, <2>2, TimeMovesOn DEF OrderInv
<1>3. store'.recent \in Seq(1..MaxTime) /\ log' \in Seq(1..MaxTime)
  BY DEF TypeOK, PersistedState
<1>4. InOrder(store'.recent) /\ InOrder(log')
  <2>1. InOrder(store.recent) /\ store.recent \in Seq(1..MaxTime)
        /\ log \in Seq(1..MaxTime)
    BY RecentTyped DEF OrderInv
  <2>2. /\ InOrder(Append(store.recent, now)) /\ InOrder(Append(log, now))
        /\ Append(store.recent, now) \in Seq(1..MaxTime)
    BY <1>1, <2>1, InOrderAppend, ClockTyped
  <2>3. ASSUME NEW rec \in Records \cup {Zeros}
        PROVE  InOrder(Kept(rec.recent, now - Window))
    <3>1. InOrder(rec.recent)
      BY DEF OrderInv, Zeros, InOrder
    <3> QED BY <1>0, <3>1, RecentTyped, KeptInOrder
  <2>4. InOrder(Evict(store.recent, now - Window))
        /\ InOrder(Evict(Append(store.recent, now), now - Window))
    BY <1>0, <2>1, <2>2, EvictInOrder
  <2> QED BY <1>1, <2>1, <2>2, <2>3, <2>4, WindowSteps
<1>5. \A q \in {store'.recent, log'} : InOrder(q)'
  BY <1>1, <1>3, <1>4
<1>6. \A rec \in Records' : InOrder(rec.recent)'
  BY <1>1, <1>5, RecordsStep
<1>7. InOrder(log)'
  BY <1>5 DEF InOrder
<1> QED BY <1>2, <1>6, <1>7 DEF OrderInv

LEMMA WindowInit == Init => WindowInv
<1> SUFFICES ASSUME Init PROVE WindowInv
  OBVIOUS
<1>1. Window24(0) /\ Len(log) = 0
  BY DEF Init, Window24, Zeros
<1> QED BY <1>1 DEF WindowInv

\* Evicting from the end of the log leaves an end of the log.
LEMMA EvictWindow ==
    ASSUME NEW q \in Seq(1..MaxTime), NEW k \in 0..Len(q), NEW cutoff \in Int
    PROVE  \E n \in k..Len(q) :
              /\ Evict(SubSeq(q, k + 1, Len(q)), cutoff) = SubSeq(q, n + 1, Len(q))
              /\ \A i \in (k + 1)..n : q[i] < cutoff
              /\ n < Len(q) => q[n + 1] >= cutoff
<1> DEFINE w == SubSeq(q, k + 1, Len(q))
<1>1. /\ Len(q) \in Nat /\ w \in Seq(1..MaxTime) /\ Len(w) = Len(q) - k
      /\ \A i \in 1..Len(w) : w[i] = q[k + i]
  <2>1. \A i \in 1..Len(q) : q[i] \in 1..MaxTime
    BY SeqElements
  <2>2. Len(q) \in Nat /\ k \in Nat /\ \A i \in (k + 1)..Len(q) : i \in 1..Len(q)
    OBVIOUS
  <2>3. \A i \in (k + 1)..Len(q) : q[i] \in 1..MaxTime
    BY <2>1, <2>2
  <2> HIDE DEF w
  <2>4. w \in Seq(1..MaxTime) /\ Len(w) = Len(q) - k
        /\ \A i \in 1..Len(w) : w[i] = q[(k + 1) + i - 1]
    <3> DEFINE S == 1..MaxTime
    <3>1. \A i \in (k + 1)..Len(q) : q[i] \in S
      BY <2>3
    <3> HIDE DEF S
    <3>2. k + 1 \in Int /\ Len(q) \in Int /\ k + 1 <= Len(q) + 1
      BY <2>2
    <3>3. /\ w \in Seq(S) /\ Len(w) = IF k + 1 <= Len(q) THEN Len(q) - (k + 1) + 1 ELSE 0
          /\ \A i \in 1..(Len(q) - (k + 1) + 1) : w[i] = q[(k + 1) + i - 1]
      BY <3>1, <3>2, SubSeqProperties DEF w
    <3>4. Len(w) = Len(q) - k
      BY <2>2, <3>3
    <3> QED BY <3>3, <3>4, <2>2 DEF S
  <2> QED BY <2>2, <2>4
<1> HIDE DEF w
<1>2. PICK m \in 1..(Len(w) + 1) :
         /\ Evict(w, cutoff) = SubSeq(w, m, Len(w))
         /\ \A i \in 1..(m - 1) : w[i] < cutoff
         /\ m <= Len(w) => w[m] >= cutoff
  <2>1. 1..MaxTime \subseteq Int
    OBVIOUS
  <2> QED BY <1>1, <2>1, EvictCuts
<1> DEFINE n == k + m - 1
<1>3. n \in k..Len(q)
  BY <1>1
<1>4. ASSUME NEW i \in (k + 1)..n PROVE q[i] < cutoff
  <2>1. i - k \in 1..(m - 1) /\ i - k \in 1..Len(w) /\ k + (i - k) = i
    BY <1>1
  <2> QED BY <1>1, <1>2, <2>1
<1>5. n < Len(q) => q[n + 1] >= cutoff
  <2>1. ASSUME n < Len(q)
        PROVE  m \in 1..Len(w) /\ k + m = n + 1 /\ m <= Len(w)
    BY <1>1, <2>1
  <2> QED BY <1>1, <1>2, <2>1
<1>6. SubSeq(w, m, Len(w)) = SubSeq(q, n + 1, Len(q))
  <2>1. SubSeq(w, m, Len(w)) = [i \in 1..(1 + Len(w) - m) |-> w[i + m - 1]]
    BY DEF SubSeq
  <2>2. SubSeq(q, n + 1, Len(q)) = [i \in 1..(1 + Len(q) - (n + 1)) |-> q[i + (n + 1) - 1]]
    BY DEF SubSeq
  <2>3. 1 + Len(w) - m = 1 + Len(q) - (n + 1)
    BY <1>1
  <2>4. ASSUME NEW i \in 1..(1 + Len(w) - m)
        PROVE  w[i + m - 1] = q[i + (n + 1) - 1]
    <3>1. i + m - 1 \in 1..Len(w) /\ k + (i + m - 1) = i + (n + 1) - 1
      BY <1>1
    <3> QED BY <1>1, <3>1
  <2> QED BY <2>1, <2>2, <2>3, <2>4
<1>7. Evict(w, cutoff) = SubSeq(q, n + 1, Len(q))
  BY <1>2, <1>6
<1> HIDE DEF n
<1> QED BY <1>3, <1>4, <1>5, <1>7 DEF w
\* Appending to the end of the log appends to the log.
LEMMA AppendWindow ==
    ASSUME NEW q \in Seq(1..MaxTime), NEW k \in 0..Len(q), NEW t \in 1..MaxTime
    PROVE  /\ Append(SubSeq(q, k + 1, Len(q)), t)
                = SubSeq(Append(q, t), k + 1, Len(Append(q, t)))
           /\ k \in 0..Len(Append(q, t))
           /\ \A i \in 1..k : Append(q, t)[i] = q[i]
           /\ Append(q, t) \in Seq(1..MaxTime)
<1> DEFINE S == 1..MaxTime
<1> SUFFICES ASSUME q \in Seq(S), t \in S
             PROVE  /\ Append(SubSeq(q, k + 1, Len(q)), t)
                         = SubSeq(Append(q, t), k + 1, Len(Append(q, t)))
                    /\ k \in 0..Len(Append(q, t))
                    /\ \A i \in 1..k : Append(q, t)[i] = q[i]
                    /\ Append(q, t) \in Seq(S)
  OBVIOUS
<1> HIDE DEF S
<1> DEFINE h == Append(q, t)
           u == SubSeq(q, k + 1, Len(q))
<1>1. /\ Len(q) \in Nat /\ k \in Nat /\ k <= Len(q)
      /\ h \in Seq(S) /\ Len(h) = Len(q) + 1 /\ h[Len(q) + 1] = t
      /\ \A i \in 1..Len(q) : h[i] = q[i]
  OBVIOUS
<1>2. u = [i \in 1..(Len(q) - k) |-> q[k + i]]
  <2>1. u = [i \in 1..(1 + Len(q) - (k + 1)) |-> q[i + (k + 1) - 1]]
    BY DEF SubSeq
  <2>2. 1 + Len(q) - (k + 1) = Len(q) - k
        /\ \A i \in 1..(Len(q) - k) : i + (k + 1) - 1 = k + i
    BY <1>1
  <2> HIDE DEF u
  <2> QED BY <2>1, <2>2
<1>3. SubSeq(h, k + 1, Len(h)) = [i \in 1..(Len(q) - k + 1) |-> h[k + i]]
  <2>1. SubSeq(h, k + 1, Len(h)) = [i \in 1..(1 + Len(h) - (k + 1)) |-> h[i + (k + 1) - 1]]
    BY DEF SubSeq
  <2> HIDE DEF h
  <2>2. 1 + Len(h) - (k + 1) = Len(q) - k + 1
        /\ \A i \in 1..(Len(q) - k + 1) : i + (k + 1) - 1 = k + i
    BY <1>1
  <2> QED BY <2>1, <2>2
<1> HIDE DEF h, u
<1>4. u \in Seq(S) /\ Len(u) = Len(q) - k
  <2>1. \A i \in 1..(Len(q) - k) : k + i \in 1..Len(q)
    BY <1>1
  <2>2. \A i \in 1..Len(q) : q[i] \in S
    BY SeqElements
  <2>3. u \in [1..(Len(q) - k) -> S]
    BY <1>2, <2>1, <2>2
  <2>4. Len(q) - k \in Nat
    BY <1>1
  <2> QED BY <2>3, <2>4
<1>5. Append(u, t) = [i \in 1..(Len(u) + 1) |-> IF i = Len(u) + 1 THEN t ELSE u[i]]
  <2> DEFINE a == Append(u, t)
  <2>1. /\ a \in Seq(S) /\ Len(a) = Len(u) + 1 /\ a[Len(u) + 1] = t
        /\ \A i \in 1..Len(u) : a[i] = u[i]
    BY <1>4
  <2> HIDE DEF a
  <2>2. a = [i \in 1..(Len(u) + 1) |-> a[i]]
    BY <2>1, SeqElements
  <2>3. \A i \in 1..(Len(u) + 1) : a[i] = IF i = Len(u) + 1 THEN t ELSE u[i]
    BY <1>1, <1>4, <2>1
  <2>4. a = [i \in 1..(Len(u) + 1) |-> IF i = Len(u) + 1 THEN t ELSE u[i]]
    BY <2>2, <2>3
  <2> QED BY <2>4 DEF a
<1>6. ASSUME NEW i \in 1..(Len(q) - k + 1)
      PROVE  (IF i = Len(u) + 1 THEN t ELSE u[i]) = h[k + i]
  <2>1. CASE i = Len(q) - k + 1
    <3>1. k + i = Len(q) + 1 /\ i = Len(u) + 1
      BY <1>1, <1>4, <2>1
    <3> QED BY <1>1, <3>1
  <2>2. CASE i # Len(q) - k + 1
    <3>1. i \in 1..(Len(q) - k) /\ k + i \in 1..Len(q) /\ i # Len(u) + 1
      BY <1>1, <1>4, <2>2
    <3> QED BY <1>1, <1>2, <3>1
  <2> QED BY <2>1, <2>2
<1>7. Append(u, t) = SubSeq(h, k + 1, Len(h))
  BY <1>3, <1>4, <1>5, <1>6
<1>8. k \in 0..Len(h) /\ \A i \in 1..k : h[i] = q[i]
  BY <1>1
<1> QED BY <1>1, <1>7, <1>8 DEF h, u

\* A sample evicts from the window what it may.
LEMMA WindowSampled ==
    ASSUME TypeOK, NEW q \in Seq(1..MaxTime), NEW k \in 0..Len(q),
           \A i \in 1..k : q[i] < now + setback - Window,
           log' = q, sampledAt' = now, UNCHANGED <<now, setback>>,
           store'.recent = Evict(SubSeq(q, k + 1, Len(q)), now - Window)
    PROVE  WindowInv'
<1>1. /\ now \in Nat /\ setback \in Nat /\ Window \in Nat /\ now - Window \in Int
      /\ Len(q) \in Nat /\ \A i \in 1..Len(q) : q[i] \in Nat
  <2>1. \A i \in 1..Len(q) : q[i] \in 1..MaxTime
    BY SeqElements
  <2>2. Len(q) \in Nat
    BY SeqElements
  <2> QED BY <2>1, <2>2, ClockTyped, ConstantsAssumption DEF TypeOK, ConstantsAssumption
<1>2. PICK n \in k..Len(q) :
         /\ store'.recent = SubSeq(q, n + 1, Len(q))
         /\ \A i \in (k + 1)..n : q[i] < now - Window
         /\ n < Len(q) => q[n + 1] >= now - Window
  BY <1>1, EvictWindow
<1>3. ASSUME NEW i \in 1..n PROVE q[i] < now + setback - Window
  <2>1. CASE i \in 1..k
    BY <2>1
  <2>2. CASE i \in (k + 1)..n
    <3>1. q[i] < now - Window /\ q[i] \in Nat
      BY <1>1, <1>2, <2>2
    <3> QED BY <1>1, <3>1
  <2>3. i \in 1..k \/ i \in (k + 1)..n
    BY <1>1
  <2> QED BY <2>1, <2>2, <2>3
<1>4. n \in 0..Len(q)
  BY <1>1
<1>5. Window24(n)'
  BY <1>2, <1>3 DEF Window24
<1> QED BY <1>4, <1>5 DEF WindowInv

\* What was past the window stays so when time moves on.
LEMMA StillPast ==
    \A t \in Nat, a \in Nat, b \in Nat, c \in Nat, d \in Nat, w \in Nat :
        t < a + b - w /\ (a + b <= c + d \/ (a = c /\ b <= d)) => t < c + d - w
OBVIOUS

LEMMA WindowStep == TypeOK /\ TypeOK' /\ WindowInv /\ [Next]_vars => WindowInv'
<1> SUFFICES ASSUME TypeOK, TypeOK', WindowInv, [Next]_vars PROVE WindowInv'
  OBVIOUS
<1>0. PICK k \in 0..Len(log) : Window24(k)
  BY DEF WindowInv
<1>1. log \in Seq(1..MaxTime) /\ now \in 1..MaxTime
  BY RecentTyped, ClockTyped
<1>2. CASE /\ sampledAt' = now /\ UNCHANGED <<now, setback>> /\ log' = log
           /\ store'.recent = Evict(store.recent, now - Window)
  BY <1>0, <1>1, <1>2, WindowSampled DEF Window24
<1>3. CASE /\ sampledAt' = now /\ UNCHANGED <<now, setback>>
           /\ log' = Append(log, now)
           /\ store'.recent = Evict(Append(store.recent, now), now - Window)
  <2> DEFINE q == Append(log, now)
  <2>1. /\ Append(store.recent, now) = SubSeq(q, k + 1, Len(q))
        /\ k \in 0..Len(q) /\ q \in Seq(1..MaxTime)
        /\ \A i \in 1..k : q[i] = log[i]
    BY <1>0, <1>1, AppendWindow DEF Window24
  <2> HIDE DEF q
  <2>2. \A i \in 1..k : q[i] < now + setback - Window
    BY <1>0, <2>1 DEF Window24
  <2>3. log' = q /\ store'.recent = Evict(SubSeq(q, k + 1, Len(q)), now - Window)
    BY <1>3, <2>1 DEF q
  <2> QED BY <1>3, <2>1, <2>2, <2>3, WindowSampled
<1>4. ASSUME sampledAt' = now, UNCHANGED <<now, setback>>, log' = store'.recent,
             NEW rec \in Records \cup {Zeros}, store'.recent = Kept(rec.recent, now - Window)
      PROVE  WindowInv'
  <2>1. log' \in Seq({t \in 1..MaxTime : t >= now - Window})
    BY <1>4, RecentTyped, KeptShortens, ClockTyped
  <2>2. Len(log') \in Nat /\ SubSeq(log', 1, Len(log')) = log'
        /\ \A i \in 1..Len(log') : log'[i] >= now - Window
    <3>1. Len(log') \in Nat /\ \A i \in 1..Len(log') :
             log'[i] \in {t \in 1..MaxTime : t >= now - Window}
      BY <2>1, SeqElements
    <3>2. SubSeq(log', 1, Len(log')) = log'
      <4> DEFINE S == {t \in 1..MaxTime : t >= now - Window}
      <4>1. log' \in Seq(S)
        BY <2>1
      <4> HIDE DEF S
      <4> QED BY <4>1
    <3> QED BY <3>1, <3>2
  <2>3. 1 <= Len(log') => 1 \in 1..Len(log')
    BY <2>2
  <2>4. Window24(0)'
    BY <1>4, <2>2, <2>3 DEF Window24
  <2> QED BY <2>2, <2>4 DEF WindowInv
<1>5. CASE UNCHANGED <<sampledAt, log, store>>
  <2>1. /\ Window \in Nat /\ sampledAt \in Nat /\ k \in Nat /\ k <= Len(log)
        /\ Len(log) \in Nat /\ \A i \in 1..Len(log) : log[i] \in Nat
    <3>1. Len(log) \in Nat /\ \A i \in 1..Len(log) : log[i] \in 1..MaxTime
      BY <1>1, SeqElements
    <3> QED BY <3>1, ConstantsAssumption DEF TypeOK, ConstantsAssumption
  <2>2. ASSUME NEW i \in 1..k
        PROVE  /\ log[i] < sampledAt + setback' - Window
               /\ log[i] < now' + setback' - Window
    <3>1. log[i] \in Nat /\ log[i] < sampledAt + setback - Window
          /\ log[i] < now + setback - Window
      BY <1>0, <2>1 DEF Window24
    <3>2. /\ setback \in Nat /\ now \in Nat /\ setback' \in Nat /\ now' \in Nat
          /\ setback <= setback' /\ now + setback <= now' + setback'
      BY TimeMovesOn
    <3>3. Window \in Nat /\ sampledAt \in Nat
      BY <2>1
    <3> QED BY <3>1, <3>2, <3>3, StillPast
  <2>3. Window24(k)'
    BY <1>0, <1>5, <2>2 DEF Window24
  <2> QED BY <1>5, <2>3 DEF WindowInv
<1> QED BY <1>2, <1>3, <1>4, <1>5, WindowSteps

\* What the two invariants say of the number of entries shown.
LEMMA WindowCounts == TypeOK /\ OrderInv /\ WindowInv => WindowWithin
<1> SUFFICES ASSUME TypeOK, OrderInv, WindowInv PROVE WindowWithin
  OBVIOUS
<1> DEFINE n == Len(log)
           cutoff == sampledAt - Window
           since(t) == {i \in 1..n : log[i] >= t}
<1>0. PICK k \in 0..n : Window24(k)
  BY DEF WindowInv
<1>1. /\ n \in Nat /\ k \in Nat /\ k <= n /\ cutoff \in Int /\ setback \in Nat
      /\ sampledAt \in Int /\ Window \in Int
      /\ \A i \in 1..n : log[i] \in Nat
  <2>1. n \in Nat /\ \A i \in 1..n : log[i] \in 1..MaxTime
    BY RecentTyped, SeqElements
  <2> QED BY <2>1, ConstantsAssumption DEF TypeOK, ConstantsAssumption
<1>2. Len(store.recent) = n - k
  <2>1. store.recent = SubSeq(log, k + 1, n)
    BY <1>0 DEF Window24
  <2>2. Len(SubSeq(log, k + 1, n)) = n - k
    BY <1>1
  <2> QED BY <2>1, <2>2
<1>3. IsFiniteSet(1..n) /\ IsFiniteSet((k + 1)..n) /\ Cardinality((k + 1)..n) = n - k
  BY <1>1, FS_Interval
<1>4. \A t : IsFiniteSet(since(t))
  BY <1>3, FS_Subset
<1>5. since(cutoff + setback) \subseteq (k + 1)..n
  <2> SUFFICES ASSUME NEW i \in 1..n, log[i] >= cutoff + setback, i <= k
               PROVE  FALSE
    BY <1>1
  <2>1. log[i] < sampledAt + setback - Window
    BY <1>0, <1>1 DEF Window24
  <2> QED BY <1>1, <2>1
<1>6. (k + 1)..n \subseteq since(cutoff - setback)
  <2> SUFFICES ASSUME NEW i \in (k + 1)..n PROVE log[i] >= cutoff - setback
    BY <1>1
  <2>1. k < n /\ k + 1 \in 1..n /\ i \in 1..n
    BY <1>1
  <2>2. log[k + 1] >= cutoff
    BY <1>0, <2>1 DEF Window24
  <2>3. CASE i = k + 1
    BY <1>1, <2>1, <2>2, <2>3
  <2>4. CASE i # k + 1
    <3>1. log[k + 1] <= log[i] + setback
      BY <1>1, <2>1, <2>4 DEF OrderInv, InOrder
    <3> QED BY <1>1, <2>1, <2>2, <3>1
  <2> QED BY <2>3, <2>4
<1> HIDE DEF n, cutoff, since
<1>7. Cardinality(since(cutoff + setback)) <= n - k
  BY <1>3, <1>5, FS_Subset
<1>8. n - k <= Cardinality(since(cutoff - setback))
  BY <1>3, <1>4, <1>6, FS_Subset
<1> QED BY <1>2, <1>7, <1>8 DEF WindowWithin, n, cutoff, since

\* The published 24-hour count is the number of counts in the window, but for
\* what the clock was set back.
THEOREM WindowIsHonest == Spec => []WindowWithin
BY TypeInit, TypeStep, CountInit, CountStep, OrderInit, OrderStep, WindowInit,
   WindowStep, WindowCounts, PTL DEF Spec
------------------------------------------------------------------------------
(* The store implements DurableCount.                                        *)

LEMMA CounterInit == Init => Counter!Init
BY DEF Init, Zeros, Counter!Init

\* The counts a crash can bring back.
LEMMA BootMaps ==
    ASSUME TypeOK, CountInv, DurableInv, NEW rec \in {visible, durable},
           NEW read \in {rec, Zeros}, Boot(rec, read), durable' \in {rec, durable}
    PROVE  /\ UNCHANGED <<transfers, served>> /\ store'.count = read.count
           /\ read.count \in 0..rec.count /\ rec.count \in 0..transfers
           /\ durable'.count \in 0..transfers
           /\ ~spoiled => /\ rec.count \in durable.count..store.count
                          /\ durable'.count \in durable.count..store.count
<1>1. UNCHANGED <<transfers, served>> /\ store'.count = read.count
  BY ZerosTyped DEF Boot, Loaded, TypeOK, PersistedState
<1>2. /\ rec \in Records /\ rec.count \in Nat /\ rec.count <= transfers
      /\ durable.count \in Nat /\ durable.count <= transfers
      /\ transfers \in Nat /\ store.count \in Nat
  BY CountsTyped DEF TypeOK, Records, CountInv
<1>3. read.count \in 0..rec.count
  BY <1>2 DEF Zeros
<1>4. ~spoiled => rec.count \in durable.count..store.count
  BY <1>2, CountsTyped DEF DurableInv, CountsOrdered
<1>5. durable'.count \in {rec.count, durable.count}
  OBVIOUS
<1> QED BY <1>1, <1>2, <1>3, <1>4, <1>5

LEMMA CounterStep ==
    TypeOK /\ CountInv /\ DurableInv /\ [Next]_vars => [Counter!Next]_(Counter!counter)
<1> SUFFICES ASSUME TypeOK, CountInv, DurableInv, [Next]_vars
             PROVE  [Counter!Next]_(Counter!counter)
  OBVIOUS
<1> USE DEF Counter!counter
<1>0. ~spoiled => CountsOrdered
  BY DEF DurableInv
<1>a. spoiled \in BOOLEAN /\ transfers \in Nat
      /\ \A rec \in Records : rec.count \in Nat /\ rec.count <= transfers
  BY CountsTyped DEF TypeOK, CountInv
<1>2. CASE Sample
  <2>1. PICK p \in Positions : apply_input_snapshot(p)
    BY <1>2 DEF Sample
  <2>2. UNCHANGED <<durable, served, spoiled>>
    BY <2>1 DEF apply_input_snapshot, disk
  <2>3. CASE ToGenerator(position, p)
    <3>1. store'.count = store.count + 1 /\ transfers' = transfers + 1
      BY <2>1, <2>3, SampleCounts
    <3> QED BY <2>2, <3>1 DEF Counter!Next, Counter!Count
  <2>4. CASE ~ToGenerator(position, p)
    <3>1. UNCHANGED <<store.count, transfers>>
      BY <2>1, <2>4, SampleCounts
    <3> QED BY <2>2, <3>1
  <2> QED BY <2>3, <2>4
<1>3. CASE ModbusRead
  <2>1. served' = (IF store.count > served THEN store.count ELSE served)
    BY <1>3, CountsTyped, MaxOfTwo DEF ModbusRead
  <2>2. UNCHANGED <<store, durable, transfers, spoiled>> /\ Idle
    BY <1>3 DEF ModbusRead, service, disk
  <2>3. spoiled \/ store.count <= durable.count
    BY <1>0, <2>2 DEF CountsOrdered
  <2> QED BY <2>1, <2>2, <2>3 DEF Counter!Next, Counter!Show
<1>4. ASSUME UNCHANGED <<transfers, store, served, spoiled>>, durable' = visible
      PROVE  Counter!Persist
  <2>1. visible.count \in 0..transfers
    BY <1>a, CountsTyped
  <2>2. ~spoiled => visible.count \in durable.count..store.count
    BY <1>0, CountsTyped DEF CountsOrdered
  <2>3. durable'.count \in IF spoiled THEN 0..transfers ELSE durable.count..store.count
    BY <1>4, <1>a, <2>1, <2>2
  <2> QED BY <1>4, <2>3 DEF Counter!Persist
<1>5. CASE SyncDone \/ \E s \in Saves : AsyncDone(s)
  <2>1. UNCHANGED <<transfers, store, served, spoiled>> /\ durable' = visible
    BY <1>5 DEF SyncDone, AsyncDone, history
  <2> QED BY <1>4, <2>1 DEF Counter!Next
<1>6. ASSUME UNCHANGED <<transfers, store, served, durable>>,
             spoiled' \in BOOLEAN, spoiled => spoiled'
      PROVE  [Counter!Next]_(Counter!counter)
  <2>1. CASE spoiled' = spoiled
    BY <1>6, <2>1
  <2>2. CASE ~spoiled /\ spoiled' = TRUE
    <3>1. durable.count \in durable.count..store.count /\ store.count \in 0..store.count
      BY <1>0, <2>2, CountsTyped DEF CountsOrdered
    <3> QED BY <1>6, <2>2, <3>1 DEF Counter!Next, Counter!Spoil
  <2>3. spoiled \in {TRUE, FALSE} /\ spoiled' \in {TRUE, FALSE} /\ (spoiled => spoiled')
    BY <1>6, <1>a
  <2>4. spoiled' = spoiled \/ (~spoiled /\ spoiled' = TRUE)
    BY <2>3, Zenon
  <2> QED BY <2>1, <2>2, <2>4
<1>7. CASE \/ SyncReplace \/ SyncFails
           \/ \E s \in Saves : AsyncReplace(s) \/ AsyncFails(s)
  <2>1. UNCHANGED <<transfers, store, served, durable>>
    BY <1>7 DEF SyncReplace, SyncFails, AsyncReplace, AsyncFails, Replace, disk
  <2>2. spoiled' \in BOOLEAN /\ (spoiled => spoiled')
    BY <1>7, <1>a DEF SyncReplace, SyncFails, AsyncReplace, AsyncFails, Replace
  <2> QED BY <1>6, <2>1, <2>2
<1>8. CASE Killed \/ PowerFails
  <2>1. PICK rec \in {visible, durable}, read \in {visible, durable, Zeros} :
           /\ read \in {rec, Zeros}
           /\ Boot(rec, read) /\ durable' \in {rec, durable}
           /\ spoiled' \in BOOLEAN /\ (spoiled => spoiled')
           /\ ~spoiled' => read = rec /\ durable' = rec
    BY <1>8, CrashBoots
  <2>2. /\ UNCHANGED <<transfers, served>> /\ store'.count = read.count
        /\ read.count \in 0..rec.count /\ rec.count \in 0..transfers
        /\ durable'.count \in 0..transfers
        /\ ~spoiled => /\ rec.count \in durable.count..store.count
                       /\ durable'.count \in durable.count..store.count
    BY <2>1, BootMaps
  <2>3. CASE spoiled
    <3>1. spoiled' = spoiled
      BY <1>a, <2>1, <2>3
    <3>2. store'.count \in 0..transfers
      BY <1>a, <2>2
    <3> QED BY <2>2, <2>3, <3>1, <3>2 DEF Counter!Next, Counter!Restart
  <2>4. CASE ~spoiled /\ ~spoiled'
    <3>1. spoiled' = spoiled
      BY <1>a, <2>1, <2>4
    <3>2. store'.count = rec.count /\ durable'.count = rec.count
      BY <2>1, <2>2, <2>4
    <3>3. durable'.count \in durable.count..store'.count
      BY <2>2, <2>4, <3>2
    <3>4. store'.count \in durable.count..store.count
      BY <2>2, <2>4, <3>2
    <3> QED BY <2>2, <2>4, <3>1, <3>3, <3>4 DEF Counter!Next, Counter!Restart
  <2>5. CASE ~spoiled /\ spoiled'
    <3>1. spoiled' = TRUE
      BY <2>1, <2>5
    <3>2. store'.count \in 0..store.count
      BY <2>2, <2>5, CountsTyped
    <3> QED BY <2>2, <2>5, <3>1, <3>2 DEF Counter!Next, Counter!Spoil
  <2> QED BY <2>3, <2>4, <2>5
<1>10. CASE UNCHANGED <<transfers, store, durable, served, spoiled>>
  BY <1>10
<1> QED
  BY <1>2, <1>3, <1>5, <1>7, <1>8, <1>10
  DEF Next, Tick, ClockStepsBack, service, disk, history, vars

\* TransferStore implements DurableCount: whatever is saved, in any order,
\* and wherever it crashes, a count is shown once it is durable, and a restart
\* takes up at or above what was durable, until the record is spoiled.
THEOREM ImplementsDurableCount == Spec => DurableCounting
BY TypeInit, TypeStep, CountInit, CountStep, DurableInit, DurableStep, CounterInit,
   CounterStep, PTL DEF Spec, DurableCounting, Counter!Spec
=============================================================================
