---------------------------- MODULE SensingProofs ----------------------------
(* Theorems about the ADAM driver's debounce in Sensing, for any number of   *)
(* samples and whatever the contacts do.                                     *)
EXTENDS Sensing, TLAPS

LevelReads == [Levels -> BOOLEAN]

\* What a counter stands for: the last candidate reads differ from the stable
\* level, the one before them does not.
Counts(ch) ==
    /\ candidate[ch] \in 0..(Samples - 1)
    /\ reads[Samples - candidate[ch]][ch] = stable[ch]
    /\ \A i \in 1..Samples :
          i > Samples - candidate[ch] => reads[i][ch] # stable[ch]

\* DebounceExact is not inductive: agreement is about reads, and the driver
\* keeps none of them, only the counters.
DebounceInv ==
    /\ agreed \in LevelReads
    /\ stable # None => Adam
    /\ Adam /\ stable = None => reads = <<>>
    /\ stable # None =>
          /\ stable \in LevelReads
          /\ reads \in Seq(LevelReads) /\ Len(reads) = Samples
          /\ candidate \in [Levels -> Nat]
          /\ stable = agreed
          /\ \A ch \in Levels : Counts(ch)

\* The window of reads moves by one.
LEMMA WindowMoves ==
    ASSUME NEW S, NEW w \in Seq(S), Len(w) = Samples, NEW x \in S
    PROVE  /\ Append(Tail(w), x) \in Seq(S)
           /\ Len(Append(Tail(w), x)) = Samples
           /\ \A i \in 1..Samples :
                 Append(Tail(w), x)[i] = IF i < Samples THEN w[i + 1] ELSE x
BY ConstantsAssumption DEF ConstantsAssumption

LEMMA DebounceInit == Init => DebounceInv
BY ConstantsAssumption DEF Init, DebounceInv, LevelReads

\* The reads after one more, the window being full.
LEMMA Reading ==
    ASSUME DebounceInv, stable # None, NEW levels \in LevelReads, Record(levels)
    PROVE  /\ reads' \in Seq(LevelReads) /\ Len(reads') = Samples
           /\ \A i \in 1..Samples :
                 reads'[i] = IF i < Samples THEN reads[i + 1] ELSE levels
           /\ agreed' \in LevelReads
<1>1. reads # <<>>
  BY ConstantsAssumption DEF DebounceInv, ConstantsAssumption
<1>2. reads' = Append(Tail(reads), levels)
  BY <1>1 DEF Record, Recorded
<1>3. agreed' \in LevelReads
  BY DEF Record, DebounceInv, LevelReads
<1> QED BY <1>2, <1>3, WindowMoves DEF DebounceInv

\* A read after the first keeps the counters' meaning.
LEMMA DebouncedKeeps ==
    ASSUME DebounceInv, stable # None, NEW levels \in LevelReads,
           Record(levels), Debounced(levels), bits' = bits
    PROVE  DebounceInv' /\ stable' # None
<1> DEFINE pending(ch) == IF levels[ch] = stable[ch] THEN 0
                                                    ELSE candidate[ch] + 1
<1>1. /\ reads' \in Seq(LevelReads) /\ Len(reads') = Samples
      /\ \A i \in 1..Samples :
            reads'[i] = IF i < Samples THEN reads[i + 1] ELSE levels
      /\ agreed' \in LevelReads
  BY Reading
<1>2. ASSUME NEW ch \in Levels
      PROVE  /\ stable'[ch] = (IF pending(ch) >= Samples THEN levels[ch]
                                                        ELSE stable[ch])
             /\ candidate'[ch] = (IF pending(ch) >= Samples THEN 0
                                                           ELSE pending(ch))
             /\ agreed'[ch] = IF \A i \in 1..Samples : reads'[i][ch] = levels[ch]
                              THEN levels[ch] ELSE agreed[ch]
  BY DEF Debounced, Record
<1>3. ASSUME NEW ch \in Levels
      PROVE  Counts(ch)' /\ stable'[ch] = agreed'[ch]
  <2>1. /\ Samples \in Nat \ {0} /\ candidate[ch] \in 0..(Samples - 1)
        /\ levels[ch] \in BOOLEAN /\ stable[ch] \in BOOLEAN
    BY ConstantsAssumption
    DEF ConstantsAssumption, DebounceInv, Counts, LevelReads
  <2>2. /\ reads[Samples - candidate[ch]][ch] = stable[ch]
        /\ \A i \in 1..Samples :
              i > Samples - candidate[ch] => reads[i][ch] # stable[ch]
        /\ stable[ch] = agreed[ch]
        /\ \A i \in 1..Samples : reads[i][ch] \in BOOLEAN
    BY DEF DebounceInv, Counts, LevelReads
  <2>3. CASE levels[ch] = stable[ch]
    <3>1. candidate'[ch] = 0 /\ stable'[ch] = stable[ch]
      BY <1>2, <2>1, <2>3
    <3>2. reads'[Samples][ch] = stable[ch]
      BY <1>1, <2>1, <2>3
    <3>3. agreed'[ch] = stable[ch]
      BY <1>2, <2>2, <2>3
    <3> QED BY <2>1, <3>1, <3>2, <3>3 DEF Counts
  <2>4. CASE levels[ch] # stable[ch] /\ candidate[ch] = Samples - 1
    <3>1. candidate'[ch] = 0 /\ stable'[ch] = levels[ch]
      BY <1>2, <2>1, <2>4
    <3>2. ASSUME NEW i \in 1..Samples PROVE reads'[i][ch] = levels[ch]
      <4>1. CASE i = Samples
        BY <1>1, <2>1, <4>1
      <4>2. CASE i < Samples
        <5>1. i + 1 \in 1..Samples /\ i + 1 > Samples - candidate[ch]
          BY <2>1, <2>4, <4>2
        <5>2. reads[i + 1][ch] # stable[ch] /\ reads[i + 1][ch] \in BOOLEAN
          BY <2>2, <5>1
        <5>3. reads'[i] = reads[i + 1]
          BY <1>1, <4>2
        <5> QED BY <2>1, <2>4, <5>2, <5>3
      <4> QED BY <2>1, <4>1, <4>2
    <3>3. agreed'[ch] = levels[ch]
      BY <1>2, <3>2
    <3> QED BY <2>1, <3>1, <3>2, <3>3 DEF Counts
  <2>5. CASE levels[ch] # stable[ch] /\ candidate[ch] < Samples - 1
    <3>1. candidate'[ch] = candidate[ch] + 1 /\ stable'[ch] = stable[ch]
      BY <1>2, <2>1, <2>5
    <3>2. /\ Samples - (candidate[ch] + 1) \in 1..(Samples - 1)
          /\ reads'[Samples - (candidate[ch] + 1)][ch] = stable[ch]
      BY <1>1, <2>1, <2>2, <2>5
    <3>3. ASSUME NEW i \in 1..Samples, i > Samples - (candidate[ch] + 1)
          PROVE  reads'[i][ch] # stable[ch]
      <4>1. CASE i = Samples
        BY <1>1, <2>1, <2>5, <4>1
      <4>2. CASE i < Samples
        <5>1. i + 1 \in 1..Samples /\ i + 1 > Samples - candidate[ch]
          BY <2>1, <3>3, <4>2
        <5>2. reads[i + 1][ch] # stable[ch]
          BY <2>2, <5>1
        <5>3. reads'[i] = reads[i + 1]
          BY <1>1, <4>2
        <5> QED BY <5>2, <5>3
      <4> QED BY <2>1, <4>1, <4>2
    <3>4. agreed'[ch] = stable[ch]
      BY <1>2, <2>1, <2>2, <2>5, <3>2
    <3> QED BY <2>1, <2>5, <3>1, <3>2, <3>3, <3>4 DEF Counts
  <2> QED BY <2>1, <2>3, <2>4, <2>5
<1>4. stable' \in LevelReads /\ candidate' \in [Levels -> Nat]
  BY ConstantsAssumption
  DEF Debounced, DebounceInv, LevelReads, ConstantsAssumption
<1>5. stable' = agreed'
  BY <1>1, <1>3, <1>4 DEF LevelReads
<1>6. stable' # None
  BY <1>4, ConstantsAssumption DEF ConstantsAssumption, LevelReads
<1> QED BY <1>1, <1>3, <1>4, <1>5, <1>6 DEF DebounceInv, Adam

\* The first read is one that fills the window.
LEMMA SeededStarts ==
    ASSUME DebounceInv, Adam, stable = None, NEW levels \in LevelReads,
           Record(levels), Seeded(levels), bits' = bits
    PROVE  DebounceInv' /\ \A i \in 1..Samples : reads'[i] = stable'
<1>1. reads' = [i \in 1..Samples |-> levels]
  BY DEF Record, Recorded, DebounceInv
<1>2. /\ stable' = levels /\ candidate' = [ch \in Levels |-> 0]
      /\ agreed' \in LevelReads
  BY DEF Seeded, Record, DebounceInv, LevelReads
<1>3. Samples \in Nat \ {0}
  BY ConstantsAssumption DEF ConstantsAssumption
<1>4. agreed' = levels
  BY <1>1, <1>3, <1>2 DEF Record, LevelReads
<1>5. reads' \in Seq(LevelReads) /\ Len(reads') = Samples
  BY <1>1, <1>3
<1>6. \A ch \in Levels : Counts(ch)'
  BY <1>1, <1>2, <1>3 DEF Counts
<1>7. candidate' \in [Levels -> Nat]
  BY <1>2
<1>8. Adam'
  BY DEF Adam
<1>9. stable' # None
  BY <1>2, ConstantsAssumption DEF ConstantsAssumption, LevelReads
<1> QED BY <1>1, <1>2, <1>4, <1>5, <1>6, <1>7, <1>8, <1>9 DEF DebounceInv

\* A contact whose level changed has it in all the reads, so the read in which
\* the other contact last had its level shows both.
LEMMA SettledInWindow ==
    ASSUME DebounceInv, DebounceInv', stable # None, stable' # None,
           stable' # stable, NEW levels \in LevelReads, Record(levels)
    PROVE  \E i \in 1..Samples : reads'[i] = stable'
<1>1. PICK a \in Levels : stable'[a] # stable[a]
  BY DEF DebounceInv, LevelReads
<1>2. PICK b \in Levels : b # a /\ \A ch \in Levels : ch \in {a, b}
  BY DEF Levels
<1>3. stable' = agreed' /\ stable = agreed
  BY DEF DebounceInv
<1>4. agreed'[a] = IF \A i \in 1..Samples : reads'[i][a] = levels[a]
                   THEN levels[a] ELSE agreed[a]
  BY DEF Record
<1>5. \A i \in 1..Samples : reads'[i][a] = stable'[a]
  BY <1>1, <1>3, <1>4
<1> DEFINE j == Samples - candidate'[b]
<1>6. j \in 1..Samples /\ reads'[j][b] = stable'[b]
  BY ConstantsAssumption DEF DebounceInv, Counts, ConstantsAssumption
<1>7. reads'[j] \in LevelReads /\ stable' \in LevelReads
  BY <1>6 DEF DebounceInv
<1>8. \A ch \in Levels : reads'[j][ch] = stable'[ch]
  BY <1>2, <1>5, <1>6
<1>9. reads'[j] = stable'
  BY <1>7, <1>8 DEF LevelReads
<1> QED BY <1>6, <1>9

LEMMA ContactLevels ==
    /\ Contacts \in LevelReads
    /\ \A ch \in Levels : Flipped(Contacts, ch) \in LevelReads
<1>1. Contacts \in [on_normal : BOOLEAN, on_emergency : BOOLEAN]
  BY DEF Contacts
<1>2. [on_normal : BOOLEAN, on_emergency : BOOLEAN] = [Levels -> BOOLEAN]
  BY DEF Levels
<1>3. Contacts \in LevelReads
  BY <1>1, <1>2 DEF LevelReads
<1> QED BY <1>3 DEF Flipped, LevelReads

\* What a read of the ADAM does to the filter, disturbed or not.
LEMMA AdamReadsKeep ==
    ASSUME DebounceInv, Adam, bits' = bits,
           NEW levels \in LevelReads, NEW disconnect, AdamReads(levels, disconnect)
    PROVE  /\ DebounceInv'
           /\ stable' \notin {None, stable} =>
                \E i \in 1..Samples : reads'[i] = stable'
<1>1. update(levels) /\ Record(levels)
  BY DEF AdamReads
<1>2. CASE stable = None
  <2>1. DebounceInv' /\ \A i \in 1..Samples : reads'[i] = stable'
    BY <1>1, <1>2, SeededStarts DEF update
  <2>2. 1 \in 1..Samples
    BY ConstantsAssumption DEF ConstantsAssumption
  <2> QED BY <2>1, <2>2
<1>3. CASE stable # None
  <2>1. DebounceInv' /\ stable' # None
    BY <1>1, <1>3, DebouncedKeeps DEF update
  <2> QED BY <1>1, <1>3, <2>1, SettledInWindow
<1> QED BY <1>2, <1>3

\* Nothing the invariant is about moves.
LEMMA FilterRests ==
    ASSUME DebounceInv,
           UNCHANGED <<stable, candidate, reads, agreed, bits>>
    PROVE  DebounceInv'
BY DEF DebounceInv, Counts, Adam, LevelReads

LEMMA DebounceStep ==
    ASSUME DebounceInv, [Next]_vars
    PROVE  /\ DebounceInv'
           /\ stable' \notin {None, stable} =>
                \E i \in 1..Samples : reads'[i] = stable'
<1> DEFINE Goal == /\ DebounceInv'
                   /\ stable' \notin {None, stable} =>
                        \E i \in 1..Samples : reads'[i] = stable'
<1> SUFFICES Goal
  OBVIOUS
<1>0. ASSUME UNCHANGED <<stable, candidate, reads, agreed, bits>> PROVE Goal
  BY <1>0, FilterRests
<1>1. ASSUME ~Adam, bits' = bits,
             UNCHANGED <<stable, candidate, agreed>>
      PROVE  Goal
  BY <1>1 DEF DebounceInv, Adam
<1>2. CASE StartStroke \/ PulseEnds \/ EndStroke
  BY <1>0, <1>2 DEF StartStroke, PulseEnds, EndStroke, filter, history
<1>3. CASE PortChanges
  BY <1>0, <1>3 DEF PortChanges, filter, history
<1>4. CASE ReadInputs
  <2>1. CASE AdamRead
    BY <1>4, <2>1, AdamReadsKeep, ContactLevels DEF ReadInputs, AdamRead
  <2>2. CASE AscoRead
    BY <1>1, <1>4, <2>2 DEF ReadInputs, AscoRead, AscoReads, filter
  <2> QED BY <1>4, <2>1, <2>2 DEF ReadInputs
<1>5. CASE ReadInputsDisturbed
  <2>1. CASE AdamReadNoisy
    <3>1. bits' = bits
      BY <1>5 DEF ReadInputsDisturbed
    <3>2. Adam /\ \E levels \in LevelReads, disconnect \in {pulse, ~pulse} :
                     AdamReads(levels, disconnect)
      BY <2>1, ContactLevels DEF AdamReadNoisy
    <3> QED BY <3>1, <3>2, AdamReadsKeep
  <2>2. CASE AscoReadShort
    <3>1. ~Adam /\ UNCHANGED <<stable, candidate, agreed>>
      BY <2>2 DEF AscoReadShort, AscoReads, filter
    <3> QED BY <1>1, <1>5, <3>1 DEF ReadInputsDisturbed
  <2> QED BY <1>5, <2>1, <2>2 DEF ReadInputsDisturbed
<1>6. CASE ReadInputsFails
  BY <1>0, <1>6 DEF ReadInputsFails, filter, history
<1>7. CASE Publish \/ ReadOutputsFails
  BY <1>0, <1>7 DEF Publish, ReadOutputsFails, filter, history
<1>8. CASE Tick
  BY <1>0, <1>8 DEF Tick, history
<1>9. CASE Restart
  BY <1>9 DEF Restart, DebounceInv, LevelReads, Adam
<1>10. CASE UNCHANGED vars
  BY <1>0, <1>10 DEF vars, filter, history
<1> QED
  BY <1>2, <1>3, <1>4, <1>5, <1>6, <1>7, <1>8, <1>9, <1>10 DEF Next

\* The driver's counters decide as comparing the last Samples reads would:
\* _Debouncer settles a level exactly when they agree on it.
THEOREM DebounceIsWindowed == Spec => []DebounceExact
<1>1. DebounceInv => DebounceExact
  BY DEF DebounceInv, DebounceExact
<1>2. DebounceInv /\ [Next]_vars => DebounceInv'
  BY DebounceStep
<1> QED BY <1>1, <1>2, DebounceInit, PTL DEF Spec

\* Two contacts debounced apart make no levels up: whenever what the driver
\* holds settled changes, one of the last Samples reads showed it.
THEOREM SettledLevelsWereRead == Spec => SettledWasRead
<1>1. DebounceInv /\ [Next]_vars => DebounceInv'
  BY DebounceStep
<1>2. DebounceInv /\ [Next]_vars =>
        [stable' \notin {None, stable} =>
            \E i \in 1..Samples : reads'[i] = stable']_vars
  BY DebounceStep
<1> QED BY <1>1, <1>2, DebounceInit, PTL DEF Spec, SettledWasRead

------------------------------------------------------------------------------
(* The serial reader's registers.                                           *)

\* The controller's bits are where it has them, one apart from the other.
LEMMA LayoutApart ==
    /\ DOMAIN Layout = {"on_normal", "on_emergency", "transferring"}
    /\ Layout.on_normal # Layout.on_emergency
    /\ Layout.on_normal # Layout.transferring
    /\ Layout.on_emergency # Layout.transferring
<1>1. DOMAIN Layout = {"on_normal", "on_emergency", "transferring"}
  BY ConstantsAssumption DEF ConstantsAssumption
<1> QED BY <1>1, ConstantsAssumption DEF ConstantsAssumption

\* Where a bit of the block lies.
WordOf(b) == b \div WordBits
BitOf(b) == b % WordBits

\* A bit's number is that of its register and that within the register.
LEMMA BitPlace ==
    ASSUME NEW b \in 0..(Words * WordBits - 1)
    PROVE  /\ WordOf(b) \in 0..(Words - 1) /\ BitOf(b) \in 0..(WordBits - 1)
           /\ WordOf(b) * WordBits + BitOf(b) = b
<1>1. WordBits \in Nat \ {0} /\ Words \in Nat /\ Words * WordBits \in Nat /\ b \in Nat
  BY ConstantsAssumption DEF ConstantsAssumption
<1>2. WordOf(b) \in Nat
  BY <1>1 DEF WordOf
<1>3. BitOf(b) \in 0..(WordBits - 1)
  BY <1>1 DEF BitOf
<1>4. WordOf(b) * WordBits + BitOf(b) = b
  BY <1>1 DEF WordOf, BitOf
<1>5. WordOf(b) < Words
  BY <1>1, <1>2, <1>3, <1>4
<1> QED BY <1>1, <1>2, <1>3, <1>4, <1>5

\* Where the map has a bit of the controller's right, the registers that came
\* have it one only if the controller does, whatever the rest of them holds.
LEMMA BitsShow ==
    ASSUME bits \in Maps, NEW others \in SUBSET Others, NEW n \in 0..Words
    PROVE  /\ \A ch \in Levels \cap Right :
                _extract_bit(SubSeq(Registers(others), 1, n), bits[ch]) => Contacts[ch]
           /\ bits.transferring = Layout.transferring
                /\ _extract_bit(SubSeq(Registers(others), 1, n), bits.transferring)
              => stroke
<1> DEFINE regs == SubSeq(Registers(others), 1, n)
           set  == {Layout[c] : c \in {d \in Levels : Contacts[d]}}
                     \cup (IF stroke THEN {Layout.transferring} ELSE {})
                     \cup others
<1>1. WordBits \in Nat \ {0} /\ Words \in Nat /\ None \notin Nat
      /\ Layout.transferring \in Nat
  BY ConstantsAssumption DEF ConstantsAssumption
<1>2. /\ bits.on_normal \in 0..(Words * WordBits - 1)
      /\ bits.on_emergency \in 0..(Words * WordBits - 1)
      /\ bits.transferring # None => bits.transferring \in 0..(Words * WordBits - 1)
  <2>1. bits.on_normal \in Nat /\ bits.on_emergency \in Nat
    BY <1>1 DEF Maps
  <2> QED BY <1>1, <2>1 DEF Maps, validate
<1>3. Registers(others) = [w \in 1..Words |->
                             {b \in 0..(WordBits - 1) : (w - 1) * WordBits + b \in set}]
  BY DEF Registers
<1>4. ASSUME NEW d \in DOMAIN Layout PROVE Layout[d] \notin others
  BY <1>4 DEF Others
<1>5. ASSUME NEW ch \in Levels PROVE Layout[ch] \in set => Contacts[ch]
  <2>1. ch \in DOMAIN Layout /\ Layout[ch] # Layout.transferring
    BY LayoutApart DEF Levels
  <2>2. \A c \in Levels : Layout[c] = Layout[ch] => c = ch
    BY LayoutApart DEF Levels
  <2> QED BY <1>4, <2>1, <2>2 DEF set
<1>6. Layout.transferring \in set => stroke
  <2>1. \A c \in Levels : Layout[c] # Layout.transferring
    BY LayoutApart DEF Levels
  <2> QED BY <1>4, <2>1, LayoutApart DEF set
<1> HIDE DEF set
<1>7. Registers(others) \in Seq(SUBSET (0..(WordBits - 1))) /\ Len(Registers(others)) = Words
  BY <1>1, <1>3
<1>8. /\ Len(regs) = n
      /\ \A i \in 1..n : regs[i] = Registers(others)[i]
  BY <1>1, <1>7
<1> HIDE DEF regs
<1>9. ASSUME NEW b \in 0..(Words * WordBits - 1), _extract_bit(regs, b)
      PROVE  b \in set
  <2> DEFINE w == WordOf(b)
             r == BitOf(b)
  <2>1. w \in 0..(Words - 1) /\ r \in 0..(WordBits - 1) /\ w * WordBits + r = b
    BY BitPlace
  <2>2. w < n /\ r \in regs[w + 1]
    BY <1>8, <1>9 DEF _extract_bit, WordOf, BitOf
  <2> HIDE DEF w, r
  <2>3. w + 1 \in 1..n /\ w + 1 \in 1..Words /\ (w + 1) - 1 = w
    BY <1>1, <2>1, <2>2
  <2>4. regs[w + 1] = {x \in 0..(WordBits - 1) : w * WordBits + x \in set}
    BY <1>3, <1>8, <2>3
  <2> QED BY <2>1, <2>2, <2>4
<1>10. ASSUME NEW ch \in Levels \cap Right, _extract_bit(regs, bits[ch])
       PROVE  Contacts[ch]
  <2>1. bits[ch] \in 0..(Words * WordBits - 1) /\ bits[ch] = Layout[ch]
    BY <1>2 DEF Levels, Right
  <2> QED BY <1>5, <1>9, <1>10, <2>1
<1>11. ASSUME bits.transferring = Layout.transferring, _extract_bit(regs, bits.transferring)
       PROVE  stroke
  <2>1. bits.transferring \in 0..(Words * WordBits - 1)
    BY <1>1, <1>2, <1>11
  <2> QED BY <1>6, <1>9, <1>11, <2>1
<1> QED BY <1>10, <1>11 DEF regs

\* What the serial reader decodes of the words that came.
LEMMA AscoDecoded ==
    ASSUME bits \in Maps, NEW others \in SUBSET Others, NEW n \in 0..Words,
           AscoReads(SubSeq(Registers(others), 1, n))
    PROVE  /\ cycle'.position = "utility" /\ "on_normal" \in Right
                => rail = "utility" /\ ~stroke
           /\ cycle'.position = "generator" /\ "on_emergency" \in Right
                => rail = "generator" /\ ~stroke
           /\ cycle'.position = "transferring" /\ Fits => stroke
           /\ cycle'.calibration => ~(Levels \subseteq Right)
           /\ cycle' \in InputSnapshot
           /\ reads' = <<Contacts>>
<1> DEFINE regs == SubSeq(Registers(others), 1, n)
           levels == [ch \in Levels |-> _extract_bit(regs, bits[ch])]
           transferring == bits.transferring # None
                             /\ _extract_bit(regs, bits.transferring)
<1>1. cycle' = Snapshot(transferring, levels) /\ reads' = <<Contacts>>
  BY DEF AscoReads
<1>2. /\ \A ch \in Levels \cap Right : levels[ch] => Contacts[ch]
      /\ transferring /\ Fits => stroke
  BY BitsShow DEF Fits
<1>3. \A ch \in Levels : levels[ch] \in BOOLEAN
  BY DEF _extract_bit
<1>4. levels["on_normal"] \in BOOLEAN /\ levels["on_emergency"] \in BOOLEAN
  BY <1>3 DEF Levels
<1> HIDE DEF regs, levels, transferring
<1>5. /\ levels["on_normal"] /\ "on_normal" \in Right => rail = "utility" /\ ~stroke
      /\ levels["on_emergency"] /\ "on_emergency" \in Right
           => rail = "generator" /\ ~stroke
  BY <1>2 DEF Contacts, Levels
<1>6. /\ cycle'.position = Decoded(transferring, levels)
      /\ cycle'.calibration = (levels["on_normal"] /\ levels["on_emergency"])
      /\ cycle' \in InputSnapshot
  BY <1>1, <1>4 DEF Snapshot, InputSnapshot, Decoded, Positions, Rails
<1>7. /\ cycle'.position = "utility" => levels["on_normal"]
      /\ cycle'.position = "generator" => levels["on_emergency"]
      /\ cycle'.position = "transferring" => transferring
  BY <1>6 DEF Decoded
<1>8. levels["on_normal"] /\ levels["on_emergency"] => ~(Levels \subseteq Right)
  BY <1>5 DEF Levels
<1> QED BY <1>1, <1>2, <1>5, <1>6, <1>7, <1>8

\* The words that came are the block or the first of it.
LEMMA AscoWords ==
    ASSUME AscoRead \/ AscoReadShort
    PROVE  \E n \in 0..Words, others \in SUBSET Others :
              AscoReads(SubSeq(Registers(others), 1, n))
<1>1. Words \in Nat
  BY ConstantsAssumption DEF ConstantsAssumption
<1>2. ASSUME NEW others \in SUBSET Others
      PROVE  SubSeq(Registers(others), 1, Words) = Registers(others)
  <2>1. /\ Registers(others) \in Seq(SUBSET (0..(WordBits - 1)))
        /\ Len(Registers(others)) = Words
    BY <1>1 DEF Registers
  <2> QED BY <2>1
<1>3. CASE AscoRead
  <2>1. PICK others \in SUBSET Others : AscoReads(Registers(others))
    BY <1>3 DEF AscoRead
  <2>2. AscoReads(SubSeq(Registers(others), 1, Words))
    BY <1>2, <2>1
  <2> QED BY <1>1, <2>2
<1>4. CASE AscoReadShort
  BY <1>1, <1>4 DEF AscoReadShort
<1> QED BY <1>3, <1>4

------------------------------------------------------------------------------
(* Types.                                                                    *)

\* The map that the reader was given was validated.
SensingOK == TypeOK /\ bits \in Maps \cup {None}

LEMMA MapsTyped == Maps \subseteq BitMap
BY ConstantsAssumption DEF Maps, BitMap, ConstantsAssumption

LEMMA SensingInit == Init => SensingOK
<1> SUFFICES ASSUME Init PROVE SensingOK
  OBVIOUS
<1>1. Samples \in Nat \ {0} /\ MaxCount \in Nat
  BY ConstantsAssumption DEF ConstantsAssumption
<1>2. published \in InputSnapshot
  BY DEF Init, Unpublished, InputSnapshot, Positions
<1>3. /\ rail \in Rails /\ stroke \in BOOLEAN /\ pulse \in BOOLEAN
      /\ bits \in Maps \cup {None}
      /\ stable = None /\ seen = None /\ cycle = None /\ client = None
      /\ port \in BOOLEAN /\ connected \in BOOLEAN
      /\ inputFault \in BOOLEAN /\ count = 0
  BY DEF Init
<1>4. candidate \in [Levels -> 0..(Samples - 1)]
  BY <1>1 DEF Init
<1>5. count \in 0..MaxCount
  BY <1>1, <1>3
<1> QED BY <1>2, <1>3, <1>4, <1>5, MapsTyped DEF SensingOK, TypeOK

\* A read of the ADAM.
LEMMA AdamTyped ==
    ASSUME SensingOK, NEW levels \in LevelReads, NEW disconnect, AdamReads(levels, disconnect)
    PROVE  /\ stable' # None => stable' \in [Levels -> BOOLEAN]
           /\ candidate' \in [Levels -> 0..(Samples - 1)]
           /\ seen' # None => seen' \in 0..Hold
           /\ cycle' \in InputSnapshot
           /\ UNCHANGED link
<1>1. Samples \in Nat \ {0} /\ Hold \in Nat
  BY ConstantsAssumption DEF ConstantsAssumption
<1>2. stable' \in LevelReads /\ candidate' \in [Levels -> 0..(Samples - 1)]
  <2>1. CASE stable = None
    BY <1>1, <2>1 DEF AdamReads, update, Seeded
  <2>2. CASE stable # None
    <3> DEFINE pending(ch) == IF levels[ch] = stable[ch] THEN 0 ELSE candidate[ch] + 1
    <3>1. /\ stable' = [ch \in Levels |-> IF pending(ch) >= Samples THEN levels[ch]
                                                                   ELSE stable[ch]]
          /\ candidate' = [ch \in Levels |-> IF pending(ch) >= Samples THEN 0
                                                                      ELSE pending(ch)]
      BY <2>2 DEF AdamReads, update, Debounced
    <3>2. \A ch \in Levels : pending(ch) \in Nat
      BY <1>1 DEF SensingOK, TypeOK
    <3>3. \A ch \in Levels : levels[ch] \in BOOLEAN /\ stable[ch] \in BOOLEAN
      BY <2>2 DEF LevelReads, SensingOK, TypeOK
    <3> HIDE DEF pending
    <3> QED BY <1>1, <3>1, <3>2, <3>3 DEF LevelReads
  <2> QED BY <2>1, <2>2
<1>3. cycle' = Snapshot(_bit_pulse(seen'), stable')
  BY DEF AdamReads
<1>4. cycle' \in InputSnapshot
  <2>1. stable'["on_normal"] \in BOOLEAN /\ stable'["on_emergency"] \in BOOLEAN
    BY <1>2 DEF LevelReads, Levels
  <2> QED BY <1>3, <2>1 DEF Snapshot, Decoded, InputSnapshot, Positions, Rails
<1>5. seen' # None => seen' \in 0..Hold
  BY <1>1 DEF AdamReads, SensingOK, TypeOK
<1> QED BY <1>2, <1>4, <1>5 DEF AdamReads, LevelReads

\* Either driver's read, disturbed or not.
LEMMA ReadTyped ==
    ASSUME SensingOK, ReadInputs \/ ReadInputsDisturbed
    PROVE  SensingOK'
<1>1. UNCHANGED <<switch, bits, published, inputFault, count>>
  BY DEF ReadInputs, ReadInputsDisturbed
<1>2. CASE AdamRead \/ AdamReadNoisy
  <2>1. \E levels \in LevelReads, disconnect \in {pulse, ~pulse} :
           AdamReads(levels, disconnect)
    BY <1>2, ContactLevels DEF AdamRead, AdamReadNoisy
  <2> QED BY <1>1, <2>1, AdamTyped DEF SensingOK, TypeOK, switch, link
<1>3. CASE AscoRead \/ AscoReadShort
  <2>1. bits \in Maps /\ UNCHANGED filter /\ port' = port
        /\ client' \in {None, "open", "closed"} /\ connected' \in BOOLEAN
    BY <1>3 DEF AscoRead, AscoReadShort, AscoReads, _ensure_connected, Reconnected,
               SensingOK, TypeOK, Adam
  <2>2. cycle' \in InputSnapshot
    BY <1>3, <2>1, AscoWords, AscoDecoded
  <2> QED BY <1>1, <2>1, <2>2 DEF SensingOK, TypeOK, switch, filter
<1> QED BY <1>2, <1>3 DEF ReadInputs, ReadInputsDisturbed

LEMMA SensingStep == SensingOK /\ [Next]_vars => SensingOK'
<1> SUFFICES ASSUME SensingOK, [Next]_vars PROVE SensingOK'
  OBVIOUS
<1>0. Samples \in Nat \ {0} /\ Hold \in Nat
  BY ConstantsAssumption DEF ConstantsAssumption
<1>1. CASE StartStroke \/ PulseEnds \/ EndStroke
  <2>1. rail' \in Rails /\ stroke' \in BOOLEAN /\ pulse' \in BOOLEAN
    <3>1. rail \in Rails /\ stroke \in BOOLEAN /\ pulse \in BOOLEAN
      BY DEF SensingOK, TypeOK
    <3> QED BY <1>1, <3>1 DEF StartStroke, PulseEnds, EndStroke, Rails
  <2>2. UNCHANGED <<bits, link, filter, service>>
    BY <1>1 DEF StartStroke, PulseEnds, EndStroke
  <2> QED BY <2>1, <2>2 DEF SensingOK, TypeOK, link, filter, service
<1>2. CASE PortChanges
  BY <1>2 DEF PortChanges, SensingOK, TypeOK, switch, filter, service
<1>3. CASE ReadInputsFails
  <2>1. port' = port /\ client' \in {None, "open", "closed"} /\ connected' \in BOOLEAN
    BY <1>3 DEF ReadInputsFails, AdamReadFails, AscoReadFails, _ensure_connected,
               Reconnected, link, SensingOK, TypeOK
  <2> QED BY <1>3, <2>1 DEF ReadInputsFails, SensingOK, TypeOK, switch, filter
<1>4. CASE Publish
  <2>1. published' \in InputSnapshot
    BY <1>4 DEF Publish, SensingOK, TypeOK
  <2>2. count' \in 0..MaxCount
    <3>1. MaxCount \in Nat /\ count \in 0..MaxCount
      BY ConstantsAssumption DEF ConstantsAssumption, SensingOK, TypeOK
    <3> QED BY <1>4, <3>1 DEF Publish
  <2>3. /\ cycle' = None /\ inputFault' \in BOOLEAN
        /\ UNCHANGED <<switch, bits, link, filter>>
    BY <1>4 DEF Publish
  <2> QED BY <2>1, <2>2, <2>3 DEF SensingOK, TypeOK, switch, link, filter
<1>5. CASE ReadOutputsFails
  BY <1>5 DEF ReadOutputsFails, SensingOK, TypeOK, switch, link, filter
<1>6. CASE Tick
  BY <1>0, <1>6 DEF Tick, SensingOK, TypeOK, switch, link, service
<1>7. CASE Restart
  <2>1. published' \in InputSnapshot
    BY <1>7 DEF Restart, Unpublished, InputSnapshot, Positions
  <2>2. /\ stable' = None /\ seen' = None /\ cycle' = None /\ client' = None
        /\ connected' \in BOOLEAN /\ inputFault' \in BOOLEAN
        /\ UNCHANGED <<switch, bits, port, count>>
    BY <1>7 DEF Restart
  <2>3. candidate' \in [Levels -> 0..(Samples - 1)]
    BY <1>0, <1>7 DEF Restart
  <2> QED BY <2>1, <2>2, <2>3 DEF SensingOK, TypeOK, switch
<1>8. CASE UNCHANGED vars
  BY <1>8 DEF vars, SensingOK, TypeOK, switch, link, filter, service
<1> QED BY <1>1, <1>2, <1>3, <1>4, <1>5, <1>6, <1>7, <1>8, ReadTyped DEF Next

\* Every variable keeps its type, whatever the bit map, the samples and the
\* hold.
THEOREM TypeCorrect == Spec => []TypeOK
<1>1. SensingOK => TypeOK
  BY DEF SensingOK
<1> QED BY <1>1, SensingInit, SensingStep, PTL DEF Spec

------------------------------------------------------------------------------
(* The serial reader.                                                        *)

\* SerialGrounded in the words of the switch's contacts; the read that a cycle
\* holds is the last one.
SerialInv ==
    ~Adam /\ cycle # None =>
        /\ cycle.position = "utility" /\ "on_normal" \in Right =>
              reads[1]["on_normal"] /\ ~reads[1]["on_emergency"]
        /\ cycle.position = "generator" /\ "on_emergency" \in Right =>
              reads[1]["on_emergency"] /\ ~reads[1]["on_normal"]
        /\ cycle.calibration => ~(Levels \subseteq Right)

\* Where the switch has come to rest at the generator.
Arrived == rail = "generator" /\ ~stroke

Counting == {"utility", "transferring"}

\* A count that the next position may add is one that the switch has earned:
\* no position on the way to the generator is left over from before the
\* transfers counted so far.
SerialCountInv ==
    ~Adam /\ Fits =>
        /\ transfers \in Nat /\ count <= transfers
        /\ published.position \in Counting /\ Arrived => count < transfers
        /\ cycle # None =>
              /\ cycle.position = "generator" /\ published.position \in Counting
                   => count < transfers
              /\ cycle.position \in Counting /\ Arrived => count < transfers

\* What a read leaves the serial invariants with.
LEMMA SerialRead ==
    ASSUME SensingOK, ~Adam, ReadInputs \/ ReadInputsDisturbed
    PROVE  /\ cycle'.position = "utility" /\ "on_normal" \in Right
                => rail = "utility" /\ ~stroke
           /\ cycle'.position = "generator" /\ "on_emergency" \in Right => Arrived
           /\ cycle'.position = "transferring" /\ Fits => stroke
           /\ cycle'.calibration => ~(Levels \subseteq Right)
           /\ reads' = <<Contacts>>
           /\ UNCHANGED <<switch, bits, published, count>>
<1>1. AscoRead \/ AscoReadShort
  BY DEF ReadInputs, ReadInputsDisturbed, AdamRead, AdamReadNoisy
<1>2. bits \in Maps
  BY DEF SensingOK, Adam
<1>3. UNCHANGED <<switch, bits, published, count>>
  BY DEF ReadInputs, ReadInputsDisturbed
<1> QED BY <1>1, <1>2, <1>3, AscoWords, AscoDecoded DEF Arrived

\* The map is the configuration's and stays.
LEMMA MapStays ==
    ASSUME [Next]_vars
    PROVE  bits' = bits /\ (Adam' <=> Adam) /\ Right' = Right /\ (Fits' <=> Fits)
<1>1. bits' = bits
  BY DEF Next, StartStroke, PulseEnds, EndStroke, PortChanges, ReadInputs, ReadInputsFails,
         ReadInputsDisturbed, Publish, ReadOutputsFails, Tick, Restart, vars
<1> QED BY <1>1 DEF Adam, Right, Fits

LEMMA SerialStep ==
    ASSUME SensingOK, SerialInv, [Next]_vars
    PROVE  SerialInv'
<1>0. (Adam' <=> Adam) /\ Right' = Right
  BY MapStays
<1>1. CASE ReadInputs \/ ReadInputsDisturbed
  <2>1. CASE Adam
    BY <1>0, <2>1 DEF SerialInv
  <2>2. CASE ~Adam
    <3>1. /\ cycle'.position = "utility" /\ "on_normal" \in Right
               => rail = "utility" /\ ~stroke
          /\ cycle'.position = "generator" /\ "on_emergency" \in Right
               => rail = "generator" /\ ~stroke
          /\ cycle'.calibration => ~(Levels \subseteq Right)
          /\ reads' = <<Contacts>>
      BY <1>1, <2>2, SerialRead DEF Arrived
    <3>2. /\ Contacts["on_normal"] <=> rail = "utility" /\ ~stroke
          /\ Contacts["on_emergency"] <=> rail = "generator" /\ ~stroke
      BY DEF Contacts
    <3>3. reads'[1] = Contacts
      BY <3>1
    <3> QED BY <1>0, <3>1, <3>2, <3>3 DEF SerialInv
  <2> QED BY <2>1, <2>2
<1>2. CASE StartStroke \/ PulseEnds \/ EndStroke \/ PortChanges \/ ReadInputsFails \/ Tick
           \/ UNCHANGED vars
  <2>1. UNCHANGED <<cycle, reads>>
    BY <1>2 DEF StartStroke, PulseEnds, EndStroke, PortChanges, ReadInputsFails, Tick,
               service, history, vars
  <2> QED BY <1>0, <2>1 DEF SerialInv
<1>3. CASE Publish \/ ReadOutputsFails \/ Restart
  BY <1>3 DEF Publish, ReadOutputsFails, Restart, SerialInv
<1> QED BY <1>1, <1>2, <1>3 DEF Next

LEMMA SerialCountStep ==
    ASSUME SensingOK, SerialCountInv, [Next]_vars
    PROVE  SerialCountInv'
<1>0. count \in Nat /\ (Adam' <=> Adam) /\ (Fits' <=> Fits)
  BY MapStays DEF SensingOK, TypeOK
<1> SUFFICES ASSUME ~Adam, Fits PROVE SerialCountInv'
  BY <1>0 DEF SerialCountInv
<1>1. CASE ReadInputs \/ ReadInputsDisturbed
  <2>1. /\ cycle'.position \in Counting => ~Arrived
        /\ cycle'.position = "generator" => Arrived
        /\ UNCHANGED <<switch, bits, published, count>>
    BY <1>1, SerialRead DEF Arrived, Counting, Fits, Levels
  <2> QED BY <1>0, <2>1 DEF SerialCountInv, Arrived, switch
<1>2. CASE EndStroke
  <2>1. /\ UNCHANGED <<published, cycle, count>>
        /\ Arrived' => transfers' = transfers + 1
        /\ transfers' \in {transfers, transfers + 1}
    BY <1>2 DEF EndStroke, Arrived, service
  <2> QED BY <1>0, <2>1 DEF SerialCountInv
<1>3. CASE StartStroke \/ PulseEnds \/ PortChanges \/ ReadInputsFails \/ Tick
           \/ UNCHANGED vars
  <2>1. UNCHANGED <<published, cycle, count, transfers>> /\ (Arrived' => Arrived)
    BY <1>3 DEF StartStroke, PulseEnds, PortChanges, ReadInputsFails, Tick,
               service, switch, vars, Arrived
  <2> QED BY <1>0, <2>1 DEF SerialCountInv
<1>4. CASE Publish
  <2>1. /\ UNCHANGED <<rail, stroke, transfers>> /\ cycle # None /\ cycle' = None
        /\ published' = cycle
        /\ count' = IF published.position \in Counting /\ cycle.position = "generator"
                    THEN count + 1 ELSE count
    BY <1>4 DEF Publish, ToGenerator, Counting, switch
  <2> QED BY <1>0, <2>1 DEF SerialCountInv, Arrived, Counting
<1>5. CASE ReadOutputsFails
  BY <1>0, <1>5 DEF ReadOutputsFails, SerialCountInv, Arrived, switch
<1>6. CASE Restart
  BY <1>0, <1>6 DEF Restart, SerialCountInv, Arrived, switch, Unpublished, Counting
<1> QED BY <1>1, <1>2, <1>3, <1>4, <1>5, <1>6 DEF Next

\* The serial reader names a rail only on registers that show it so, wherever
\* the bits of a validated map lie and however many of the words come, if the
\* map has that contact's bit where the controller has it; and a calibration
\* fault means that the map has the bit of a contact wrong.
THEOREM SerialReadsGrounded == Spec => []SerialGrounded
<1>1. SerialInv => SerialGrounded
  <2>1. (CHOOSE o \in Levels : o # "on_normal") = "on_emergency"
    BY DEF Levels
  <2>2. (CHOOSE o \in Levels : o # "on_emergency") = "on_normal"
    BY DEF Levels
  <2> QED BY <2>1, <2>2 DEF SerialInv, SerialGrounded
<1>2. Init => SerialInv
  BY DEF Init, SerialInv
<1> QED BY <1>1, <1>2, SensingInit, SensingStep, SerialStep, PTL DEF Spec

\* With the serial reader and the controller's own map nothing needs excusing:
\* no transfer is counted that did not happen, through outages, short reads,
\* failed cycles and restarts.
THEOREM SerialCountsTrue == Spec => [](~Adam /\ Fits => count <= transfers)
<1>1. SerialCountInv => (~Adam /\ Fits => count <= transfers)
  BY DEF SerialCountInv
<1>2. Init => SerialCountInv
  BY DEF Init, SerialCountInv, Unpublished, Counting
<1> QED BY <1>1, <1>2, SensingInit, SensingStep, SerialCountStep, PTL DEF Spec
=============================================================================
