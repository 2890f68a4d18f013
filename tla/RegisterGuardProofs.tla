------------------------- MODULE RegisterGuardProofs -------------------------
(* Theorems about RegisterGuard, for any values and any length of a write.   *)
EXTENDS RegisterGuard, SequenceLemmas, TLAPS

------------------------------------------------------------------------------
(* Serving a write.                                                          *)

\* A write that is validated, and is no mask write, has all of its registers
\* in the command band, each in a mode that allows it, so write_register drops
\* no value of it.
LEMMA ValidatedWhole ==
    ASSUME NEW w, Len(w.values) \in Nat, w.start \in Nat,
           validate(w), w.fc # MaskWrite
    PROVE  Intents(w) = Whole(w)
<1>1. ASSUME NEW i \in 1..Len(w.values)
      PROVE  LET a == w.start + i - 1
             IN  a \in Commands /\ mode \in AllowedModes(a)
  BY DEF validate, Refusals, Covered
<1>2. [i \in 1..Len(w.values) |->
          LET a == w.start + i - 1
          IN  IF a \in Commands /\ mode \in AllowedModes(a)
              THEN Intent(a, w.values[i]) ELSE <<>>]
      = [i \in 1..Len(w.values) |-> Intent(w.start + i - 1, w.values[i])]
  BY <1>1
<1> QED BY <1>2 DEF Intents, Whole

\* Of the one value of a mask write, write_register drops all or nothing.
LEMMA MaskedWhole ==
    ASSUME NEW w, Len(w.values) = 1, w.start \in Nat
    PROVE  Intents(w) \in {<<>>, Whole(w)}
<1> DEFINE Kept(i) == LET a == w.start + i - 1
                      IN  a \in Commands /\ mode \in AllowedModes(a)
           One(i) == Intent(w.start + i - 1, w.values[i])
           kept == [i \in 1..1 |-> IF Kept(i) THEN One(i) ELSE <<>>]
<1>1. Intents(w) = FlattenSeq(kept) /\ Whole(w) = FlattenSeq([i \in 1..1 |-> One(i)])
  BY DEF Intents, Whole
<1>2. CASE Kept(1)
  <2>1. kept = [i \in 1..1 |-> One(i)]
    <3> HIDE DEF Kept, One
    <3> QED BY <1>2
  <2> QED BY <1>1, <2>1
<1>3. CASE ~Kept(1)
  <2>1. kept = [i \in 1..1 |-> <<>>]
    <3> HIDE DEF Kept, One
    <3> QED BY <1>3
  <2>2. kept \in [1..1 -> Seq({})] /\ \A i \in 1..1 : Len(kept[i]) <= 1
    <3>1. <<>> \in Seq({}) /\ Len(<<>>) = 0
      OBVIOUS
    <3> HIDE DEF kept
    <3> QED BY <2>1, <3>1
  <2> HIDE DEF kept
  <2>3. FlattenSeq(kept) \in Seq({})
    BY <2>2, FlattenLength
  <2>4. FlattenSeq(kept) = <<>>
    BY <2>3, SeqElements
  <2> QED BY <1>1, <2>4
<1> QED BY <1>2, <1>3

\* The write a request serves.
LEMMA WriteOfRequest ==
    ASSUME NEW fc, Request(fc)
    PROVE  \E w : /\ Serve(w)
                  /\ Len(w.values) \in 1..MaxCount /\ w.start \in Nat
                  /\ w.fc = MaskWrite => Len(w.values) = 1
<1>0. PICK a \in Addresses, n \in (IF fc = WriteMultiple THEN 1..MaxCount ELSE {1}) :
         \E vs \in [1..n -> Values] :
            Serve([fc |-> fc, start |-> a, values |-> vs])
  BY DEF Request
<1>1. PICK vs \in [1..n -> Values] :
         Serve([fc |-> fc, start |-> a, values |-> vs])
  BY <1>0
<1> DEFINE w == [fc |-> fc, start |-> a, values |-> vs]
<1>2. n \in 1..MaxCount
  BY ConstantsAssumption DEF ConstantsAssumption
<1>3. vs \in Seq(Values) /\ Len(vs) = n
  BY <1>2
<1>4. w.start \in Nat
  BY DEF Addresses, Test, BypassDelay
<1>5. w.values = vs /\ w.fc = fc
  OBVIOUS
<1>6. fc = MaskWrite => n = 1
  BY DEF MaskWrite, WriteMultiple
<1> QED BY <1>1, <1>2, <1>3, <1>4, <1>5, <1>6

------------------------------------------------------------------------------
\* The fault bits are those of the three sources, and say of each what its
\* history says; the reject latch is the history of refusals.
FaultInv ==
    /\ faults \subseteq {"input", "output", "calibration"}
    /\ cycleFailed \in BOOLEAN /\ ("input" \in faults <=> cycleFailed)
    /\ outputBad \in BOOLEAN /\ ("output" \in faults <=> outputBad)
    /\ rejected \in BOOLEAN /\ refusedLast \in BOOLEAN
    /\ rejected <=> refusedLast

LEMMA FaultInit == Init => FaultInv
<1> SUFFICES ASSUME Init PROVE FaultInv
  OBVIOUS
<1>1. /\ faults \subseteq {"input", "output", "calibration"}
      /\ "input" \notin faults /\ cycleFailed = FALSE
      /\ rejected = FALSE /\ refusedLast = FALSE
  BY DEF Init
<1>2. outputBad = ("output" \in faults)
  BY DEF Init
<1>3. outputBad \in BOOLEAN /\ ("output" \in faults <=> outputBad)
  <2>1. CASE "output" \in faults
    <3>1. outputBad = TRUE
      BY <1>2, <2>1, Zenon
    <3> QED BY <2>1, <3>1
  <2>2. CASE "output" \notin faults
    <3>1. ~outputBad
      BY <1>2, <2>2
    <3>2. ("output" \in faults) \in BOOLEAN
      OBVIOUS
    <3> QED BY <1>2, <2>2, <3>1, <3>2
  <2> QED BY <2>1, <2>2
<1> QED BY <1>1, <1>3 DEF FaultInv

LEMMA FaultServed ==
    ASSUME FaultInv, NEW w, Serve(w)
    PROVE  FaultInv'
<1>1. UNCHANGED <<faults, cycleFailed, outputBad>>
  BY DEF Serve
<1>2. rejected' = refusedLast' /\ rejected' \in BOOLEAN
  BY DEF FaultInv, Serve, Acknowledged, Excepted, Latches, Dropped
<1> QED BY <1>1, <1>2 DEF FaultInv

LEMMA FaultStep == FaultInv /\ [Next]_vars => FaultInv'
<1> SUFFICES ASSUME FaultInv, [Next]_vars PROVE FaultInv'
  OBVIOUS
<1>1. ASSUME NEW fc, Request(fc) PROVE FaultInv'
  BY <1>1, WriteOfRequest, FaultServed
<1>2. CASE DispatchDone
  BY <1>2 DEF DispatchDone, FaultInv
<1>3. CASE DispatchFails
  BY <1>3 DEF DispatchFails, FaultInv
<1>4. ASSUME NEW driver \in SUBSET {"calibration"}, NEW wrong \in BOOLEAN,
             SampleDone(driver, wrong)
      PROVE  FaultInv'
  BY <1>4 DEF SampleDone, Merged, FaultInv
<1>5. CASE SampleFails
  BY <1>5 DEF SampleFails, FaultInv
<1>6. CASE UNCHANGED vars
  BY <1>6 DEF vars, FaultInv
<1> QED BY <1>1, <1>2, <1>3, <1>4, <1>5, <1>6 DEF Next

\* fault_summary is what happened, whoever wrote the snapshot last.
THEOREM FaultSummaryTrue == Spec => []FaultSummaryHonest
<1>1. FaultInv => FaultSummaryHonest
  BY DEF FaultInv, FaultSummaryHonest, fault_summary
<1> QED BY <1>1, FaultInit, FaultStep, PTL DEF Spec

------------------------------------------------------------------------------
LEMMA WholeInit == Init => AllOrNothing
<1> SUFFICES ASSUME Init PROVE AllOrNothing
  OBVIOUS
<1>1. reply.acked /\ reply.intents = <<>> /\ write.values = <<>>
  BY DEF Init, NoReply, NoWrite
<1>2. [i \in 1..Len(write.values) |-> Intent(write.start + i - 1, write.values[i])]
      = <<>>
  BY <1>1
<1>3. FlattenSeq(<<>>) = <<>>
  BY DEF FlattenSeq
<1> QED BY <1>1, <1>2, <1>3 DEF AllOrNothing, Whole

LEMMA WholeStep == AllOrNothing /\ [Next]_vars => AllOrNothing'
<1> SUFFICES ASSUME AllOrNothing, [Next]_vars PROVE AllOrNothing'
  OBVIOUS
<1>1. ASSUME NEW fc, Request(fc) PROVE AllOrNothing'
  <2>1. PICK w : /\ Serve(w) /\ Len(w.values) \in Nat /\ w.start \in Nat
                 /\ w.fc = MaskWrite => Len(w.values) = 1
    BY <1>1, WriteOfRequest, ConstantsAssumption DEF ConstantsAssumption
  <2>2. write' = w
    BY <2>1 DEF Serve
  <2>3. CASE Acknowledged(w)
    <3>1. /\ reply'.acked = TRUE /\ reply'.intents = Intents(w)
          /\ validate(w) /\ Whole(write)' = Whole(w)
      BY <2>2, <2>3 DEF Acknowledged, Whole
    <3>2. CASE w.fc = MaskWrite
      BY <2>1, <2>2, <3>1, <3>2, MaskedWhole DEF AllOrNothing
    <3>3. CASE w.fc # MaskWrite
      BY <2>1, <2>2, <3>1, <3>3, ValidatedWhole DEF AllOrNothing
    <3> QED BY <3>2, <3>3
  <2>4. CASE Excepted(w)
    BY <2>4 DEF Excepted, AllOrNothing
  <2> QED BY <2>1, <2>3, <2>4 DEF Serve
<1>2. CASE UNCHANGED <<write, reply>>
  BY <1>2 DEF AllOrNothing, Whole
<1> QED
  BY <1>1, <1>2 DEF Next, DispatchDone, DispatchFails, SampleDone, SampleFails, vars

\* A write of any length takes effect whole or not at all, and, the mask write
\* apart, its answer says which.
THEOREM WholeWrites == Spec => []AllOrNothing
BY WholeInit, WholeStep, PTL DEF Spec
------------------------------------------------------------------------------
\* The intents of a write number no more than its values.
LEMMA IntentsFew ==
    ASSUME NEW w, Len(w.values) \in Nat
    PROVE  Len(Intents(w)) \in Nat /\ Len(Intents(w)) <= Len(w.values)
<1> DEFINE n == Len(w.values)
           One(i) == LET a == w.start + i - 1
                     IN  IF a \in Commands /\ mode \in AllowedModes(a)
                         THEN Intent(a, w.values[i]) ELSE <<>>
           seqs == [i \in 1..n |-> One(i)]
           S == [addr : {w.start + i - 1 : i \in 1..n}, on : BOOLEAN]
<1>1. ASSUME NEW i \in 1..n PROVE One(i) \in Seq(S) /\ Len(One(i)) <= 1
  <2>1. CASE One(i) = <<>>
    <3> HIDE DEF S, One
    <3> QED BY <2>1
  <2>2. ASSUME NEW b \in BOOLEAN,
               One(i) = <<[addr |-> w.start + i - 1, on |-> b]>>
        PROVE  One(i) \in Seq(S) /\ Len(One(i)) <= 1
    <3>1. [addr |-> w.start + i - 1, on |-> b] \in S
      OBVIOUS
    <3> HIDE DEF S, One
    <3> QED BY <2>2, <3>1
  <2> QED BY <2>1, <2>2 DEF Intent
<1>2. seqs \in [1..n -> Seq(S)] /\ \A i \in 1..n : Len(seqs[i]) <= 1
  <2> HIDE DEF S, One
  <2> QED BY <1>1
<1>3. FlattenSeq(seqs) \in Seq(S) /\ Len(FlattenSeq(seqs)) <= n
  <2> HIDE DEF S, seqs
  <2> QED BY <1>2, FlattenLength
<1>4. Intents(w) = FlattenSeq(seqs)
  BY DEF Intents
<1> QED
  <2> HIDE DEF S, seqs
  <2> QED BY <1>3, <1>4

LEMMA TypeInit == Init => TypeOK
<1> SUFFICES ASSUME Init PROVE TypeOK
  OBVIOUS
<1>1. outputBad \in BOOLEAN
  BY FaultInit DEF FaultInv
<1>2. 0 \in 0..(MaxDispatches + MaxCount)
  BY ConstantsAssumption DEF ConstantsAssumption
<1>3. reply.acked \in BOOLEAN
  BY DEF Init, NoReply
<1>4. faults \subseteq {"input", "output", "calibration"}
  BY DEF Init
<1> QED BY <1>1, <1>2, <1>3, <1>4 DEF Init, TypeOK

LEMMA TypeStep == TypeOK /\ FaultInv' /\ [Next]_vars => TypeOK'
<1> SUFFICES ASSUME TypeOK, FaultInv', [Next]_vars PROVE TypeOK'
  OBVIOUS
<1> USE DEF TypeOK
<1>0. /\ faults' \subseteq {"input", "output", "calibration"}
      /\ rejected' \in BOOLEAN /\ refusedLast' \in BOOLEAN
      /\ cycleFailed' \in BOOLEAN /\ outputBad' \in BOOLEAN
  BY DEF FaultInv
<1>1. ASSUME NEW fc, Request(fc) PROVE TypeOK'
  <2>1. PICK w : /\ Serve(w)
                 /\ Len(w.values) \in 1..MaxCount /\ w.start \in Nat
    BY <1>1, WriteOfRequest
  <2>2. /\ Len(Intents(w)) \in Nat /\ Len(Intents(w)) <= MaxCount
    BY <2>1, IntentsFew, ConstantsAssumption DEF ConstantsAssumption
  <2>3. dispatches' \in 0..(MaxDispatches + MaxCount) /\ reply'.acked \in BOOLEAN
    <3>1. CASE Acknowledged(w)
      <4>1. /\ dispatches' = dispatches + Len(Intents(w))
            /\ reply'.acked = TRUE /\ dispatches < MaxDispatches
        BY <2>1, <3>1 DEF Acknowledged, Serve
      <4>2. dispatches + Len(Intents(w)) \in 0..(MaxDispatches + MaxCount)
        <5> DEFINE k == Len(Intents(w))
        <5>1. k \in Nat /\ k <= MaxCount
          BY <2>2
        <5> HIDE DEF k
        <5>2. dispatches + k \in 0..(MaxDispatches + MaxCount)
          BY <4>1, <5>1, ConstantsAssumption DEF ConstantsAssumption
        <5> QED BY <5>2 DEF k
      <4> QED BY <4>1, <4>2
    <3>2. CASE Excepted(w)
      BY <3>2 DEF Excepted
    <3> QED BY <2>1, <3>1, <3>2 DEF Serve
  <2> QED BY <1>0, <2>1, <2>3 DEF Serve
<1>2. CASE DispatchDone \/ DispatchFails
  <2>1. dispatches > 0 /\ dispatches' = dispatches - 1
    BY <1>2 DEF DispatchDone, DispatchFails
  <2>2. dispatches' \in 0..(MaxDispatches + MaxCount)
    BY <2>1, ConstantsAssumption DEF ConstantsAssumption
  <2> QED BY <1>0, <1>2, <2>2 DEF DispatchDone, DispatchFails
<1>3. ASSUME NEW driver, NEW wrong, SampleDone(driver, wrong) PROVE TypeOK'
  BY <1>0, <1>3 DEF SampleDone
<1>4. CASE SampleFails \/ UNCHANGED vars
  BY <1>0, <1>4 DEF SampleFails, vars
<1> QED BY <1>1, <1>2, <1>3, <1>4 DEF Next

\* The state is well typed; in particular a write starts no more dispatches
\* than it has values.
THEOREM TypeCorrect == Spec => []TypeOK
BY FaultInit, FaultStep, TypeInit, TypeStep, PTL DEF Spec
=============================================================================
