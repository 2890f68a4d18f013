----------------------------- MODULE BenchProofs -----------------------------
(* Theorems about Bench, for any inputs and relays.                          *)
EXTENDS Bench, FiniteSetTheorems, TLAPS

\* The maintained relays that this run has turned on and that still are.
Held == {r \in Maintained \cap asserted : relay[r]}

\* NothingHeldAtPrompt is not inductive: it must be known whose check holds a
\* relay, so that this check's own release is the one it needs.
HoldInv ==
    /\ relay \in [Relays -> BOOLEAN]
    /\ \A r \in Held :
          /\ step \in {"hold", "unhold", "cleanup", "exited"}
          /\ step \in {"hold", "unhold"} => Current = r
          /\ \A q \in Held : q = r

\* The two kinds of relays are apart.
LEMMA KindsApart == Pulsed \cap Maintained = {} /\ Maintained \subseteq Relays
BY ConstantsAssumption DEF ConstantsAssumption, Relays

\* The release on the way out and the exit are all that a cleanup starts.
LEMMA CleanupStarts ==
    ASSUME NEW outcomes, NEW exception, Cleanup(outcomes, exception)
    PROVE  step' \in {"cleanup", "exited"}
BY DEF Cleanup, Leaves, Exit

\* An exception leads to the relay's own release or to that on the way out.
LEMMA RaiseLeads ==
    ASSUME Raise
    PROVE  \/ step' \in {"cleanup", "exited"}
           \/ /\ step' = "unhold" /\ todo' = todo
              /\ step \in {"drive", "hold"} /\ Current \in Maintained
BY CleanupStarts DEF Raise

\* A step that holds nothing new keeps the invariant when it leads out, stays
\* where it is, or nothing was held.
LEMMA NothingNew ==
    ASSUME HoldInv, relay' \in [Relays -> BOOLEAN], Held' \subseteq Held,
           \/ step' \in {"cleanup", "exited"}
           \/ step' = step /\ todo' = todo
           \/ Held = {}
    PROVE  HoldInv'
BY DEF HoldInv, Current

LEMMA SameRelays ==
    ASSUME HoldInv, relay' = relay, asserted' = asserted
    PROVE  relay' \in [Relays -> BOOLEAN] /\ Held' = Held
BY DEF HoldInv, Held

\* A write that is not an assert turns its relay off and no other on.
LEMMA ReleaseWrites ==
    ASSUME HoldInv, step # "drive", relay' \in {relay, Written},
           asserted' = asserted
    PROVE  relay' \in [Relays -> BOOLEAN] /\ Held' \subseteq Held
BY KindsApart DEF HoldInv, Held, Written

\* While a relay is driven nothing is held; what is then on is that relay.
LEMMA DriveWrites ==
    ASSUME HoldInv, step = "drive", relay' \in {relay, Written},
           asserted' = asserted \cup {Current}
    PROVE  relay' \in [Relays -> BOOLEAN] /\ Held' \subseteq {Current}
BY KindsApart DEF HoldInv, Held, Written

LEMMA HoldInit == Init => HoldInv
BY DEF Init, HoldInv, Held, Relays

LEMMA HoldStep == HoldInv /\ [Next]_vars => HoldInv'
<1> SUFFICES ASSUME HoldInv, [Next]_vars PROVE HoldInv'
  OBVIOUS
<1> DEFINE Idle == step \notin {"hold", "unhold", "cleanup", "exited"}
<1>0. Idle => Held = {}
  BY DEF HoldInv
<1>1. ASSUME Idle, relay' = relay, asserted' = asserted PROVE HoldInv'
  BY <1>0, <1>1, SameRelays, NothingNew
<1>2. CASE Connect \/ ReadBaseline \/ Reread \/ SettleOver
  <2>1. relay' = relay /\ asserted' = asserted
    BY <1>2 DEF Connect, ReadBaseline, Reread, SettleOver, history
  <2>2. step \in {"connect", "baseline", "reread", "settle"}
    BY <1>2 DEF Connect, ReadBaseline, Reread, SettleOver
  <2> QED BY <1>1, <2>1, <2>2
<1>3. CASE Answer
  <2>1. relay' = relay /\ asserted' = asserted
    BY <1>3 DEF Answer
  <2>2. step \in Prompts
    BY <1>3 DEF Answer, AnswerActuate, AnswerTransient, AnswerReady,
                AnswerConfirm, Prompts
  <2> QED BY <1>1, <2>1, <2>2 DEF Prompts
<1>4. CASE Drive
  <2>1. step = "drive" /\ relay' = Written /\ asserted' = asserted \cup {Current}
    BY <1>4 DEF Drive
  <2>2. relay' \in [Relays -> BOOLEAN] /\ Held' \subseteq {Current}
    BY <2>1, DriveWrites
  <2>3. Held' \subseteq Maintained
    BY DEF Held
  <2>4. todo' = todo /\ (Current \notin Pulsed => step' = "hold")
    BY <1>4 DEF Drive
  <2> QED BY <2>2, <2>3, <2>4, KindsApart DEF HoldInv, Current
<1>5. CASE HoldOver
  <2>1. /\ relay' = relay /\ asserted' = asserted /\ todo' = todo
        /\ step = "hold" /\ step' = "unhold"
    BY <1>5 DEF HoldOver, GoOn, history
  <2> QED BY <2>1, SameRelays DEF HoldInv, Current
<1>6. CASE Unhold
  <2>1. step = "unhold" /\ relay' = Written /\ asserted' = asserted
    BY <1>6 DEF Unhold, history
  <2>2. relay' \in [Relays -> BOOLEAN] /\ Held' \subseteq Held
    BY <2>1, ReleaseWrites
  <2>3. Held' = {}
    <3> SUFFICES ASSUME NEW q \in Held' PROVE FALSE
      OBVIOUS
    <3>1. q \in Relays /\ Current = q
      BY <2>1, <2>2, KindsApart DEF HoldInv, Held
    <3>2. relay'[q] = FALSE
      BY <2>1, <3>1 DEF HoldInv, Written
    <3> QED BY <3>2 DEF Held
  <2> QED BY <2>2, <2>3 DEF HoldInv
<1>7. CASE ReleaseNext
  <2>1. step = "cleanup" /\ relay' = Written /\ asserted' = asserted
    BY <1>7 DEF ReleaseNext, history
  <2>2. step' \in {"cleanup", "exited"}
    BY <1>7, <2>1 DEF ReleaseNext, Leaves, Exit
  <2> QED BY <2>1, <2>2, ReleaseWrites, NothingNew
<1>8. ASSUME step \in Awaits, MayHaveWritten,
             step' \in {"cleanup", "exited"} \/ Raise
      PROVE  HoldInv'
  <2>1. relay' \in {relay, Written}
    BY <1>8 DEF MayHaveWritten
  <2>2. CASE step = "drive"
    <3>1. asserted' = asserted \cup {Current}
      BY <1>8, <2>2 DEF MayHaveWritten, Writes
    <3>2. relay' \in [Relays -> BOOLEAN] /\ Held' \subseteq {Current}
      BY <2>1, <2>2, <3>1, DriveWrites
    <3>3. step' \in {"cleanup", "exited"} \/ (step' = "unhold" /\ todo' = todo)
      BY <1>8, RaiseLeads
    <3> QED BY <3>2, <3>3 DEF HoldInv, Current
  <2>3. CASE step # "drive"
    <3>1. asserted' = asserted
      BY <1>8, <2>3 DEF MayHaveWritten
    <3>2. relay' \in [Relays -> BOOLEAN] /\ Held' \subseteq Held
      BY <2>1, <2>3, <3>1, ReleaseWrites
    <3>3. \/ step' \in {"cleanup", "exited"}
          \/ step = "hold" /\ step' = "unhold" /\ todo' = todo
      BY <1>8, <2>3, RaiseLeads
    <3> QED BY <3>2, <3>3, NothingNew DEF HoldInv, Current
  <2> QED BY <2>2, <2>3
<1>9. CASE Fails
  <2>1. step \in Awaits /\ MayHaveWritten
    BY <1>9 DEF Fails, Awaits
  <2>2. step' \in {"cleanup", "exited"} \/ Raise
    BY <1>9 DEF Fails, Leaves, Exit
  <2> QED BY <1>8, <2>1, <2>2
<1>10. CASE Cancelled
  <2>1. step \in Awaits /\ MayHaveWritten
    BY <1>10 DEF Cancelled
  <2>2. step' \in {"cleanup", "exited"} \/ Raise
    BY <1>10 DEF Cancelled, Exit
  <2> QED BY <1>8, <2>1, <2>2
<1>11. ASSUME NEW r \in Pulsed, PulseReleased(r) PROVE HoldInv'
  <2>1. /\ relay' = [relay EXCEPT ![r] = FALSE] /\ asserted' = asserted
        /\ step' = step /\ todo' = todo
    BY <1>11 DEF PulseReleased, history, task
  <2>2. relay' \in [Relays -> BOOLEAN] /\ Held' \subseteq Held
    BY <2>1, KindsApart DEF HoldInv, Held
  <2> QED BY <2>1, <2>2, NothingNew
<1>12. CASE Interrupt
  <2>1. relay' = relay /\ asserted' = asserted
    BY <1>12 DEF Interrupt
  <2>2. step' \in {"cleanup", "exited"} \/ (step' = step /\ todo' = todo)
    BY <1>12, CleanupStarts DEF Interrupt
  <2> QED BY <2>1, <2>2, SameRelays, NothingNew
<1>13. CASE Killed
  <2>1. relay' = relay /\ asserted' = asserted /\ step' = "exited"
    BY <1>13 DEF Killed, Exit
  <2> QED BY <2>1, SameRelays, NothingNew
<1>14. CASE Actuate \/ InputEnds \/ UNCHANGED vars
  <2>1. /\ relay' = relay /\ asserted' = asserted
        /\ step' = step /\ todo' = todo
    BY <1>14 DEF Actuate, InputEnds, vars, task, history
  <2> QED BY <2>1, SameRelays, NothingNew
<1> QED BY <1>2, <1>3, <1>4, <1>5, <1>6, <1>7, <1>9, <1>10, <1>11, <1>12,
           <1>13, <1>14 DEF Next, _run

\* At a prompt the tool holds no maintained relay, and never two at once:
\* bench.py's try/finally around the hold is enough, whatever fails.
THEOREM NeverHeldAtPrompt == Spec => []NothingHeldAtPrompt
<1>1. HoldInv => NothingHeldAtPrompt
  BY DEF HoldInv, Held, NothingHeldAtPrompt, Prompts
<1> QED BY <1>1, HoldInit, HoldStep, PTL DEF Spec

------------------------------------------------------------------------------
(* The checks to go, and the relays to release.                              *)

Has(q, x) == \E i \in 1..Len(q) : q[i] = x

\* What follows the first of a sequence.
LEMMA TailHas ==
    ASSUME NEW S, NEW q \in Seq(S), q # <<>>
    PROVE  /\ Head(q) \in S /\ Head(q) = q[1] /\ Tail(q) \in Seq(S)
           /\ Len(q) # 1 => Tail(q) # <<>> /\ Head(Tail(q)) = q[2] /\ q[2] \in S
           /\ \A x : Has(q, x) => x = Head(q) \/ (Len(q) # 1 /\ Has(Tail(q), x))
           /\ Len(q) \in Nat /\ Len(q) # 0
<1>1. Len(q) \in Nat /\ Len(q) # 0 /\ Len(Tail(q)) = Len(q) - 1
      /\ \A i \in 1..Len(q) : q[i] \in S
  OBVIOUS
<1>2. \A i \in 1..(Len(q) - 1) : Tail(q)[i] = q[i + 1]
  OBVIOUS
<1>3. ASSUME NEW x, Has(q, x), x # q[1] PROVE Len(q) # 1 /\ Has(Tail(q), x)
  <2>1. PICK i \in 1..Len(q) : q[i] = x
    BY <1>3 DEF Has
  <2>2. i - 1 \in 1..(Len(q) - 1)
    BY <1>1, <1>3, <2>1
  <2>3. Tail(q)[i - 1] = x
    BY <1>2, <2>1, <2>2
  <2> QED BY <1>1, <2>2, <2>3 DEF Has
<1>4. Head(q) = q[1] /\ Tail(q) \in Seq(S)
  OBVIOUS
<1>5. Len(q) # 1 => Tail(q) # <<>> /\ Head(Tail(q)) = q[2] /\ q[2] \in S
  <2>1. ASSUME Len(q) # 1 PROVE Tail(q) # <<>> /\ Head(Tail(q)) = Tail(q)[1]
    <3> DEFINE t == Tail(q)
    <3>1. t \in Seq(S) /\ Len(t) # 0
      BY <1>1, <1>4, <2>1
    <3> HIDE DEF t
    <3>2. t # <<>> /\ Head(t) = t[1]
      BY <3>1
    <3> QED BY <3>2 DEF t
  <2>2. Len(q) # 1 => 1 \in 1..(Len(q) - 1) /\ 2 \in 1..Len(q)
    BY <1>1
  <2> QED BY <1>1, <1>2, <2>1, <2>2
<1> QED BY <1>1, <1>3, <1>4, <1>5

LEMMA ConcatHas ==
    ASSUME NEW S, NEW q \in Seq(S), NEW r \in Seq(S)
    PROVE  /\ q \o r \in Seq(S)
           /\ \A x : Has(q, x) \/ Has(r, x) => Has(q \o r, x)
<1>1. /\ q \o r \in Seq(S) /\ Len(q) \in Nat /\ Len(r) \in Nat
      /\ Len(q \o r) = Len(q) + Len(r)
      /\ \A i \in 1..Len(q) : (q \o r)[i] = q[i]
      /\ \A i \in 1..Len(r) : (q \o r)[Len(q) + i] = r[i]
  OBVIOUS
<1>2. ASSUME NEW x, Has(q, x) PROVE Has(q \o r, x)
  BY <1>1, <1>2 DEF Has
<1>3. ASSUME NEW x, Has(r, x) PROVE Has(q \o r, x)
  <2>1. PICK i \in 1..Len(r) : r[i] = x
    BY <1>3 DEF Has
  <2>2. Len(q) + i \in 1..Len(q \o r)
    BY <1>1
  <2> QED BY <1>1, <2>1, <2>2 DEF Has
<1> QED BY <1>1, <1>2, <1>3

\* release_all_outputs leaves out no relay.
LEMMA RelayOrderHas ==
    /\ RelayOrder \in Seq(Relays)
    /\ \A r \in Relays : Has(RelayOrder, r)
    /\ Relays # {} => RelayOrder # <<>>
<1>1. ASSUME NEW r PROVE IfWired(r) \in Seq(Relays) /\ (r \in Relays => Has(IfWired(r), r))
  <2>1. CASE r \in Relays
    <3>1. <<r>> \in Seq(Relays) /\ Len(<<r>>) = 1 /\ <<r>>[1] = r
      BY <2>1
    <3> QED BY <2>1, <3>1 DEF IfWired, Has
  <2>2. CASE r \notin Relays
    BY <2>2 DEF IfWired
  <2> QED BY <2>1, <2>2
<1> DEFINE a == IfWired("test") \o IfWired("force_transfer")
           b == a \o IfWired("inhibit")
<1>2. /\ a \in Seq(Relays)
      /\ \A r \in Relays : r \in {"test", "force_transfer"} => Has(a, r)
  BY <1>1, ConcatHas
<1>3. /\ b \in Seq(Relays)
      /\ \A r \in Relays : r \in {"test", "force_transfer", "inhibit"} => Has(b, r)
  <2> HIDE DEF a
  <2> QED BY <1>1, <1>2, ConcatHas
<1>4. /\ RelayOrder \in Seq(Relays)
      /\ \A r \in Relays : r \in {"test", "force_transfer", "inhibit", "bypass_delay"}
                           => Has(RelayOrder, r)
  <2>1. RelayOrder = b \o IfWired("bypass_delay")
    BY DEF RelayOrder
  <2> HIDE DEF b
  <2> QED BY <1>1, <1>3, <2>1, ConcatHas
<1>5. Relays \subseteq {"test", "force_transfer", "inhibit", "bypass_delay"}
  BY ConstantsAssumption DEF ConstantsAssumption, Relays
<1>6. Relays # {} => RelayOrder # <<>>
  <2>1. \A x : ~Has(<<>>, x)
    BY DEF Has
  <2> QED BY <1>4, <1>5, <2>1
<1> QED BY <1>4, <1>5, <1>6

\* Every input is checked.
LEMMA InputsListed ==
    SetToSeq(Inputs) \in Seq(Inputs) /\ \A s \in Inputs : Has(SetToSeq(Inputs), s)
<1> DEFINE n == Cardinality(Inputs)
           D == 1..n
<1>1. IsFiniteSet(Inputs) /\ n \in Nat /\ ExistsBijection(D, Inputs)
  BY ConstantsAssumption, FS_CardinalityType DEF ConstantsAssumption
<1>2. \E f \in [D -> Inputs] : IsInjective(f)
  BY <1>1 DEF ExistsBijection, Bijection, Injection
<1> DEFINE f == SetToSeq(Inputs)
<1>3. f \in [D -> Inputs] /\ IsInjective(f)
  BY <1>2 DEF SetToSeq
<1>4. IsFiniteSet(D) /\ Cardinality(D) = n
  BY <1>1, FS_Interval
<1> HIDE DEF f
<1>5. f \in Injection(D, Inputs)
  BY <1>3 DEF Injection
<1>6. f \in Surjection(D, Inputs)
  <2> HIDE DEF D
  <2> QED BY <1>1, <1>4, <1>5, FS_Injection
<1>7. \A s \in Inputs : \E i \in D : f[i] = s
  <2> HIDE DEF D
  <2> QED BY <1>6 DEF Surjection
<1>8. f \in Seq(Inputs) /\ Len(f) = n
  <2> HIDE DEF n
  <2> QED BY <1>1, <1>3
<1> QED BY <1>7, <1>8 DEF Has, f

------------------------------------------------------------------------------
(* Types.                                                                    *)

Outcomes == {"pass", "fail", "skip"}

\* A check of an input, or of a relay, is under way where it can be.
FlowInv ==
    /\ step \in {"baseline", "actuate", "reread", "transient"} => Current \in Inputs
    /\ step \in {"ready", "drive", "hold", "settle", "unhold", "confirm"}
         => Current \in Relays

\* What the ways on of the main task write.
TaskOK ==
    /\ step \in Steps
    /\ todo \in Seq(Inputs \cup Relays)
    /\ step \in Steps \ {"connect", "exited"} => todo # <<>>
    /\ results \subseteq Outcomes
    /\ raised \in BOOLEAN
    /\ timers \subseteq Pulsed
    /\ code \in 0..3 \cup {None}
    /\ FlowInv

\* Everything else.
WorldOK ==
    /\ relay \in [Relays -> BOOLEAN]
    /\ wired \in [Inputs -> Inputs \cup {None}]
    /\ closed \subseteq Inputs /\ baseline \subseteq Inputs
    /\ interrupts \in 0..MaxInterrupts
    /\ asserted \subseteq Relays
    /\ {eof, skip_dis, skip_dos, cancel, transient, failed, cut, late, killed}
          \subseteq BOOLEAN

LEMMA TypeParts == TypeOK /\ FlowInv <=> TaskOK /\ WorldOK
BY DEF TypeOK, TaskOK, WorldOK, Outcomes

LEMMA KindsOfChecks == Inputs \cap Relays = {}
BY ConstantsAssumption DEF ConstantsAssumption, Relays

LEMMA StepsListed ==
    Steps = {"actuate", "transient", "ready", "confirm", "connect", "baseline", "reread",
             "drive", "unhold", "cleanup", "hold", "settle", "exited"}
BY DEF Steps, Prompts, Awaits, Reads, Writes, Sleeps

\* The exit code is 0 after passes only.
LEMMA ReportTyped ==
    ASSUME NEW o, o \subseteq Outcomes
    PROVE  _report(o) \in 0..3 /\ (_report(o) = 0 => o \subseteq {"pass"})
BY DEF _report, Outcomes

LEMMA CleanupTyped ==
    ASSUME TaskOK, NEW outcomes, outcomes \subseteq Outcomes,
           NEW exception \in BOOLEAN, Cleanup(outcomes, exception)
    PROVE  TaskOK'
<1>1. CASE skip_dos \/ Relays = {}
  <2>1. /\ step' = "exited" /\ todo' = <<>> /\ timers' = {} /\ results' = outcomes
        /\ raised' = exception /\ code' \in {None, _report(outcomes)}
    BY <1>1 DEF Cleanup, Leaves, Exit
  <2>2. code' \in 0..3 \cup {None}
    BY <2>1, ReportTyped
  <2> QED BY <2>1, <2>2, StepsListed DEF TaskOK, FlowInv
<1>2. CASE ~(skip_dos \/ Relays = {})
  <2>1. /\ step' = "cleanup" /\ todo' = RelayOrder /\ timers' = {} /\ results' = outcomes
        /\ raised' = exception /\ code' = code
    BY <1>2 DEF Cleanup
  <2>2. todo' \in Seq(Inputs \cup Relays) /\ todo' # <<>>
    BY <1>2, <2>1, RelayOrderHas
  <2> QED BY <2>1, <2>2, StepsListed DEF TaskOK, FlowInv
<1> QED BY <1>1, <1>2

LEMMA OutcomeTyped ==
    ASSUME TaskOK, todo # <<>>, NEW outcome \in Outcomes, Outcome(outcome)
    PROVE  TaskOK'
<1>1. results \cup {outcome} \subseteq Outcomes
  BY DEF TaskOK
<1>2. CASE Len(todo) = 1
  <2> DEFINE exception == FALSE
             outcomes == results \cup {outcome}
  <2>1. exception \in BOOLEAN /\ outcomes \subseteq Outcomes
        /\ Cleanup(outcomes, exception)
    BY <1>1, <1>2 DEF Outcome
  <2> HIDE DEF exception, outcomes
  <2> QED BY <2>1, CleanupTyped
<1>3. CASE Len(todo) # 1
  <2>1. /\ todo' = Tail(todo) /\ step' = First(todo[2])
        /\ results' = results \cup {outcome} /\ UNCHANGED <<raised, timers, code>>
    BY <1>3 DEF Outcome
  <2>2. /\ todo' \in Seq(Inputs \cup Relays) /\ todo' # <<>> /\ Current' = todo[2]
        /\ todo[2] \in Inputs \cup Relays
    BY <1>3, <2>1, TailHas DEF TaskOK, Current
  <2>3. \/ step' = "baseline" /\ Current' \in Inputs
        \/ step' = "ready" /\ Current' \in Relays
    BY <2>1, <2>2 DEF First
  <2> QED BY <1>1, <2>1, <2>2, <2>3, StepsListed DEF TaskOK, FlowInv
<1> QED BY <1>2, <1>3

LEMMA GoOnTyped ==
    ASSUME TaskOK, todo # <<>>, NEW next \in Steps, GoOn(next),
           next \in {"baseline", "actuate", "reread", "transient"} => Current \in Inputs,
           next \in {"ready", "drive", "hold", "settle", "unhold", "confirm"}
             => Current \in Relays
    PROVE  TaskOK'
BY DEF TaskOK, FlowInv, GoOn, Current

LEMMA RaiseTyped ==
    ASSUME TaskOK, Raise
    PROVE  TaskOK'
<1>1. CASE step \in {"drive", "hold"} /\ Current \in Maintained
  <2>1. /\ step' = "unhold" /\ raised' = TRUE /\ UNCHANGED <<todo, results, timers, code>>
    BY <1>1 DEF Raise
  <2> QED BY <1>1, <2>1, StepsListed DEF TaskOK, FlowInv, Current
<1>2. CASE ~(step \in {"drive", "hold"} /\ Current \in Maintained)
  <2> DEFINE exception == TRUE
             outcomes == results
  <2>1. exception \in BOOLEAN /\ outcomes \subseteq Outcomes
        /\ Cleanup(outcomes, exception)
    BY <1>2 DEF Raise, TaskOK
  <2> HIDE DEF exception, outcomes
  <2> QED BY <2>1, CleanupTyped
<1> QED BY <1>1, <1>2

LEMMA LeavesTyped ==
    ASSUME TaskOK, Leaves(results, raised)
    PROVE  TaskOK'
<1>1. /\ step' = "exited" /\ todo' = <<>> /\ timers' = {} /\ results' = results
      /\ raised' = raised /\ code' \in {None, _report(results)}
  BY DEF Leaves, Exit
<1>2. code' \in 0..3 \cup {None}
  BY <1>1, ReportTyped DEF TaskOK
<1> QED BY <1>1, <1>2, StepsListed DEF TaskOK, FlowInv

LEMMA ExitTyped ==
    ASSUME TaskOK, NEW exitCode \in {2, None}, Exit(exitCode), results' = results,
           raised' \in BOOLEAN
    PROVE  TaskOK'
BY StepsListed DEF TaskOK, FlowInv, Exit

\* What the operator answers is an outcome, or leads on in the check.
LEMMA AnswerTyped ==
    ASSUME TaskOK, Answer
    PROVE  TaskOK'
<1>0. todo # <<>> /\ results \subseteq Outcomes
  BY StepsListed DEF Answer, AnswerActuate, AnswerTransient, AnswerReady, AnswerConfirm, TaskOK
<1>1. ASSUME NEW outcome \in Outcomes, Outcome(outcome) PROVE TaskOK'
  BY <1>0, <1>1, OutcomeTyped
<1>2. \/ \E outcome \in Outcomes : Outcome(outcome)
      \/ step = "actuate" /\ GoOn("reread")
      \/ step = "ready" /\ GoOn("drive")
  BY DEF Answer, AnswerActuate, AnswerTransient, AnswerReady, AnswerConfirm, Outcomes
<1>3. CASE step = "actuate" /\ GoOn("reread")
  BY <1>0, <1>3, GoOnTyped, StepsListed DEF TaskOK, FlowInv
<1>4. CASE step = "ready" /\ GoOn("drive")
  BY <1>0, <1>4, GoOnTyped, StepsListed DEF TaskOK, FlowInv
<1> QED BY <1>1, <1>2, <1>3, <1>4

LEMMA TypeInit == Init => TaskOK /\ WorldOK
<1> SUFFICES ASSUME Init PROVE TaskOK /\ WorldOK
  OBVIOUS
<1>1. todo \in Seq(Inputs \cup Relays)
  <2> DEFINE a == IF skip_dis THEN <<>> ELSE SetToSeq(Inputs)
             b == IF skip_dos THEN <<>> ELSE RelayOrder
  <2>1. a \in Seq(Inputs \cup Relays) /\ b \in Seq(Inputs \cup Relays)
    BY InputsListed, RelayOrderHas
  <2>2. todo = a \o b
    BY DEF Init
  <2> HIDE DEF a, b
  <2> QED BY <2>1, <2>2
<1>2. TaskOK
  BY <1>1, StepsListed DEF Init, TaskOK, FlowInv
<1>3. relay \in [Relays -> BOOLEAN]
  BY DEF Init
<1>4. interrupts \in 0..MaxInterrupts
  BY ConstantsAssumption DEF ConstantsAssumption, Init
<1>5. WorldOK
  BY <1>3, <1>4 DEF Init, WorldOK
<1> QED BY <1>2, <1>5

\* Each action of the main task leads it on in one of these ways.
LEMMA TaskStep == TaskOK /\ [Next]_vars => TaskOK'
<1> SUFFICES ASSUME TaskOK, [Next]_vars PROVE TaskOK'
  OBVIOUS
<1>0. results \subseteq Outcomes
  BY DEF TaskOK
<1>1. CASE Connect
  <2>1. ASSUME todo = <<>>, Cleanup({}, FALSE) PROVE TaskOK'
    <3> DEFINE exception == FALSE
               outcomes == {}
    <3>1. exception \in BOOLEAN /\ outcomes \subseteq Outcomes
          /\ Cleanup(outcomes, exception)
      BY <2>1
    <3> HIDE DEF exception, outcomes
    <3> QED BY <3>1, CleanupTyped
  <2>2. ASSUME todo # <<>>, GoOn(First(Current)) PROVE TaskOK'
    <3>1. Current \in Inputs \cup Relays
      BY <2>2, TailHas DEF TaskOK, Current
    <3>2. CASE Current \in Inputs
      <4>1. GoOn("baseline")
        BY <2>2, <3>2 DEF First
      <4> QED BY <2>2, <3>2, <4>1, GoOnTyped, StepsListed
    <3>3. CASE Current \notin Inputs
      <4>1. GoOn("ready") /\ Current \in Relays
        BY <2>2, <3>1, <3>3 DEF First
      <4> QED BY <2>2, <4>1, GoOnTyped, StepsListed
    <3> QED BY <3>2, <3>3
  <2>3. ASSUME Exit(2), results' = results, raised' = raised PROVE TaskOK'
    BY <2>3, ExitTyped DEF TaskOK
  <2> QED BY <1>1, <2>1, <2>2, <2>3 DEF Connect
<1>2. CASE ReadBaseline
  <2>1. todo # <<>> /\ Current \in Inputs /\ GoOn("actuate")
    BY <1>2, StepsListed DEF ReadBaseline, TaskOK, FlowInv
  <2> QED BY <2>1, GoOnTyped, StepsListed
<1>3. CASE Reread
  <2>1. todo # <<>> /\ Current \in Inputs
    BY <1>3, StepsListed DEF Reread, TaskOK, FlowInv
  <2>2. GoOn("transient") \/ \E outcome \in Outcomes : Outcome(outcome)
    BY <1>3 DEF Reread, Outcomes
  <2>3. CASE GoOn("transient")
    BY <2>1, <2>3, GoOnTyped, StepsListed
  <2> QED BY <2>1, <2>2, <2>3, OutcomeTyped
<1>4. CASE Drive
  <2>1. /\ todo # <<>> /\ Current \in Relays
        /\ timers' = timers \cup ({Current} \cap Pulsed)
        /\ step' \in {"settle", "hold"} /\ UNCHANGED <<todo, results, raised, code>>
    BY <1>4, StepsListed DEF Drive, TaskOK, FlowInv
  <2> QED BY <2>1, StepsListed DEF TaskOK, FlowInv, Current
<1>5. CASE HoldOver
  <2>1. todo # <<>> /\ Current \in Relays /\ GoOn("unhold")
    BY <1>5, StepsListed DEF HoldOver, TaskOK, FlowInv
  <2> QED BY <2>1, GoOnTyped, StepsListed
<1>6. CASE Unhold
  <2>1. todo # <<>> /\ Current \in Relays /\ (Raise \/ GoOn("settle"))
    BY <1>6, StepsListed DEF Unhold, TaskOK, FlowInv
  <2>2. CASE GoOn("settle")
    BY <2>1, <2>2, GoOnTyped, StepsListed
  <2> QED BY <2>1, <2>2, RaiseTyped
<1>7. CASE SettleOver
  <2>1. todo # <<>> /\ Current \in Relays /\ GoOn("confirm")
    BY <1>7, StepsListed DEF SettleOver, TaskOK, FlowInv
  <2> QED BY <2>1, GoOnTyped, StepsListed
<1>8. CASE ReleaseNext
  <2>1. step = "cleanup" /\ todo # <<>>
    BY <1>8, StepsListed DEF ReleaseNext, TaskOK
  <2>2. CASE Len(todo) > 1
    <3>1. todo' = Tail(todo) /\ UNCHANGED <<step, results, raised, timers, code>>
      BY <1>8, <2>2 DEF ReleaseNext
    <3>2. todo' \in Seq(Inputs \cup Relays) /\ todo' # <<>>
      BY <2>1, <2>2, <3>1, TailHas DEF TaskOK
    <3> QED BY <2>1, <3>1, <3>2 DEF TaskOK, FlowInv
  <2> QED BY <1>8, <2>2, LeavesTyped DEF ReleaseNext
<1>9. CASE Fails
  BY <1>9, LeavesTyped, RaiseTyped DEF Fails
<1>10. CASE Cancelled
  <2>1. CASE Exit(None) /\ raised' = TRUE /\ results' = results
    BY <2>1, ExitTyped
  <2> QED BY <1>10, <2>1, RaiseTyped DEF Cancelled
<1>11. CASE Interrupt
  <2>1. ASSUME Cleanup(results, TRUE) PROVE TaskOK'
    <3> DEFINE exception == TRUE
    <3>1. exception \in BOOLEAN /\ Cleanup(results, exception)
      BY <2>1
    <3> HIDE DEF exception
    <3> QED BY <1>0, <3>1, CleanupTyped
  <2>2. ASSUME timers' \in {{}, timers}, UNCHANGED <<step, todo, results, raised, code>>
        PROVE  TaskOK'
    BY <2>2 DEF TaskOK, FlowInv, Current
  <2> QED BY <1>11, <2>1, <2>2 DEF Interrupt
<1>12. CASE Killed
  <2>1. Exit(None) /\ results' = results /\ raised' \in BOOLEAN
    BY <1>12 DEF Killed, TaskOK
  <2> QED BY <2>1, ExitTyped
<1>13. ASSUME NEW r \in Pulsed, PulseReleased(r) PROVE TaskOK'
  BY <1>13 DEF PulseReleased, task, TaskOK, FlowInv, Current
<1>14. CASE Actuate \/ InputEnds \/ UNCHANGED vars
  BY <1>14 DEF Actuate, InputEnds, vars, task, TaskOK, FlowInv, Current
<1> QED
  BY <1>1, <1>2, <1>3, <1>4, <1>5, <1>6, <1>7, <1>8, <1>9, <1>10, <1>11, <1>12, <1>13,
     <1>14, AnswerTyped DEF Next, _run

LEMMA WorldStep == TaskOK /\ WorldOK /\ [Next]_vars => WorldOK'
<1> SUFFICES ASSUME TaskOK, WorldOK, [Next]_vars PROVE WorldOK'
  OBVIOUS
<1>1. relay' \in [Relays -> BOOLEAN]
  <2>1. relay \in [Relays -> BOOLEAN] /\ Written \in [Relays -> BOOLEAN]
    <3>1. (step = "drive") \in BOOLEAN
      OBVIOUS
    <3> QED BY <3>1 DEF WorldOK, Written
  <2>2. ASSUME NEW r \in Pulsed, PulseReleased(r) PROVE relay' \in [Relays -> BOOLEAN]
    BY <2>1, <2>2 DEF PulseReleased
  <2>3. \/ relay' = relay \/ relay' = Written \/ \E r \in Pulsed : PulseReleased(r)
    BY DEF Next, _run, Connect, ReadBaseline, Reread, Drive, HoldOver, Unhold, SettleOver,
           ReleaseNext, Fails, Cancelled, MayHaveWritten, Answer, Actuate, InputEnds,
           Interrupt, Killed, vars
  <2> QED BY <2>1, <2>2, <2>3
<1>2. wired' = wired
  BY DEF Next, _run, Connect, ReadBaseline, Reread, Drive, HoldOver, Unhold, SettleOver,
         ReleaseNext, Fails, Cancelled, Answer, PulseReleased, Actuate, InputEnds,
         Interrupt, Killed, world, vars
<1>3. closed' \subseteq Inputs
  <2>1. ASSUME Actuate PROVE closed' \subseteq Inputs
    BY <2>1 DEF Actuate, TaskOK, FlowInv, WorldOK
  <2>2. closed' = closed \/ Actuate
    BY DEF Next, _run, Connect, ReadBaseline, Reread, Drive, HoldOver, Unhold, SettleOver,
           ReleaseNext, Fails, Cancelled, Answer, PulseReleased, InputEnds, Interrupt,
           Killed, vars
  <2> QED BY <2>1, <2>2 DEF WorldOK
<1>4. baseline' \subseteq Inputs
  <2>1. Channels \subseteq Inputs
    BY DEF Channels, WorldOK
  <2>2. baseline' = baseline \/ baseline' = Channels
    BY DEF Next, _run, Connect, ReadBaseline, Reread, Drive, HoldOver, Unhold, SettleOver,
           ReleaseNext, Fails, Cancelled, Answer, PulseReleased, Actuate, InputEnds,
           Interrupt, Killed, task, vars
  <2> QED BY <2>1, <2>2 DEF WorldOK
<1>5. interrupts' \in 0..MaxInterrupts
  <2>1. \/ interrupts' = interrupts
        \/ interrupts < MaxInterrupts /\ interrupts' = interrupts + 1
    BY DEF Next, _run, Connect, ReadBaseline, Reread, Drive, HoldOver, Unhold, SettleOver,
           ReleaseNext, Fails, Cancelled, Answer, PulseReleased, Actuate, InputEnds,
           Interrupt, Killed, vars
  <2> QED BY <2>1, ConstantsAssumption DEF ConstantsAssumption, WorldOK
<1>6. asserted' \subseteq Relays
  <2>1. step = "drive" => Current \in Relays
    BY DEF TaskOK, FlowInv
  <2>2. asserted' = asserted \/ (step = "drive" /\ asserted' = asserted \cup {Current})
    BY DEF Next, _run, Connect, ReadBaseline, Reread, Drive, HoldOver, Unhold, SettleOver,
           ReleaseNext, Fails, Cancelled, MayHaveWritten, Answer, PulseReleased, Actuate,
           InputEnds, Interrupt, Killed, history, vars
  <2> QED BY <2>1, <2>2 DEF WorldOK
<1>7. {eof', skip_dis', skip_dos', cancel', killed'} \subseteq BOOLEAN
  <2>1. /\ eof' = eof \/ eof' = TRUE
        /\ skip_dis' = skip_dis /\ skip_dos' = skip_dos
        /\ cancel' = cancel \/ cancel' = TRUE \/ cancel' = FALSE
        /\ killed' = killed \/ killed' = TRUE
    BY DEF Next, _run, Connect, ReadBaseline, Reread, Drive, HoldOver, Unhold, SettleOver,
           ReleaseNext, Fails, Cancelled, Answer, PulseReleased, Actuate, InputEnds,
           Interrupt, Killed, world, history, vars
  <2> QED BY <2>1 DEF WorldOK
<1>8. {transient', failed', cut', late'} \subseteq BOOLEAN
  <2>0. {transient, failed, cut, late} \subseteq BOOLEAN
    BY DEF WorldOK
  <2>1. ASSUME NEW answer, AnswerTransient(answer) PROVE transient' \in BOOLEAN
    BY Zenon, <2>1 DEF AnswerTransient
  <2>2. CASE Answer
    <3>1. /\ failed' = failed /\ cut' = cut /\ late' = late
          /\ transient' = transient \/ \E answer : AnswerTransient(answer)
      BY <2>2 DEF Answer, AnswerActuate, AnswerReady, AnswerConfirm
    <3> QED BY <2>0, <2>1, <3>1
  <2>3. CASE Fails
    <3>1. failed' \in BOOLEAN
      BY Zenon, <2>3 DEF Fails
    <3> QED BY <2>0, <2>3, <3>1 DEF Fails
  <2>4. CASE Cancelled
    <3>1. cut' \in BOOLEAN
      BY Zenon, <2>4 DEF Cancelled
    <3> QED BY <2>0, <2>4, <3>1 DEF Cancelled
  <2>5. CASE Interrupt
    <3>1. late' \in BOOLEAN
      BY Zenon, <2>5 DEF Interrupt
    <3> QED BY <2>0, <2>5, <3>1 DEF Interrupt
  <2>6. \/ Answer \/ Fails \/ Cancelled \/ Interrupt
        \/ UNCHANGED <<transient, failed, cut, late>>
    BY DEF Next, _run, Connect, ReadBaseline, Reread, Drive, HoldOver, Unhold, SettleOver,
           ReleaseNext, PulseReleased, Actuate, InputEnds, Killed, history, vars
  <2> QED BY <2>0, <2>2, <2>3, <2>4, <2>5, <2>6
<1> QED BY <1>1, <1>2, <1>3, <1>4, <1>5, <1>6, <1>7, <1>8 DEF WorldOK

\* The state is well typed: in particular only a relay is driven, and there is
\* a check under way whenever the tool asks or waits.
THEOREM TypeCorrect == Spec => []TypeOK
BY TypeInit, TaskStep, WorldStep, TypeParts, PTL DEF Spec

------------------------------------------------------------------------------
(* The release on the way out.                                               *)

Off == \A r \in asserted : ~relay[r]

\* LeftReleased is not inductive: what the release has yet to turn off is on
\* its list, and without outputs to check none was turned on.
LeftInv ==
    /\ skip_dos => asserted = {} /\ \A r \in Relays : ~Has(todo, r)
    /\ step = "connect" => asserted = {}
    /\ step = "cleanup" => \A r \in asserted : relay[r] => Has(todo, r)
    /\ step = "exited" /\ ~killed /\ ~failed /\ ~cut => Off

\* Only a check under way drives a relay, and then there are outputs to check.
LEMMA AssertsChecked ==
    ASSUME TaskOK, WorldOK, LeftInv, [Next]_vars
    PROVE  /\ asserted' \subseteq Relays /\ skip_dos' = skip_dos
           /\ skip_dos => asserted' = {}
           /\ asserted' = asserted \/ step = "drive"
<1>1. asserted' = asserted \/ (step = "drive" /\ asserted' = asserted \cup {Current})
  BY DEF Next, _run, Connect, ReadBaseline, Reread, Drive, HoldOver, Unhold, SettleOver,
         ReleaseNext, Fails, Cancelled, MayHaveWritten, Answer, PulseReleased, Actuate,
         InputEnds, Interrupt, Killed, history, vars
<1>2. ASSUME step = "drive" PROVE Current \in Relays /\ Has(todo, Current)
  <2>1. todo # <<>> /\ todo \in Seq(Inputs \cup Relays) /\ Current \in Relays
    BY <1>2, StepsListed DEF TaskOK, FlowInv
  <2>2. Current = todo[1] /\ 1 \in 1..Len(todo)
    BY <2>1, TailHas DEF Current
  <2> QED BY <2>1, <2>2 DEF Has
<1>3. skip_dos' = skip_dos
  BY DEF Next, _run, Connect, ReadBaseline, Reread, Drive, HoldOver, Unhold, SettleOver,
         ReleaseNext, Fails, Cancelled, Answer, PulseReleased, Actuate, InputEnds,
         Interrupt, Killed, world, vars
<1> QED BY <1>1, <1>2, <1>3 DEF LeftInv, WorldOK

LEMMA CleanupLeft ==
    ASSUME NEW outcomes, NEW exception, Cleanup(outcomes, exception),
           asserted' \subseteq Relays, skip_dos' = skip_dos, skip_dos => asserted' = {}
    PROVE  LeftInv'
<1>1. CASE skip_dos \/ Relays = {}
  <2>1. step' = "exited" /\ todo' = <<>> /\ asserted' = {}
    BY <1>1 DEF Cleanup, Leaves, Exit
  <2>2. \A x : ~Has(<<>>, x)
    BY DEF Has
  <2> QED BY <2>1, <2>2 DEF LeftInv, Off, Has
<1>2. CASE ~(skip_dos \/ Relays = {})
  <2>1. step' = "cleanup" /\ todo' = RelayOrder
    BY <1>2 DEF Cleanup
  <2>2. \A r \in asserted' : Has(todo, r)'
    BY <2>1, RelayOrderHas DEF Has
  <2> QED BY <1>2, <2>1, <2>2 DEF LeftInv
<1> QED BY <1>1, <1>2

\* On the way through the checks the list only gets shorter.
LEMMA CheckLeft ==
    ASSUME LeftInv, step' \notin {"connect", "cleanup", "exited"}, skip_dos' = skip_dos,
           skip_dos => asserted' = {}, \A x : Has(todo, x)' => Has(todo, x)
    PROVE  LeftInv'
BY DEF LeftInv

LEMMA GoOnLeft ==
    ASSUME LeftInv, NEW next, GoOn(next), next \notin {"connect", "cleanup", "exited"},
           skip_dos' = skip_dos, skip_dos => asserted' = {}
    PROVE  LeftInv'
<1>1. step' \notin {"connect", "cleanup", "exited"} /\ todo' = todo
  BY DEF GoOn
<1>2. \A x : Has(todo, x)' => Has(todo, x)
  BY <1>1 DEF Has
<1> QED BY <1>1, <1>2, CheckLeft

LEMMA TailShorter ==
    ASSUME NEW S, NEW q \in Seq(S), q # <<>>, NEW x, Has(Tail(q), x)
    PROVE  Has(q, x)
<1>1. Len(q) \in Nat /\ Len(Tail(q)) = Len(q) - 1
      /\ \A i \in 1..(Len(q) - 1) : Tail(q)[i] = q[i + 1]
  OBVIOUS
<1>2. PICK i \in 1..(Len(q) - 1) : q[i + 1] = x
  BY <1>1 DEF Has
<1>3. i + 1 \in 1..Len(q)
  BY <1>1
<1> QED BY <1>2, <1>3 DEF Has

LEMMA OutcomeLeft ==
    ASSUME TaskOK, LeftInv, todo # <<>>, NEW outcome, Outcome(outcome),
           asserted' \subseteq Relays, skip_dos' = skip_dos, skip_dos => asserted' = {}
    PROVE  LeftInv'
<1>1. CASE Len(todo) = 1
  <2>1. Cleanup(results \cup {outcome}, FALSE)
    BY <1>1 DEF Outcome
  <2> QED BY <2>1, CleanupLeft
<1>2. CASE Len(todo) # 1
  <2>1. todo' = Tail(todo) /\ step' = First(todo[2])
    BY <1>2 DEF Outcome
  <2>2. step' \in {"baseline", "ready"}
    BY <2>1 DEF First
  <2>3. \A x : Has(todo, x)' => Has(todo, x)
    <3>1. \A x : Has(todo, x)' <=> Has(Tail(todo), x)
      BY <2>1 DEF Has
    <3> QED BY <3>1, TailShorter DEF TaskOK
  <2> QED BY <2>2, <2>3, CheckLeft
<1> QED BY <1>1, <1>2

LEMMA RaiseLeft ==
    ASSUME LeftInv, Raise,
           asserted' \subseteq Relays, skip_dos' = skip_dos, skip_dos => asserted' = {}
    PROVE  LeftInv'
<1>1. CASE Cleanup(results, TRUE)
  BY <1>1, CleanupLeft
<1>2. CASE step' = "unhold" /\ todo' = todo
  <2>1. \A x : Has(todo, x)' => Has(todo, x)
    BY <1>2 DEF Has
  <2> QED BY <1>2, <2>1, CheckLeft
<1> QED BY <1>1, <1>2 DEF Raise

\* One more relay is off.
LEMMA ReleaseNextLeft ==
    ASSUME TaskOK, WorldOK, LeftInv, ReleaseNext
    PROVE  LeftInv'
<1>1. /\ step = "cleanup" /\ todo # <<>> /\ todo \in Seq(Inputs \cup Relays)
      /\ relay' = Written /\ asserted' = asserted /\ skip_dos' = skip_dos
  BY StepsListed DEF ReleaseNext, TaskOK, history, world
<1>2. ASSUME NEW r \in asserted', relay'[r]
      PROVE  relay[r] /\ r # Current
  BY <1>1, <1>2 DEF Written, WorldOK
<1>3. ASSUME NEW r \in asserted', relay'[r]
      PROVE  Len(todo) # 1 /\ Has(Tail(todo), r)
  <2>1. Has(todo, r) /\ r # Head(todo)
    BY <1>1, <1>2, <1>3 DEF LeftInv, Current
  <2> QED BY <1>1, <2>1, TailHas
<1>4. CASE Len(todo) > 1
  <2>1. todo' = Tail(todo) /\ step' = step
    BY <1>4 DEF ReleaseNext
  <2>2. \A x : Has(todo, x)' <=> Has(Tail(todo), x)
    BY <2>1 DEF Has
  <2>3. \A x : Has(todo, x)' => Has(todo, x)
    BY <1>1, <2>2, TailShorter
  <2> QED BY <1>1, <1>3, <2>1, <2>2, <2>3 DEF LeftInv
<1>5. CASE ~(Len(todo) > 1)
  <2>1. step' = "exited" /\ todo' = <<>>
    BY <1>5 DEF ReleaseNext, Leaves, Exit
  <2>2. Len(todo) = 1
    <3> DEFINE n == Len(todo)
    <3>1. n \in Nat /\ n # 0 /\ ~(n > 1)
      BY <1>1, <1>5, TailHas
    <3> HIDE DEF n
    <3>2. n = 1
      BY <3>1
    <3> QED BY <3>2 DEF n
  <2>3. Off'
    BY <1>3, <2>2 DEF Off
  <2>4. \A x : ~Has(todo, x)'
    BY <2>1 DEF Has
  <2> QED BY <1>1, <2>1, <2>3, <2>4 DEF LeftInv
<1> QED BY <1>4, <1>5

LEMMA LeftInit == Init => LeftInv
<1> SUFFICES ASSUME Init PROVE LeftInv
  OBVIOUS
<1>1. step = "connect" /\ asserted = {}
  BY DEF Init
<1>2. ASSUME skip_dos, NEW r \in Relays PROVE ~Has(todo, r)
  <2>1. todo \in Seq(Inputs)
    <3> DEFINE a == IF skip_dis THEN <<>> ELSE SetToSeq(Inputs)
    <3>1. a \in Seq(Inputs)
      BY InputsListed
    <3>2. todo = a \o <<>>
      BY <1>2 DEF Init
    <3> HIDE DEF a
    <3> QED BY <3>1, <3>2
  <2> QED BY <2>1, KindsOfChecks DEF Has
<1> QED BY <1>1, <1>2 DEF LeftInv

LEMMA LeftStep == TaskOK /\ WorldOK /\ LeftInv /\ [Next]_vars => LeftInv'
<1> SUFFICES ASSUME TaskOK, WorldOK, LeftInv, [Next]_vars PROVE LeftInv'
  OBVIOUS
<1>0. /\ asserted' \subseteq Relays /\ skip_dos' = skip_dos
      /\ skip_dos => asserted' = {}
      /\ asserted' = asserted \/ step = "drive"
  BY AssertsChecked
<1>1. ASSUME NEW next \in {"baseline", "ready", "actuate", "transient", "unhold", "settle",
                           "confirm", "reread", "drive"}, GoOn(next)
      PROVE  LeftInv'
  BY <1>0, <1>1, GoOnLeft
<1>2. ASSUME NEW o, NEW e, Cleanup(o, e) PROVE LeftInv'
  BY <1>0, <1>2, CleanupLeft
<1>3. ASSUME todo # <<>>, NEW outcome, Outcome(outcome) PROVE LeftInv'
  BY <1>0, <1>3, OutcomeLeft
<1>4. CASE Raise
  BY <1>0, <1>4, RaiseLeft
<1>5. ASSUME step' = "exited", todo' = <<>>, asserted' = {} \/ killed' \/ failed' \/ cut'
      PROVE  LeftInv'
  <2>1. \A x : ~Has(todo, x)'
    BY <1>5 DEF Has
  <2> QED BY <1>0, <1>5, <2>1 DEF LeftInv, Off
<1>6. ASSUME step' = step, todo' = todo, asserted' = asserted,
             UNCHANGED <<killed, failed, cut>>,
             \A r \in Relays : relay'[r] => relay[r]
      PROVE  LeftInv'
  <2>1. \A x : Has(todo, x)' <=> Has(todo, x)
    BY <1>6 DEF Has
  <2> QED BY <1>0, <1>6, <2>1 DEF LeftInv, Off
<1>7. CASE Connect
  <2>1. step = "connect" /\ asserted' = asserted
    BY <1>7 DEF Connect, history
  <2>2. CASE Exit(2)
    BY <1>5, <2>1, <2>2 DEF Exit, LeftInv
  <2>3. CASE GoOn(First(Current))
    <3>1. First(Current) \in {"baseline", "ready"}
      BY DEF First
    <3> QED BY <1>1, <2>3, <3>1
  <2> QED BY <1>2, <1>7, <2>2, <2>3 DEF Connect
<1>8. CASE ReadBaseline \/ HoldOver \/ SettleOver
  BY <1>1, <1>8 DEF ReadBaseline, HoldOver, SettleOver
<1>9. CASE Reread
  <2>1. todo # <<>>
    BY <1>9, StepsListed DEF Reread, TaskOK
  <2> QED BY <1>1, <1>3, <1>9, <2>1 DEF Reread
<1>10. CASE Drive
  <2>1. step' \in {"settle", "hold"} /\ todo' = todo
    BY <1>10 DEF Drive
  <2>2. \A x : Has(todo, x)' => Has(todo, x)
    BY <2>1 DEF Has
  <2> QED BY <1>0, <2>1, <2>2, CheckLeft
<1>11. CASE Unhold
  BY <1>1, <1>4, <1>11 DEF Unhold
<1>12. CASE Fails
  <2>1. CASE step = "cleanup"
    <3>1. step' = "exited" /\ todo' = <<>> /\ failed'
      BY <1>12, <2>1 DEF Fails, Leaves, Exit
    <3> QED BY <1>5, <3>1
  <2> QED BY <1>4, <1>12, <2>1 DEF Fails
<1>13. CASE Cancelled
  <2>1. CASE step = "cleanup"
    <3>1. step' = "exited" /\ todo' = <<>> /\ cut'
      BY <1>13, <2>1 DEF Cancelled, Exit
    <3> QED BY <1>5, <3>1
  <2>2. CASE step = "connect"
    <3>1. step' = "exited" /\ todo' = <<>>
      BY <1>13, <2>2 DEF Cancelled, Exit
    <3>2. asserted' = {}
      BY <1>0, <2>2 DEF LeftInv
    <3> QED BY <1>5, <3>1, <3>2
  <2> QED BY <1>4, <1>13, <2>1, <2>2 DEF Cancelled
<1>14. CASE Answer
  <2>1. todo # <<>>
    BY <1>14, StepsListed
    DEF Answer, AnswerActuate, AnswerTransient, AnswerReady, AnswerConfirm, TaskOK
  <2>2. \/ GoOn("reread") \/ GoOn("drive") \/ \E outcome : Outcome(outcome)
    BY <1>14 DEF Answer, AnswerActuate, AnswerTransient, AnswerReady, AnswerConfirm
  <2> QED BY <1>1, <1>3, <2>1, <2>2
<1>15. CASE Interrupt
  <2>1. CASE Cleanup(results, TRUE)
    BY <1>2, <2>1
  <2>2. CASE step' = step /\ todo' = todo
    BY <1>6, <1>15, <2>2 DEF Interrupt
  <2> QED BY <1>15, <2>1, <2>2 DEF Interrupt
<1>16. CASE Killed
  <2>1. step' = "exited" /\ todo' = <<>> /\ killed'
    BY <1>16 DEF Killed, Exit
  <2> QED BY <1>5, <2>1
<1>17. ASSUME NEW r \in Pulsed, PulseReleased(r) PROVE LeftInv'
  <2>1. /\ step' = step /\ todo' = todo /\ asserted' = asserted
        /\ UNCHANGED <<killed, failed, cut>> /\ relay' = [relay EXCEPT ![r] = FALSE]
    BY <1>17 DEF PulseReleased, task, history
  <2>2. \A q \in Relays : relay'[q] => relay[q]
    BY <2>1 DEF WorldOK
  <2> QED BY <1>6, <2>1, <2>2
<1>18. CASE Actuate \/ InputEnds \/ UNCHANGED vars
  BY <1>6, <1>18 DEF Actuate, InputEnds, vars, task, history
<1> QED
  BY <1>7, <1>8, <1>9, <1>10, <1>11, <1>12, <1>13, <1>14, <1>15, <1>16, <1>17, <1>18,
     ReleaseNextLeft DEF Next, _run

\* bench.py's finally is enough: however the checks end, no relay that the
\* tool drove is left on, unless it is killed, a write of the release fails or
\* Ctrl-C cuts it short.
THEOREM LeavesReleased == Spec => []LeftReleased
<1>1. LeftInv => LeftReleased
  BY DEF LeftInv, Off, LeftReleased
<1> QED BY <1>1, TypeInit, TaskStep, WorldStep, LeftInit, LeftStep, PTL DEF Spec

------------------------------------------------------------------------------
(* What a pass vouches for.                                                  *)

AllWired == \A s \in Inputs : wired[s] = s

\* Since the first read of this check only its own signal was actuated.
Agree == \A ch \in Inputs : ch # wired[Current] => (ch \in baseline <=> ch \in Channels)

\* PassMeansWired is not inductive: what is not yet known to be wired is still
\* on the list, and a check's second read is compared with its first.
PassInv ==
    /\ step \in {"actuate", "reread"} => Agree
    /\ raised => step \in {"unhold", "cleanup", "exited"}
    /\ ~skip_dis /\ ~transient /\ results \subseteq {"pass"} /\ ~raised /\ step # "exited"
         => \A s \in Inputs : wired[s] = s \/ (step # "cleanup" /\ Has(todo, s))
    /\ code = 0 /\ ~skip_dis /\ ~transient => AllWired

\* The wiring and the options stay, and who vouched has vouched.
Given == wired' = wired /\ skip_dis' = skip_dis /\ (transient => transient')

LEMMA GivenStep == [Next]_vars => Given
<1> SUFFICES ASSUME [Next]_vars PROVE Given
  OBVIOUS
<1>1. wired' = wired /\ skip_dis' = skip_dis
  BY DEF Next, _run, Connect, ReadBaseline, Reread, Drive, HoldOver, Unhold, SettleOver,
         ReleaseNext, Fails, Cancelled, Answer, PulseReleased, Actuate, InputEnds,
         Interrupt, Killed, world, vars
<1>2. transient => transient'
  BY DEF Next, _run, Connect, ReadBaseline, Reread, Drive, HoldOver, Unhold, SettleOver,
         ReleaseNext, Fails, Cancelled, Answer, AnswerActuate, AnswerTransient,
         AnswerReady, AnswerConfirm, PulseReleased, Actuate, InputEnds, Interrupt, Killed,
         history, vars
<1> QED BY <1>1, <1>2 DEF Given

\* If exactly the channel of that name changed, the signal arrives there.
LEMMA ChangedWired == Agree /\ Changed = {Current} /\ Current \in Inputs
                      => wired[Current] = Current
BY DEF Agree, Changed

LEMMA ReportZero ==
    ASSUME NEW o, o \subseteq Outcomes
    PROVE  _report(o) = 0 => o \subseteq {"pass"}
BY ReportTyped

LEMMA NoneNotZero == None # 0
BY ConstantsAssumption DEF ConstantsAssumption

LEMMA CleanupPass ==
    ASSUME PassInv, Given, NEW outcomes, outcomes \subseteq Outcomes, NEW exception,
           Cleanup(outcomes, exception),
           ~skip_dis /\ ~transient' /\ outcomes \subseteq {"pass"} /\ ~exception => AllWired
    PROVE  PassInv'
<1>1. CASE skip_dos \/ Relays = {}
  <2>1. /\ step' = "exited" /\ raised' = exception
        /\ code' = None \/ (~exception /\ code' = _report(outcomes))
    BY <1>1 DEF Cleanup, Leaves, Exit
  <2>2. code' = 0 => ~exception /\ outcomes \subseteq {"pass"}
    BY <2>1, ReportZero, NoneNotZero
  <2> QED BY <2>1, <2>2 DEF PassInv, Given, AllWired
<1>2. CASE ~(skip_dos \/ Relays = {})
  <2>1. step' = "cleanup" /\ results' = outcomes /\ raised' = exception /\ code' = code
    BY <1>2 DEF Cleanup
  <2> QED BY <2>1 DEF PassInv, Given, AllWired
<1> QED BY <1>1, <1>2

LEMMA OutcomePass ==
    ASSUME TaskOK, PassInv, Given, todo # <<>>, step \notin {"unhold", "cleanup", "exited"},
           NEW outcome \in Outcomes, Outcome(outcome),
           outcome = "pass" /\ Current \in Inputs => transient' \/ wired[Current] = Current
    PROVE  PassInv'
<1>1. ~raised /\ todo \in Seq(Inputs \cup Relays) /\ results \subseteq Outcomes
  BY DEF PassInv, TaskOK
<1>2. ASSUME ~skip_dis, ~transient', results \cup {outcome} \subseteq {"pass"},
             NEW s \in Inputs
      PROVE  wired[s] = s \/ (Len(todo) # 1 /\ Has(Tail(todo), s))
  <2>1. wired[s] = s \/ Has(todo, s)
    BY <1>1, <1>2 DEF PassInv, Given
  <2>2. Has(todo, s) => s = Current \/ (Len(todo) # 1 /\ Has(Tail(todo), s))
    BY <1>1, TailHas DEF Current
  <2>3. s = Current => wired[s] = s
    BY <1>2
  <2> QED BY <2>1, <2>2, <2>3
<1>3. CASE Len(todo) = 1
  <2> DEFINE outcomes == results \cup {outcome}
             exception == FALSE
  <2>1. Cleanup(outcomes, exception) /\ outcomes \subseteq Outcomes
    BY <1>1, <1>3 DEF Outcome
  <2>2. ~skip_dis /\ ~transient' /\ outcomes \subseteq {"pass"} => AllWired
    BY <1>2, <1>3 DEF AllWired
  <2> HIDE DEF outcomes, exception
  <2> QED BY <2>1, <2>2, CleanupPass
<1>4. CASE Len(todo) # 1
  <2>1. /\ todo' = Tail(todo) /\ step' = First(todo[2])
        /\ results' = results \cup {outcome} /\ raised' = raised /\ code' = code
    BY <1>4 DEF Outcome
  <2>2. step' \in {"baseline", "ready"}
    BY <2>1 DEF First
  <2>3. \A x : Has(todo, x)' <=> Has(Tail(todo), x)
    BY <2>1 DEF Has
  <2>4. ~skip_dis' /\ ~transient' /\ results' \subseteq {"pass"}
        => \A s \in Inputs : wired'[s] = s \/ Has(todo, s)'
    BY <1>2, <2>1, <2>3 DEF Given
  <2>5. code' = 0 /\ ~skip_dis' /\ ~transient' => AllWired'
    BY <2>1 DEF PassInv, Given, AllWired
  <2> QED BY <1>1, <2>1, <2>2, <2>4, <2>5 DEF PassInv
<1> QED BY <1>3, <1>4

\* The check goes on, or the task is at another place of it.
LEMMA PlacePass ==
    ASSUME PassInv, Given, todo' = todo, results' = results, code' = code,
           ~raised, ~raised', step \notin {"cleanup", "exited"},
           step' \notin {"cleanup", "exited"},
           step' \in {"actuate", "reread"} => Agree'
    PROVE  PassInv'
<1>1. \A x : Has(todo, x)' <=> Has(todo, x)
  BY DEF Has
<1>2. ~skip_dis' /\ ~transient' /\ results' \subseteq {"pass"}
      => \A s \in Inputs : wired'[s] = s \/ Has(todo, s)'
  BY <1>1 DEF PassInv, Given
<1>3. code' = 0 /\ ~skip_dis' /\ ~transient' => AllWired'
  BY DEF PassInv, Given, AllWired
<1> QED BY <1>2, <1>3 DEF PassInv

\* An exception is no pass.
LEMMA RaisePass ==
    ASSUME TaskOK, PassInv, Given, Raise
    PROVE  PassInv'
<1>1. CASE Cleanup(results, TRUE)
  <2> DEFINE exception == TRUE
  <2>1. Cleanup(results, exception) /\ exception /\ results \subseteq Outcomes
    BY <1>1 DEF TaskOK
  <2> HIDE DEF exception
  <2> QED BY <2>1, CleanupPass
<1>2. CASE step' = "unhold" /\ raised' = TRUE /\ code' = code
  BY <1>2 DEF PassInv, Given, AllWired
<1> QED BY <1>1, <1>2 DEF Raise

LEMMA LeavesPass ==
    ASSUME TaskOK, PassInv, Given, step = "cleanup", Leaves(results, raised)
    PROVE  PassInv'
<1>1. /\ step' = "exited" /\ raised' = raised
      /\ code' = None \/ (~raised /\ code' = _report(results))
  BY DEF Leaves, Exit
<1>2. code' = 0 => ~raised /\ results \subseteq {"pass"}
  BY <1>1, ReportZero, NoneNotZero DEF TaskOK
<1> QED BY <1>1, <1>2 DEF PassInv, Given, AllWired

LEMMA ExitPass ==
    ASSUME PassInv, Given, NEW exitCode \in {2, None}, Exit(exitCode)
    PROVE  PassInv'
BY NoneNotZero DEF PassInv, Exit

\* The operator actuates this check's signal, which moves one channel only.
LEMMA ActuateAgrees ==
    ASSUME WorldOK, PassInv, Given, Actuate
    PROVE  Agree'
<1>1. /\ step = "actuate" /\ todo' = todo /\ baseline' = baseline
      /\ closed' = IF Current \in closed THEN closed \ {Current} ELSE closed \cup {Current}
  BY DEF Actuate, task
<1>2. ASSUME NEW ch \in Inputs, ch # wired[Current]
      PROVE  ch \in Channels' <=> ch \in Channels
  BY <1>1, <1>2 DEF Channels, Given
<1> QED BY <1>1, <1>2 DEF Agree, Current, PassInv, Given

LEMMA PassInit == Init => PassInv
<1> SUFFICES ASSUME Init PROVE PassInv
  OBVIOUS
<1>1. step = "connect" /\ ~raised /\ code = None
  BY DEF Init
<1>2. ASSUME ~skip_dis, NEW s \in Inputs PROVE Has(todo, s)
  <2> DEFINE S == Inputs \cup Relays
             a == SetToSeq(Inputs)
             b == IF skip_dos THEN <<>> ELSE RelayOrder
  <2>1. a \in Seq(S) /\ b \in Seq(S) /\ Has(a, s)
    BY InputsListed, RelayOrderHas
  <2>2. todo = a \o b
    BY <1>2 DEF Init
  <2> HIDE DEF S, a, b
  <2> QED BY <2>1, <2>2, ConcatHas
<1> QED BY <1>1, <1>2, NoneNotZero DEF PassInv

LEMMA PassAnswer ==
    ASSUME TaskOK, PassInv, Given, Answer
    PROVE  PassInv'
<1>0. /\ todo # <<>> /\ step \in {"actuate", "transient", "ready", "confirm"} /\ ~raised
      /\ baseline' = baseline /\ closed' = closed
  BY StepsListed
  DEF Answer, AnswerActuate, AnswerTransient, AnswerReady, AnswerConfirm, TaskOK, PassInv
<1>1. ASSUME NEW outcome \in Outcomes, Outcome(outcome),
             outcome = "pass" /\ Current \in Inputs => transient'
      PROVE  PassInv'
  BY <1>0, <1>1, OutcomePass
<1>2. CASE step = "actuate" /\ GoOn("reread")
  <2>1. Agree'
    BY <1>0, <1>2 DEF PassInv, Agree, Channels, Current, GoOn, Given
  <2> QED BY <1>0, <1>2, <2>1, PlacePass DEF GoOn
<1>3. CASE GoOn("drive")
  BY <1>0, <1>3, PlacePass DEF GoOn
<1>4. CASE step = "confirm"
  <2>1. Current \in Relays
    BY <1>4 DEF TaskOK, FlowInv
  <2>2. \E outcome \in Outcomes : Outcome(outcome)
    BY <1>4 DEF Answer, AnswerActuate, AnswerTransient, AnswerReady, AnswerConfirm, Outcomes
  <2> QED BY <1>1, <2>1, <2>2, KindsOfChecks
<1>5. CASE step = "transient"
  <2>1. \E outcome \in Outcomes : Outcome(outcome) /\ (outcome = "pass" => transient')
    BY <1>5 DEF Answer, AnswerActuate, AnswerTransient, AnswerReady, AnswerConfirm, Outcomes
  <2> QED BY <1>1, <2>1
<1>6. CASE Outcome("skip")
  BY <1>1, <1>6 DEF Outcomes
<1> QED
  BY <1>0, <1>2, <1>3, <1>4, <1>5, <1>6
  DEF Answer, AnswerActuate, AnswerTransient, AnswerReady, AnswerConfirm

\* No check has an outcome before the tool is connected.
Fresh == step = "connect" => results = {}

LEMMA FreshInit == Init => Fresh
BY DEF Init, Fresh

LEMMA FreshStep == Fresh /\ [Next]_vars => Fresh'
<1> SUFFICES ASSUME Fresh, [Next]_vars PROVE Fresh'
  OBVIOUS
<1>1. ASSUME NEW outcomes, NEW exception, Cleanup(outcomes, exception)
      PROVE  step' # "connect"
  BY <1>1 DEF Cleanup, Leaves, Exit
<1>2. ASSUME NEW outcome, Outcome(outcome) PROVE step' # "connect"
  BY <1>1, <1>2 DEF Outcome, First
<1>3. ASSUME Raise PROVE step' # "connect"
  BY <1>1, <1>3 DEF Raise
<1>4. CASE Answer
  <2>1. GoOn("reread") \/ GoOn("drive") \/ \E outcome : Outcome(outcome)
    BY <1>4 DEF Answer, AnswerActuate, AnswerTransient, AnswerReady, AnswerConfirm
  <2>2. step' # "connect"
    BY <1>2, <2>1 DEF GoOn
  <2> QED BY <2>2 DEF Fresh
<1>5. CASE Interrupt
  BY <1>1, <1>5 DEF Interrupt, Fresh
<1>6. CASE Connect
  <2> DEFINE outcomes == {}
             exception == FALSE
  <2>1. Cleanup(outcomes, exception) \/ GoOn(First(Current)) \/ Exit(2)
    BY <1>6 DEF Connect
  <2>2. step' # "connect"
    <3> HIDE DEF outcomes, exception
    <3> QED BY <1>1, <2>1 DEF GoOn, First, Exit
  <2> QED BY <2>2 DEF Fresh
<1>7. CASE Reread
  <2>1. GoOn("transient") \/ \E outcome : Outcome(outcome)
    BY <1>7 DEF Reread
  <2>2. step' # "connect"
    BY <1>2, <2>1 DEF GoOn
  <2> QED BY <2>2 DEF Fresh
<1>8. CASE Fails \/ Cancelled \/ Unhold
  <2>1. Raise \/ Exit(None) \/ Exit(IF raised \/ cancel THEN None ELSE _report(results))
          \/ GoOn("settle")
    BY <1>8 DEF Fails, Cancelled, Unhold, Leaves
  <2>2. step' # "connect"
    BY <1>3, <2>1 DEF Exit, GoOn
  <2> QED BY <2>2 DEF Fresh
<1>9. CASE \/ ReadBaseline \/ Drive \/ HoldOver \/ SettleOver \/ ReleaseNext \/ Killed
           \/ Actuate \/ InputEnds \/ (\E r \in Pulsed : PulseReleased(r))
           \/ UNCHANGED vars
  BY <1>9
  DEF ReadBaseline, Drive, HoldOver, SettleOver, ReleaseNext, Killed, Actuate, InputEnds,
      PulseReleased, Leaves, Exit, GoOn, task, vars, Fresh
<1> QED BY <1>4, <1>5, <1>6, <1>7, <1>8, <1>9 DEF Next, _run

LEMMA PassStep == TaskOK /\ WorldOK /\ Fresh /\ PassInv /\ [Next]_vars => PassInv'
<1> SUFFICES ASSUME TaskOK, WorldOK, Fresh, PassInv, [Next]_vars PROVE PassInv'
  OBVIOUS
<1>0. Given
  BY GivenStep
<1>1. ASSUME UNCHANGED <<step, todo, results, raised, code>>,
             step \in {"actuate", "reread"} => Agree'
      PROVE  PassInv'
  <2>1. \A x : Has(todo, x)' <=> Has(todo, x)
    BY <1>1 DEF Has
  <2> QED BY <1>0, <1>1, <2>1 DEF PassInv, Given, AllWired
<1>2. ASSUME UNCHANGED <<step, todo, results, raised, code, baseline, closed>>
      PROVE  PassInv'
  <2>1. Agree => Agree'
    BY <1>0, <1>2 DEF Agree, Channels, Current, Given
  <2> QED BY <1>1, <1>2, <2>1 DEF PassInv
<1>3. CASE Connect
  <2>1. step = "connect" /\ ~raised
    BY <1>3 DEF Connect, PassInv
  <2>2. ASSUME Exit(2) PROVE PassInv'
    <3> DEFINE exitCode == 2
    <3>1. Exit(exitCode) /\ exitCode \in {2, None}
      BY <2>2
    <3> HIDE DEF exitCode
    <3> QED BY <1>0, <3>1, ExitPass
  <2>3. ASSUME todo = <<>>, Cleanup({}, FALSE) PROVE PassInv'
    <3> DEFINE outcomes == {}
    <3>1. Cleanup(outcomes, FALSE) /\ outcomes \subseteq Outcomes
      BY <2>3
    <3>2. ~skip_dis /\ ~transient' /\ outcomes \subseteq {"pass"} => AllWired
      <4>1. \A s : ~Has(<<>>, s)
        BY DEF Has
      <4>2. results = {}
        BY <2>1 DEF Fresh
      <4> QED BY <1>0, <2>1, <2>3, <4>1, <4>2 DEF PassInv, Given, AllWired
    <3> HIDE DEF outcomes
    <3> QED BY <1>0, <3>1, <3>2, CleanupPass
  <2>4. ASSUME GoOn(First(Current)) PROVE PassInv'
    <3>1. step' \in {"baseline", "ready"}
      BY <2>4 DEF GoOn, First
    <3> QED BY <1>0, <2>1, <2>4, <3>1, PlacePass DEF GoOn
  <2> QED BY <1>3, <2>2, <2>3, <2>4 DEF Connect
<1>4. CASE ReadBaseline
  <2>1. /\ step = "baseline" /\ GoOn("actuate") /\ baseline' = Channels
        /\ closed' = closed
    BY <1>4 DEF ReadBaseline
  <2>2. Agree'
    BY <1>0, <2>1 DEF Agree, Channels, Given
  <2> QED BY <1>0, <2>1, <2>2, PlacePass DEF GoOn, PassInv
<1>5. CASE Reread
  <2>1. step = "reread" /\ todo # <<>> /\ Current \in Inputs /\ ~raised /\ Agree
    BY <1>5, StepsListed DEF Reread, TaskOK, FlowInv, PassInv
  <2>2. CASE GoOn("transient")
    BY <1>0, <2>1, <2>2, PlacePass DEF GoOn
  <2>3. ASSUME Changed = {Current}, Outcome("pass") PROVE PassInv'
    <3> DEFINE outcome == "pass"
    <3>1. Outcome(outcome) /\ outcome \in Outcomes /\ wired[Current] = Current
      BY <2>1, <2>3, ChangedWired DEF Outcomes
    <3> HIDE DEF outcome
    <3> QED BY <1>0, <2>1, <3>1, OutcomePass
  <2>4. ASSUME Outcome("fail") PROVE PassInv'
    <3> DEFINE outcome == "fail"
    <3>1. Outcome(outcome) /\ outcome \in Outcomes /\ outcome # "pass"
      BY <2>4 DEF Outcomes
    <3> HIDE DEF outcome
    <3> QED BY <1>0, <2>1, <3>1, OutcomePass
  <2> QED BY <1>5, <2>2, <2>3, <2>4 DEF Reread
<1>6. CASE Drive
  <2>1. /\ step = "drive" /\ step' \in {"settle", "hold"}
        /\ UNCHANGED <<todo, results, raised, code>>
    BY <1>6 DEF Drive
  <2> QED BY <1>0, <2>1, PlacePass DEF PassInv
<1>7. CASE HoldOver
  <2>1. step = "hold" /\ GoOn("unhold")
    BY <1>7 DEF HoldOver
  <2> QED BY <1>0, <2>1, PlacePass DEF PassInv, GoOn
<1>8. CASE Unhold
  <2>1. step = "unhold" /\ (Raise \/ (~raised /\ GoOn("settle")))
    BY <1>8 DEF Unhold
  <2>2. ASSUME ~raised, GoOn("settle") PROVE PassInv'
    BY <1>0, <2>1, <2>2, PlacePass DEF GoOn
  <2> QED BY <1>0, <2>1, <2>2, RaisePass
<1>9. CASE SettleOver
  <2>1. step = "settle" /\ GoOn("confirm")
    BY <1>9 DEF SettleOver
  <2> QED BY <1>0, <2>1, PlacePass DEF PassInv, GoOn
<1>10. CASE ReleaseNext
  <2>1. step = "cleanup"
    BY <1>10 DEF ReleaseNext
  <2>2. CASE UNCHANGED <<step, results, raised, code>>
    BY <1>0, <2>1, <2>2 DEF PassInv, Given, AllWired
  <2> QED BY <1>0, <1>10, <2>1, <2>2, LeavesPass DEF ReleaseNext
<1>11. CASE Fails
  BY <1>0, <1>11, LeavesPass, RaisePass DEF Fails
<1>12. CASE Cancelled
  <2>1. CASE Exit(None)
    BY <1>0, <2>1, ExitPass
  <2> QED BY <1>0, <1>12, <2>1, RaisePass DEF Cancelled
<1>13. CASE Interrupt
  <2>1. CASE Cleanup(results, TRUE)
    <3> DEFINE exception == TRUE
    <3>1. Cleanup(results, exception) /\ exception /\ results \subseteq Outcomes
      BY <2>1 DEF TaskOK
    <3> HIDE DEF exception
    <3> QED BY <1>0, <3>1, CleanupPass
  <2>2. CASE UNCHANGED <<step, todo, results, raised, code>>
    BY <1>2, <1>13, <2>2 DEF Interrupt
  <2> QED BY <1>13, <2>1, <2>2 DEF Interrupt
<1>14. CASE Killed
  BY <1>0, <1>14, ExitPass DEF Killed
<1>15. CASE Actuate
  <2>1. Agree' /\ UNCHANGED <<step, todo, results, raised, code>>
    BY <1>0, <1>15, ActuateAgrees DEF Actuate, task
  <2> QED BY <1>1, <2>1
<1>16. ASSUME NEW r \in Pulsed, PulseReleased(r) PROVE PassInv'
  BY <1>2, <1>16 DEF PulseReleased, task
<1>17. CASE InputEnds \/ UNCHANGED vars
  BY <1>2, <1>17 DEF InputEnds, vars, task
<1> QED
  BY <1>0, <1>3, <1>4, <1>5, <1>6, <1>7, <1>8, <1>9, <1>10, <1>11, <1>12, <1>13, <1>14,
     <1>15, <1>16, <1>17, PassAnswer DEF Next, _run

\* Exit code 0 after checking the inputs vouches for their wiring, whatever
\* levels the signals start from and however often each is actuated, unless the
\* operator vouched for an actuation that no read saw.
THEOREM PassVouches == Spec => []PassMeansWired
<1>1. PassInv => PassMeansWired
  BY DEF PassInv, AllWired, PassMeansWired
<1> QED BY <1>1, TypeInit, TaskStep, WorldStep, FreshInit, FreshStep, PassInit,
     PassStep, PTL DEF Spec
=============================================================================
