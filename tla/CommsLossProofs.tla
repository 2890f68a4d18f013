--------------------------- MODULE CommsLossProofs ---------------------------
(****************************************************************************)
(* Proofs about CommsLoss, for every set of connections, every timeout,      *)
(* every number of retries and every queue bound.                            *)
(****************************************************************************)
EXTENDS CommsLoss, SequenceTheorems, TLAPS

------------------------------------------------------------------------------
(* The queue of writes.                                                      *)

\* The queued write at the head, and what serving it leaves: the entries of
\* the tail are the entries of the queue, one place further.
LEMMA Serve ==
    ASSUME TypeOK, bus # <<>>
    PROVE  /\ Head(bus) \in Request
           /\ Head(bus) = bus[1]
           /\ 1 \in 1..Len(bus)
           /\ Tail(bus) \in Seq(Request)
           /\ Len(Tail(bus)) = Len(bus) - 1
           /\ Len(bus) \in Nat
           /\ \A i \in 1..Len(Tail(bus)) : /\ Tail(bus)[i] = bus[i + 1]
                                           /\ i + 1 \in 1..Len(bus)
  <1>1. bus \in Seq(Request)
    BY DEF TypeOK
  <1>2. /\ Head(bus) \in Request
        /\ Tail(bus) \in Seq(Request)
        /\ Len(Tail(bus)) = Len(bus) - 1
        /\ \A i \in 1..Len(Tail(bus)) : Tail(bus)[i] = bus[i + 1]
    BY <1>1, HeadTailProperties
  <1>3. Len(bus) \in Nat /\ Len(bus) # 0 /\ Head(bus) = bus[1]
    BY <1>1
  <1>4. QED
    BY <1>2, <1>3

\* Writes are requests: a new one, and one that queues again.
LEMMA WriteIsRequest ==
    ASSUME NEW src \in {"command", "watchdog"}, NEW r \in Relays,
           NEW on \in BOOLEAN
    PROVE  Write(src, r, on) \in Request
  BY ConstantsAssumption DEF Write, Request, ConstantsAssumption

\* A write that queues again after a time-out, with one more try on record, is
\* still a request.
LEMMA RetryIsRequest ==
    ASSUME NEW req \in Request, req.tries < Retries
    PROVE  [req EXCEPT !.tries = @ + 1] \in Request
  <1>1. req.tries + 1 \in 0..Retries
    BY ConstantsAssumption DEF Request, ConstantsAssumption
  <1>2. QED
    BY <1>1 DEF Request

\* Serving a request keeps the relays well-typed, whether it was applied or
\* not.
LEMMA ApplyTyped ==
    ASSUME TypeOK, NEW req \in Request, NEW applied, Apply(req, applied)
    PROVE  relay' \in [Relays -> BOOLEAN]
  BY DEF TypeOK, Apply, Request

\* A write that failed either left the relays alone or was applied first.
LEMMA FailsApplies ==
    ASSUME NEW req, Fails(req)
    PROVE  \E applied \in BOOLEAN : Apply(req, applied)
  BY DEF Fails

------------------------------------------------------------------------------
(* Type correctness.                                                         *)

\* Hearing a request resets the silence to a value of its range.
LEMMA NoSilence == 0 \in 0..MaxSilence
  <1>1. MaxSilence \in Nat
    BY ConstantsAssumption DEF MaxSilence, ConstantsAssumption
  <1>2. QED
    BY <1>1

\* Whatever request a connection makes, note_request keeps the tracker and the
\* watchdog's variables well-typed.
LEMMA TrackerTyped ==
    ASSUME TypeOK, NEW c \in Conns, NEW cmdWrite \in BOOLEAN,
           note_request(c, cmdWrite)
    PROVE  /\ commander' \in Conns \cup {None}
           /\ silence' \in 0..MaxSilence
           /\ released' \in BOOLEAN
           /\ commanderGone' \in BOOLEAN
  <1>1. commander' \in Conns \cup {None}
    BY DEF note_request, TypeOK
  <1>2. CASE Rearms(c, cmdWrite)
    <2>1. note_modbus_read BY <1>2 DEF note_request
    <2>2. QED
      BY <1>1, <2>1, NoSilence DEF note_modbus_read
  <1>3. CASE ~Rearms(c, cmdWrite)
    <2>1. UNCHANGED watchdog BY <1>3 DEF note_request
    <2>2. QED BY <1>1, <2>1 DEF watchdog, TypeOK
  <1>4. QED BY <1>2, <1>3

\* Every step, of a client, the watchdog, the write queue or the sampling loop,
\* keeps the types.
LEMMA TypeStep == TypeOK /\ [Next]_vars => TypeOK'
  <1> SUFFICES ASSUME TypeOK, [Next]_vars PROVE TypeOK'
    OBVIOUS
  <1> USE ConstantsAssumption DEF ConstantsAssumption
  <1>1. ASSUME NEW c \in Conns, Read(c) PROVE TypeOK'
    <2>1. note_request(c, FALSE) BY <1>1 DEF Read
    <2>2. opQuiet' \in 0..MaxSilence BY <1>1, NoSilence DEF Read, TypeOK
    <2>3. QED BY <1>1, <2>1, <2>2, TrackerTyped DEF Read, TypeOK
  <1>2. ASSUME NEW c \in Conns, RejectedCommand(c) PROVE TypeOK'
    <2>1. note_request(c, TRUE) BY <1>2 DEF RejectedCommand
    <2>2. QED
      BY <1>2, <2>1, TrackerTyped, NoSilence DEF RejectedCommand, TypeOK
  <1>3. ASSUME NEW c \in Conns, NEW r \in Relays, NEW on \in BOOLEAN,
               Command(c, r, on) \/ MaskedCommand(c, r, on)
        PROVE  TypeOK'
    <2>1. PICK cmdWrite \in BOOLEAN : note_request(c, cmdWrite)
      BY <1>3 DEF Command, MaskedCommand
    <2>2. Queued(r, on) /\ opQuiet' \in 0..MaxSilence
      BY <1>3, NoSilence DEF Command, MaskedCommand, TypeOK
    <2>3. Write("command", r, on) \in Request BY WriteIsRequest
    <2>4. bus' \in Seq(Request)
      BY <2>2, <2>3, AppendProperties DEF Queued, TypeOK
    <2>5. exposed' \in BOOLEAN BY <2>2 DEF Queued, TypeOK
    <2>6. QED
      BY <2>1, <2>2, <2>4, <2>5, TrackerTyped DEF Queued, TypeOK
  <1>4. ASSUME NEW c \in Conns, note_disconnect(c) PROVE TypeOK'
    BY <1>4 DEF note_disconnect, note_commander_lost, TypeOK
  <1>5. CASE Tick
    <2>1. Advance(silence) \in 0..MaxSilence /\ Advance(opQuiet) \in 0..MaxSilence
      BY DEF TypeOK, Advance, MaxSilence
    <2>2. QED BY <1>5, <2>1 DEF Tick, TypeOK, WdStates
  <1>6. CASE CheckIdle
    BY <1>6 DEF CheckIdle, TypeOK, watchdog, history, WdStates
  <1>7. CASE CheckFires
    <2>1. Write("watchdog", "inhibit", FALSE) \in Request
      BY WriteIsRequest DEF Relays
    <2>2. bus' \in Seq(Request)
      BY <1>7, <2>1, AppendProperties DEF CheckFires, TypeOK
    <2>3. exposed' \in BOOLEAN BY <1>7 DEF CheckFires, Asserting
    <2>4. QED
      BY <1>7, <2>2, <2>3
      DEF CheckFires, TypeOK, watchdog, WdStates, Relays, AllReleased
  <1>8. CASE Retry
    <2>1. bus # <<>> BY <1>8 DEF Retry
    <2>2. Head(bus) \in Request /\ Tail(bus) \in Seq(Request) BY <2>1, Serve
    <2>3. [Head(bus) EXCEPT !.tries = @ + 1] \in Request
      BY <1>8, <2>2, RetryIsRequest DEF Retry
    <2>4. bus' \in Seq(Request)
      BY <1>8, <2>2, <2>3, AppendProperties DEF Retry
    <2>5. relay' \in [Relays -> BOOLEAN]
      BY <1>8, <2>2, ApplyTyped DEF Retry
    <2>6. QED BY <1>8, <2>4, <2>5 DEF Retry, TypeOK, watchdog, history
  <1>9. CASE CommandDone
    <2>1. Head(bus) \in Request /\ Tail(bus) \in Seq(Request)
      BY <1>9, Serve DEF CommandDone, Serving
    <2>2. relay' \in [Relays -> BOOLEAN]
      BY <1>9, <2>1, ApplyTyped DEF CommandDone
    <2>3. QED BY <1>9, <2>1, <2>2 DEF CommandDone, TypeOK, watchdog, history
  <1>10. CASE CommandFailed
    <2>1. Head(bus) \in Request /\ Tail(bus) \in Seq(Request)
      BY <1>10, Serve DEF CommandFailed, Serving
    <2>2. relay' \in [Relays -> BOOLEAN]
      BY <1>10, <2>1, ApplyTyped, FailsApplies DEF CommandFailed
    <2>3. QED BY <1>10, <2>1, <2>2 DEF CommandFailed, TypeOK, watchdog, history
  <1>11. CASE InhibitReleased
    <2>1. Head(bus) \in Request /\ Tail(bus) \in Seq(Request)
      BY <1>11, Serve DEF InhibitReleased, Serving
    <2>2. relay' \in [Relays -> BOOLEAN]
      BY <1>11, <2>1, ApplyTyped DEF InhibitReleased
    <2>3. Write("watchdog", "force_transfer", FALSE) \in Request
      BY WriteIsRequest DEF Relays
    <2>4. bus' \in Seq(Request)
      BY <1>11, <2>1, <2>3, AppendProperties DEF InhibitReleased
    <2>5. QED
      BY <1>11, <2>2, <2>4
      DEF InhibitReleased, TypeOK, watchdog, history, WdStates, Relays
  <1>12. CASE ReleaseDone
    <2>1. Head(bus) \in Request /\ Tail(bus) \in Seq(Request)
      BY <1>12, Serve DEF ReleaseDone, Serving
    <2>2. relay' \in [Relays -> BOOLEAN]
      BY <1>12, <2>1, ApplyTyped DEF ReleaseDone
    <2>3. QED
      BY <1>12, <2>1, <2>2 DEF ReleaseDone, TypeOK, history, WdStates
  <1>13. CASE ReleaseFailed
    <2>1. Head(bus) \in Request /\ Tail(bus) \in Seq(Request)
      BY <1>13, Serve DEF ReleaseFailed, Serving
    <2>2. relay' \in [Relays -> BOOLEAN]
      BY <1>13, <2>1, ApplyTyped, FailsApplies DEF ReleaseFailed
    <2>3. QED
      BY <1>13, <2>1, <2>2 DEF ReleaseFailed, TypeOK, watchdog, history, WdStates
  <1>14. CASE ReadOutputs
    BY <1>14 DEF ReadOutputs, TypeOK, watchdog, history
  <1>15. CASE ApplyOutputs
    BY <1>15 DEF ApplyOutputs, TypeOK, watchdog, history
  <1>16. CASE UNCHANGED vars
    BY <1>16 DEF vars, TypeOK, watchdog, history
  <1>17. QED
    BY <1>1, <1>2, <1>3, <1>4, <1>5, <1>6, <1>7, <1>8, <1>9, <1>10, <1>11,
       <1>12, <1>13, <1>14, <1>15, <1>16
    DEF Next, Client

\* Every variable keeps its type, in every reachable state.
THEOREM TypeCorrect == Spec => []TypeOK
  <1>1. Init => TypeOK
    <2>1. <<>> \in Seq(Request) OBVIOUS
    <2>2. QED
      BY <2>1, NoSilence DEF Init, TypeOK, WdStates, Relays, AllReleased
  <1>2. QED
    BY <1>1, TypeStep, PTL DEF Spec

------------------------------------------------------------------------------
(* The timer.                                                                *)

\* While a commander is connected the watchdog's timer is that connection's
\* silence (bystanders count for nothing) and no drop is pending; and the
\* watchdog only sleeps on a silence it has handled.
TimerInv ==
    /\ commander # None => silence = opQuiet
    /\ commanderGone => commander = None
    /\ wd = "sleep" /\ silence > Timeout => released

\* Every step keeps the timer invariant; a bystander's request, in particular,
\* leaves the silence of a connected commander alone.
LEMMA TimerStep == TypeOK /\ TimerInv /\ [Next]_vars => TimerInv'
  <1> SUFFICES ASSUME TypeOK, TimerInv, [Next]_vars PROVE TimerInv'
    OBVIOUS
  <1>0. Timeout \in Nat /\ None \notin Conns /\ ~(0 > Timeout)
    BY ConstantsAssumption DEF ConstantsAssumption
  <1>1. ASSUME NEW c \in Conns, Read(c) PROVE TimerInv'
    <2>1. CASE Rearms(c, FALSE)
      BY <1>0, <1>1, <2>1
      DEF Read, note_request, note_modbus_read, Rearms, TimerInv
    <2>2. CASE ~Rearms(c, FALSE)
      BY <1>1, <2>2 DEF Read, note_request, watchdog, Rearms, TimerInv
    <2>3. QED BY <2>1, <2>2
  <1>2. ASSUME NEW c \in Conns, RejectedCommand(c) PROVE TimerInv'
    BY <1>0, <1>2
    DEF RejectedCommand, note_request, Rearms, note_modbus_read, TimerInv
  <1>3. ASSUME NEW c \in Conns, NEW r \in Relays, NEW on \in BOOLEAN,
               Command(c, r, on)
        PROVE  TimerInv'
    BY <1>0, <1>3
    DEF Command, Queued, note_request, Rearms, note_modbus_read, TimerInv
  <1>d. ASSUME NEW c \in Conns, NEW r \in Relays, NEW on \in BOOLEAN,
               MaskedCommand(c, r, on)
        PROVE  TimerInv'
    <2>1. CASE Rearms(c, FALSE)
      BY <1>0, <1>d, <2>1
      DEF MaskedCommand, Queued, note_request, note_modbus_read, Rearms, TimerInv
    <2>2. CASE ~Rearms(c, FALSE)
      BY <1>d, <2>2
      DEF MaskedCommand, Queued, note_request, watchdog, Rearms, TimerInv
    <2>3. QED BY <2>1, <2>2
  <1>4. ASSUME NEW c \in Conns, note_disconnect(c) PROVE TimerInv'
    BY <1>4 DEF note_disconnect, note_commander_lost, TimerInv
  <1>5. CASE Tick
    BY <1>5 DEF Tick, TimerInv
  <1>6. CASE CheckIdle
    BY <1>6 DEF CheckIdle, CommsLost, TimerInv, watchdog, history
  <1>7. CASE CheckFires
    BY <1>7 DEF CheckFires, TimerInv, watchdog
  <1>8. CASE Retry
    BY <1>8 DEF Retry, TimerInv, watchdog, history
  <1>9. CASE CommandDone
    BY <1>9 DEF CommandDone, TimerInv, watchdog, history
  <1>a. CASE CommandFailed
    BY <1>a DEF CommandFailed, TimerInv, watchdog, history
  <1>b. CASE InhibitReleased
    BY <1>b DEF InhibitReleased, TimerInv, watchdog, history
  <1>c. CASE ReleaseFailed
    BY <1>c DEF ReleaseFailed, TimerInv, watchdog, history
  <1>10. CASE ReleaseDone
    BY <1>10 DEF ReleaseDone, TimerInv, history
  <1>11. CASE ReadOutputs \/ ApplyOutputs
    BY <1>11 DEF ReadOutputs, ApplyOutputs, TimerInv, watchdog, history
  <1>12. CASE UNCHANGED vars
    BY <1>12 DEF vars, TimerInv, watchdog, history
  <1>13. QED
    BY <1>1, <1>2, <1>3, <1>4, <1>5, <1>6, <1>7, <1>8, <1>9, <1>10, <1>11,
       <1>12, <1>a, <1>b, <1>c, <1>d
    DEF Next, Client

\* The timer invariant holds in every reachable state.
LEMMA TimerInvariant == Spec => [](TypeOK /\ TimerInv)
  <1>1. Init => TimerInv
    BY ConstantsAssumption DEF Init, TimerInv, ConstantsAssumption
  <1>2. QED
    BY <1>1, TimerStep, TypeCorrect, PTL DEF Spec

\* CHANGELOG C-1: a bystander cannot keep a silent operator's command alive.
\* With the commanding connection up and unheard for longer than the window,
\* the watchdog does not sleep on a check that neither released nor failed.
THEOREM ReleasesOnTime == Spec => []OnTime
  <1>1. TimerInv => OnTime
    BY DEF TimerInv, OnTime
  <1>2. QED
    BY <1>1, TimerInvariant, PTL

\* A check never releases under a commander that was heard in the window.
THEOREM ReleasesOnlyOnLoss == Spec => NoSpuriousRelease
  <1>1. TimerInv /\ CheckFires => (commander # None => opQuiet > Timeout)
    BY DEF TimerInv, CheckFires, CommsLost
  <1>2. TimerInv /\ [Next]_vars
          => [CheckFires => (commander # None => opQuiet > Timeout)]_vars
    BY <1>1
  <1>3. QED
    BY <1>2, TimerInvariant, PTL DEF Spec, NoSpuriousRelease

------------------------------------------------------------------------------
(* The release.                                                              *)

\* q holds no write of the watchdog.
NoRelease(q) == \A i \in 1..Len(q) : q[i].src # "watchdog"

\* q holds at most one write of the watchdog, an OFF for the relay run() is at.
OneRelease(q, at) ==
    /\ \A i \in 1..Len(q) :
         q[i].src = "watchdog" => ~q[i].on /\ q[i].relay = at
    /\ \A i, j \in 1..Len(q) :
         q[i].src = "watchdog" /\ q[j].src = "watchdog" => i = j

\* Without exposure nothing queued asserts, so a relay the release has passed
\* stays off.
ReleaseInv ==
    /\ OneRelease(bus, wd)
    /\ ~exposed => ~Asserting(bus)
    /\ ~exposed /\ wd = "force_transfer" => ~relay["inhibit"]
    /\ LatchHonest

\* Requests other than command writes, time and sampling leave the queue, the
\* relays, the watchdog's place and the exposure alone.
LEMMA ReleaseUntouched ==
    ASSUME ReleaseInv, UNCHANGED <<bus, relay, wd, exposed>>,
           released' => released
    PROVE  ReleaseInv'
  BY DEF ReleaseInv, LatchHonest, Asserting, OneRelease

\* Serving any write keeps the relays a release has passed off.
LEMMA NothingAsserted ==
    ASSUME TypeOK, ReleaseInv, ~exposed, bus # <<>>,
           NEW applied \in BOOLEAN, Apply(Head(bus), applied)
    PROVE  /\ ~Head(bus).on
           /\ \A r \in Relays : ~relay[r] => ~relay'[r]
           /\ applied => ~relay'[Head(bus).relay]
  <1>1. Head(bus) \in Request /\ Head(bus) = bus[1] /\ 1 \in 1..Len(bus)
    BY Serve
  <1>2. ~Head(bus).on
    BY <1>1 DEF ReleaseInv, Asserting
  <1>3. Head(bus).relay \in Relays /\ relay \in [Relays -> BOOLEAN]
    BY <1>1 DEF TypeOK, Request
  <1>4. QED
    BY <1>2, <1>3 DEF Apply

\* Dropping the head of the queue keeps what holds of every queued write; if
\* the head was the watchdog's, none of the watchdog's is left.
LEMMA QueueServed ==
    ASSUME TypeOK, ReleaseInv, bus # <<>>
    PROVE  /\ OneRelease(Tail(bus), wd)
           /\ Asserting(Tail(bus)) => Asserting(bus)
           /\ Head(bus).on => Asserting(bus)
           /\ Head(bus).src = "watchdog" => /\ ~Head(bus).on
                                            /\ Head(bus).relay = wd
                                            /\ NoRelease(Tail(bus))
  <1> DEFINE q == Tail(bus)
  <1>1. /\ Head(bus) = bus[1]
        /\ 1 \in 1..Len(bus)
        /\ Len(q) = Len(bus) - 1
        /\ Len(bus) \in Nat
        /\ \A i \in 1..Len(q) : q[i] = bus[i + 1] /\ i + 1 \in 1..Len(bus)
    BY Serve
  <1> HIDE DEF q
  <1>2. \A i \in 1..Len(q) : i + 1 # 1
    BY <1>1
  <1>3. Head(bus).src = "watchdog"
          => ~Head(bus).on /\ Head(bus).relay = wd /\ NoRelease(q)
    BY <1>1, <1>2 DEF ReleaseInv, OneRelease, NoRelease
  <1>4. ASSUME NEW i \in 1..Len(q), NEW j \in 1..Len(q),
               q[i].src = "watchdog", q[j].src = "watchdog"
        PROVE  i = j
    <2>1. i + 1 = j + 1
      BY <1>1, <1>4 DEF ReleaseInv, OneRelease
    <2>2. QED BY <1>1, <2>1
  <1>5. OneRelease(q, wd)
    <2>1. \A i \in 1..Len(q) :
            q[i].src = "watchdog" => ~q[i].on /\ q[i].relay = wd
      BY <1>1 DEF ReleaseInv, OneRelease
    <2>2. QED BY <1>4, <2>1 DEF OneRelease
  <1>6. /\ Asserting(q) => Asserting(bus)
        /\ Head(bus).on => Asserting(bus)
    BY <1>1 DEF Asserting
  <1>7. QED
    BY <1>3, <1>5, <1>6 DEF q

\* A queue without a release of the watchdog's has at most one.
LEMMA NoReleaseIsOne ==
    ASSUME NEW q, NoRelease(q), NEW at
    PROVE  OneRelease(q, at)
  BY DEF NoRelease, OneRelease

\* Queueing a write keeps what holds of every queued write, if the write is
\* not the watchdog's or is the only one of the watchdog's.
LEMMA QueueAppended ==
    ASSUME NEW q \in Seq(Request), NEW w \in Request, NEW at,
           OneRelease(q, at),
           w.src = "watchdog" => ~w.on /\ w.relay = at /\ NoRelease(q)
    PROVE  /\ OneRelease(Append(q, w), at)
           /\ Asserting(Append(q, w)) => Asserting(q) \/ w.on
  <1> DEFINE p == Append(q, w)
  <1>1. /\ Len(p) = Len(q) + 1
        /\ \A i \in 1..Len(q) : p[i] = q[i]
        /\ p[Len(q) + 1] = w
        /\ Len(q) \in Nat
    BY AppendProperties
  <1> HIDE DEF p
  <1>2. \A i \in 1..Len(p) : i \in 1..Len(q) \/ i = Len(q) + 1
    BY <1>1
  <1>3. OneRelease(p, at)
    BY <1>1, <1>2 DEF OneRelease, NoRelease
  <1>4. Asserting(p) => Asserting(q) \/ w.on
    BY <1>1, <1>2 DEF Asserting
  <1>5. QED
    BY <1>3, <1>4 DEF p

\* A latched release stays true while no relay rises.
LEMMA LatchKept ==
    ASSUME relay' \in [Relays -> BOOLEAN], LatchHonest,
           UNCHANGED <<released, exposed>>,
           ~exposed => \A r \in Relays : ~relay[r] => ~relay'[r]
    PROVE  LatchHonest'
  <1> SUFFICES ASSUME released, ~exposed PROVE relay' = AllReleased
    BY DEF LatchHonest
  <1>1. \A r \in Relays : ~relay[r]
    BY DEF LatchHonest, AllReleased
  <1>2. QED
    BY <1>1 DEF AllReleased

\* What serving a write that is not followed by another one keeps, when the
\* latch does not move.
LEMMA ServedKeeps ==
    ASSUME TypeOK, relay' \in [Relays -> BOOLEAN], ReleaseInv, bus # <<>>,
           bus' = Tail(bus), UNCHANGED <<released, exposed>>,
           wd' = wd \/ (Head(bus).src = "watchdog" /\ wd' = "failed"),
           NEW applied \in BOOLEAN, Apply(Head(bus), applied)
    PROVE  ReleaseInv'
  <1>1. ~exposed => \A r \in Relays : ~relay[r] => ~relay'[r]
    BY NothingAsserted
  <1>2. LatchHonest'
    BY <1>1, LatchKept DEF ReleaseInv
  <1>3. OneRelease(bus', wd')
    BY QueueServed, NoReleaseIsOne
  <1>4. Asserting(bus') => Asserting(bus)
    BY QueueServed
  <1>5. wd' = "force_transfer" => wd = "force_transfer"
    OBVIOUS
  <1>6. (~exposed /\ wd = "force_transfer" => ~relay["inhibit"])'
    BY <1>1, <1>5 DEF ReleaseInv, Relays
  <1>7. (~exposed => ~Asserting(bus))'
    BY <1>4 DEF ReleaseInv, Asserting
  <1>8. (OneRelease(bus, wd))'
    BY <1>3 DEF OneRelease
  <1>9. QED
    BY <1>2, <1>6, <1>7, <1>8 DEF ReleaseInv

\* Every step keeps the release invariant: the queue holds the one write the
\* watchdog awaits, and what a release has passed stays off unless exposed.
LEMMA ReleaseStep == TypeOK /\ ReleaseInv /\ [Next]_vars => ReleaseInv'
  <1> SUFFICES ASSUME TypeOK, ReleaseInv, [Next]_vars PROVE ReleaseInv'
    OBVIOUS
  <1>0. bus \in Seq(Request) /\ relay' \in [Relays -> BOOLEAN]
    BY TypeStep DEF TypeOK
  <1>1. ASSUME NEW c \in Conns, Read(c) PROVE ReleaseInv'
    <2>1. note_request(c, FALSE) BY <1>1 DEF Read
    <2>2. released' => released
      BY <2>1 DEF note_request, note_modbus_read, watchdog
    <2>3. QED BY <1>1, <2>2, ReleaseUntouched DEF Read
  <1>2. ASSUME NEW c \in Conns, RejectedCommand(c) PROVE ReleaseInv'
    <2>1. note_request(c, TRUE) BY <1>2 DEF RejectedCommand
    <2>2. released' => released
      BY <2>1 DEF note_request, note_modbus_read, watchdog
    <2>3. QED BY <1>2, <2>2, ReleaseUntouched DEF RejectedCommand
  <1>3. ASSUME NEW c \in Conns, NEW r \in Relays, NEW on \in BOOLEAN,
               Command(c, r, on) \/ MaskedCommand(c, r, on)
        PROVE  ReleaseInv'
    <2> DEFINE w == Write("command", r, on)
    <2>0. Queued(r, on) BY <1>3 DEF Command, MaskedCommand
    <2>1. w \in Request BY WriteIsRequest
    <2>2. w.src # "watchdog" /\ w.on = on BY DEF Write
    <2>3. bus' = Append(bus, w) BY <2>0 DEF Queued
    <2> HIDE DEF w
    <2>4. OneRelease(bus', wd) /\ (Asserting(bus') => Asserting(bus) \/ on)
      BY <1>0, <2>1, <2>2, <2>3, QueueAppended DEF ReleaseInv
    <2>5. (~exposed => ~Asserting(bus))'
      BY <2>0, <2>4 DEF Queued, ReleaseInv, Asserting
    <2>6. PICK cmdWrite \in BOOLEAN : note_request(c, cmdWrite)
      BY <1>3 DEF Command, MaskedCommand
    <2>7. released' => released
      BY <2>6 DEF note_request, note_modbus_read, watchdog
    <2>8. LatchHonest'
      BY <2>0, <2>7 DEF Queued, LatchHonest, ReleaseInv
    <2>9. (~exposed /\ wd = "force_transfer" => ~relay["inhibit"])'
      BY <2>0 DEF Queued, ReleaseInv
    <2>10. (OneRelease(bus, wd))' BY <2>0, <2>4 DEF Queued, OneRelease
    <2>11. QED
      BY <2>5, <2>8, <2>9, <2>10 DEF ReleaseInv
  <1>4. ASSUME NEW c \in Conns, note_disconnect(c) PROVE ReleaseInv'
    BY <1>4, ReleaseUntouched DEF note_disconnect, note_commander_lost
  <1>5. CASE Tick
    <2>1. \A i \in 1..Len(bus) : bus[i].src = "watchdog" => wd' = wd
      <3>1. \A i \in 1..Len(bus) : bus[i] \in Request BY <1>0
      <3>2. \A i \in 1..Len(bus) : bus[i].src = "watchdog" => wd \in Relays
        BY <3>1 DEF ReleaseInv, OneRelease, Request
      <3>3. QED BY <1>5, <3>2 DEF Tick, Relays
    <2>2. wd' = "force_transfer" => wd = "force_transfer"
      BY <1>5 DEF Tick
    <2>3. UNCHANGED <<bus, relay, exposed, released>>
      BY <1>5 DEF Tick
    <2>4. QED
      BY <2>1, <2>2, <2>3 DEF ReleaseInv, OneRelease, LatchHonest, Asserting
  <1>6. ASSUME wd = "due" PROVE NoRelease(bus)
    <2>1. \A i \in 1..Len(bus) : bus[i] \in Request BY <1>0
    <2>2. QED
      BY <1>6, <2>1 DEF ReleaseInv, OneRelease, NoRelease, Request, Relays
  <1>7. CASE CheckIdle
    <2>1. NoRelease(bus) BY <1>6, <1>7 DEF CheckIdle
    <2>2. UNCHANGED <<bus, relay, exposed, released>> /\ wd' = "sleep"
      BY <1>7 DEF CheckIdle, watchdog, history
    <2>3. (OneRelease(bus, wd))' BY <2>1, <2>2 DEF NoRelease, OneRelease
    <2>4. QED BY <2>2, <2>3 DEF ReleaseInv, LatchHonest, Asserting
  <1>17. CASE CheckFires
    <2> DEFINE w == Write("watchdog", "inhibit", FALSE)
    <2>1. w \in Request /\ w.src = "watchdog" /\ ~w.on /\ w.relay = "inhibit"
      BY WriteIsRequest DEF Write, Relays
    <2>2. NoRelease(bus) BY <1>6, <1>17 DEF CheckFires
    <2>3. bus' = Append(bus, w) /\ wd' = "inhibit" /\ exposed' = Asserting(bus)
          /\ released' = released /\ ~released
      BY <1>17 DEF CheckFires, watchdog
    <2> HIDE DEF w
    <2>4. OneRelease(bus', wd') /\ (Asserting(bus') => Asserting(bus))
      BY <1>0, <2>1, <2>2, <2>3, NoReleaseIsOne, QueueAppended
    <2>5. (OneRelease(bus, wd))' BY <2>4 DEF OneRelease
    <2>6. QED
      BY <2>3, <2>4, <2>5 DEF ReleaseInv, LatchHonest, Asserting
  <1>8. CASE Retry
    <2> DEFINE w == [Head(bus) EXCEPT !.tries = @ + 1]
               q == Tail(bus)
    <2>1. bus # <<>> /\ Head(bus).tries < Retries /\ bus' = Append(q, w)
      BY <1>8 DEF Retry
    <2>2. PICK applied \in BOOLEAN : Apply(Head(bus), applied)
      BY <1>8 DEF Retry
    <2>3. UNCHANGED <<wd, exposed, released>>
      BY <1>8 DEF Retry, watchdog, history
    <2>4. ~exposed => \A r \in Relays : ~relay[r] => ~relay'[r]
      BY <2>1, <2>2, NothingAsserted
    <2>5. Head(bus) \in Request /\ q \in Seq(Request)
      BY <2>1, Serve
    <2>6. w \in Request BY <2>1, <2>5, RetryIsRequest
    <2>7. w.src = Head(bus).src /\ w.on = Head(bus).on
          /\ w.relay = Head(bus).relay
      BY <2>5 DEF Request
    <2>8. /\ OneRelease(q, wd)
          /\ Asserting(q) => Asserting(bus)
          /\ w.on => Asserting(bus)
          /\ w.src = "watchdog" => ~w.on /\ w.relay = wd /\ NoRelease(q)
      BY <2>1, <2>7, QueueServed
    <2> HIDE DEF w, q
    <2>9. OneRelease(bus', wd) /\ (Asserting(bus') => Asserting(bus))
      <3>1. Asserting(Append(q, w)) => Asserting(q) \/ w.on
        BY <2>5, <2>6, <2>8, QueueAppended
      <3>2. OneRelease(Append(q, w), wd)
        BY <2>5, <2>6, <2>8, QueueAppended
      <3>3. QED BY <2>1, <2>8, <3>1, <3>2
    <2>10. (OneRelease(bus, wd))' BY <2>3, <2>9 DEF OneRelease
    <2>11. LatchHonest'
      BY <1>0, <2>3, <2>4, LatchKept DEF ReleaseInv
    <2>12. QED
      BY <2>3, <2>4, <2>9, <2>10, <2>11 DEF ReleaseInv, Relays, Asserting
  <1>9. CASE CommandDone \/ CommandFailed
    <2>1. bus # <<>> /\ bus' = Tail(bus)
      BY <1>9 DEF CommandDone, CommandFailed, Serving
    <2>2. PICK applied \in BOOLEAN : Apply(Head(bus), applied)
      BY <1>9, FailsApplies DEF CommandDone, CommandFailed
    <2>3. UNCHANGED <<wd, exposed, released>>
      BY <1>9 DEF CommandDone, CommandFailed, watchdog, history
    <2>4. QED
      BY <1>0, <2>1, <2>2, <2>3, ServedKeeps
  <1>10. CASE InhibitReleased
    <2> DEFINE w == Write("watchdog", "force_transfer", FALSE)
               q == Tail(bus)
    <2>1. bus # <<>> /\ bus' = Append(q, w) /\ Apply(Head(bus), TRUE)
          /\ Head(bus).src = "watchdog" /\ Head(bus).relay = "inhibit"
      BY <1>10 DEF InhibitReleased, Serving
    <2>2. wd' = "force_transfer" /\ UNCHANGED <<exposed, released>>
      BY <1>10 DEF InhibitReleased, watchdog, history
    <2>3. w \in Request /\ w.src = "watchdog" /\ ~w.on
          /\ w.relay = "force_transfer"
      BY WriteIsRequest DEF Write, Relays
    <2>4. q \in Seq(Request) BY <2>1, Serve
    <2>5. NoRelease(q) /\ (Asserting(q) => Asserting(bus))
      BY <2>1, QueueServed
    <2>6. ~exposed => /\ ~relay'["inhibit"]
                      /\ \A r \in Relays : ~relay[r] => ~relay'[r]
      BY <2>1, NothingAsserted
    <2> HIDE DEF w, q
    <2>7. OneRelease(bus', wd') /\ (Asserting(bus') => Asserting(q))
      BY <2>1, <2>2, <2>3, <2>4, <2>5, NoReleaseIsOne, QueueAppended
    <2>8. LatchHonest'
      BY <1>0, <2>2, <2>6, LatchKept DEF ReleaseInv
    <2>9. QED
      <3>1. (OneRelease(bus, wd))' BY <2>7 DEF OneRelease
      <3>2. QED
        BY <2>2, <2>5, <2>6, <2>7, <2>8, <3>1 DEF ReleaseInv, Asserting
  <1>11. CASE ReleaseDone
    <2>1. bus # <<>> /\ bus' = Tail(bus) /\ Apply(Head(bus), TRUE)
          /\ Head(bus).src = "watchdog" /\ Head(bus).relay = "force_transfer"
      BY <1>11 DEF ReleaseDone, Serving
    <2>2. wd' = "sleep" /\ exposed' = exposed
      BY <1>11 DEF ReleaseDone, history
    <2>3. /\ NoRelease(bus')
          /\ Asserting(bus') => Asserting(bus)
          /\ wd = "force_transfer"
      BY <2>1, QueueServed
    <2>4. ~exposed => ~relay'["force_transfer"] /\ ~relay'["inhibit"]
      BY <2>1, <2>3, NothingAsserted DEF ReleaseInv, Relays
    <2>5. ~exposed => relay' = AllReleased
      BY <1>0, <2>4 DEF AllReleased, Relays
    <2>6. QED
      <3>1. (OneRelease(bus, wd))' BY <2>3 DEF NoRelease, OneRelease
      <3>2. QED
        BY <2>2, <2>3, <2>5, <3>1 DEF ReleaseInv, LatchHonest, Asserting
  <1>12. CASE ReleaseFailed
    <2>1. bus # <<>> /\ bus' = Tail(bus) /\ Head(bus).src = "watchdog"
      BY <1>12 DEF ReleaseFailed, Serving
    <2>2. PICK applied \in BOOLEAN : Apply(Head(bus), applied)
      BY <1>12, FailsApplies DEF ReleaseFailed
    <2>3. wd' = "failed" /\ UNCHANGED <<exposed, released>>
      BY <1>12 DEF ReleaseFailed, watchdog, history
    <2>4. QED
      BY <1>0, <2>1, <2>2, <2>3, ServedKeeps
  <1>13. CASE ReadOutputs
    BY <1>13, ReleaseUntouched DEF ReadOutputs, watchdog, history
  <1>14. CASE ApplyOutputs
    BY <1>14, ReleaseUntouched DEF ApplyOutputs, watchdog, history
  <1>15. CASE UNCHANGED vars
    BY <1>15, ReleaseUntouched DEF vars, watchdog, history
  <1>16. QED
    BY <1>1, <1>2, <1>3, <1>4, <1>5, <1>6, <1>7, <1>8, <1>9, <1>10, <1>11,
       <1>12, <1>13, <1>14, <1>15, <1>17
    DEF Next, Client

\* A latched release means both relays are off, unless an assert was pending
\* when the release started or was accepted later.
THEOREM LatchTrusted == Spec => []LatchHonest
  <1>1. Init => ReleaseInv
    BY DEF Init, ReleaseInv, OneRelease, LatchHonest, Asserting
  <1>2. ReleaseInv => LatchHonest
    BY DEF ReleaseInv
  <1>3. QED
    BY <1>1, <1>2, ReleaseStep, TypeCorrect, PTL DEF Spec

------------------------------------------------------------------------------
(* The abstract dead man's switch.                                           *)

\* A release under way, or one that failed, is not latched.
PhaseInv == wd \in Relays \cup {"failed"} => ~released

\* Every step keeps it: only the end of a release sets the latch.
LEMMA PhaseStep ==
    TypeOK /\ ReleaseInv /\ PhaseInv /\ [Next]_vars => PhaseInv'
  <1> SUFFICES ASSUME TypeOK, ReleaseInv, PhaseInv, [Next]_vars
               PROVE  PhaseInv'
    OBVIOUS
  <1>1. ASSUME NEW c \in Conns, Client(c) PROVE PhaseInv'
    <2>1. \/ \E cmdWrite \in BOOLEAN : note_request(c, cmdWrite) /\ wd' = wd
          \/ note_disconnect(c)
      BY <1>1
      DEF Client, Read, RejectedCommand, Command, MaskedCommand, Queued
    <2>2. wd' = wd /\ (released' => released)
      BY <2>1 DEF note_disconnect, note_request, note_modbus_read,
                  note_commander_lost, watchdog
    <2>3. QED BY <2>2 DEF PhaseInv
  <1>2. CASE Tick \/ CheckIdle \/ CheckFires
    BY <1>2 DEF Tick, CheckIdle, CheckFires, PhaseInv, watchdog, Relays
  <1>3. CASE Retry \/ CommandDone \/ CommandFailed
    BY <1>3 DEF Retry, CommandDone, CommandFailed, PhaseInv, watchdog
  <1>4. CASE InhibitReleased \/ ReleaseFailed
    <2>1. bus # <<>> /\ Head(bus).src = "watchdog" /\ released' = released
      BY <1>4 DEF InhibitReleased, ReleaseFailed, Serving, watchdog
    <2>2. wd \in Relays
      BY <2>1, QueueServed, Serve DEF Request
    <2>3. QED BY <2>1, <2>2 DEF PhaseInv
  <1>5. CASE ReleaseDone
    BY <1>5 DEF ReleaseDone, PhaseInv, Relays
  <1>6. CASE ReadOutputs \/ ApplyOutputs \/ UNCHANGED vars
    BY <1>6 DEF ReadOutputs, ApplyOutputs, PhaseInv, vars, watchdog
  <1>7. QED
    BY <1>1, <1>2, <1>3, <1>4, <1>5, <1>6 DEF Next

\* An assert waits in a queue that was appended to if it waited before or is
\* the new write.
LEMMA AssertingAppended ==
    ASSUME NEW q \in Seq(Request), NEW w \in Request
    PROVE  Asserting(Append(q, w)) = (Asserting(q) \/ w.on)
  <1> DEFINE p == Append(q, w)
  <1>1. /\ Len(p) = Len(q) + 1
        /\ \A i \in 1..Len(q) : p[i] = q[i]
        /\ p[Len(q) + 1] = w
        /\ Len(q) \in Nat
    BY AppendProperties
  <1> HIDE DEF p
  <1>2. /\ \A i \in 1..Len(p) : i \in 1..Len(q) \/ i = Len(q) + 1
        /\ \A i \in 1..Len(q) : i \in 1..Len(p)
        /\ Len(q) + 1 \in 1..Len(p)
    BY <1>1
  <1>3. Asserting(p) => Asserting(q) \/ w.on
    BY <1>1, <1>2 DEF Asserting
  <1>4. Asserting(q) => Asserting(p)
    BY <1>1, <1>2 DEF Asserting
  <1>5. w.on => Asserting(p)
    BY <1>1, <1>2 DEF Asserting
  <1>6. w.on \in BOOLEAN /\ Asserting(p) \in BOOLEAN /\ Asserting(q) \in BOOLEAN
    BY DEF Request, Asserting
  <1>7. QED
    BY <1>3, <1>4, <1>5, <1>6 DEF p

\* A queued assert is at the head or waits behind it.
LEMMA AssertingServed ==
    ASSUME TypeOK, bus # <<>>
    PROVE  Asserting(bus) = (Asserting(Tail(bus)) \/ Head(bus).on)
  <1> DEFINE q == Tail(bus)
  <1>1. /\ Head(bus) = bus[1]
        /\ 1 \in 1..Len(bus)
        /\ Len(q) = Len(bus) - 1
        /\ Len(bus) \in Nat
        /\ \A i \in 1..Len(q) : q[i] = bus[i + 1] /\ i + 1 \in 1..Len(bus)
    BY Serve
  <1>2. Head(bus).on \in BOOLEAN
    BY Serve DEF Request
  <1> HIDE DEF q
  <1>3. \A i \in 1..Len(bus) : i = 1 \/ (i - 1 \in 1..Len(q) /\ i = (i - 1) + 1)
    BY <1>1
  <1>4. Asserting(bus) => Asserting(q) \/ Head(bus).on
    <2> SUFFICES ASSUME NEW i \in 1..Len(bus), bus[i].on, i # 1
                 PROVE  Asserting(q)
      BY <1>1 DEF Asserting
    <2>1. i - 1 \in 1..Len(q) /\ q[i - 1] = bus[i]
      BY <1>1, <1>3
    <2>2. QED BY <2>1 DEF Asserting
  <1>5. Asserting(q) => Asserting(bus)
    BY <1>1 DEF Asserting
  <1>6. Head(bus).on => Asserting(bus)
    BY <1>1 DEF Asserting
  <1>7. Asserting(bus) \in BOOLEAN /\ Asserting(q) \in BOOLEAN
    BY DEF Asserting
  <1>8. QED
    BY <1>2, <1>4, <1>5, <1>6, <1>7 DEF q

\* Serving a write that is not an assert only lets relays fall.
LEMMA Falling ==
    ASSUME TypeOK, bus # <<>>, ~Head(bus).on,
           NEW applied \in BOOLEAN, Apply(Head(bus), applied)
    PROVE  \A r \in Relays : relay'[r] => relay[r]
  <1>1. Head(bus).relay \in Relays /\ relay \in [Relays -> BOOLEAN]
    BY Serve DEF Request, TypeOK
  <1>2. QED
    BY <1>1 DEF Apply

\* A step of a client is the operator's, or a bystander's, or nothing at all.
LEMMA ClientMaps ==
    ASSUME TypeOK, PhaseInv, NEW c \in Conns, Client(c)
    PROVE  [Switch!Next]_(Switch!switch)
  <1>0. None \notin Conns /\ wd' = wd
    BY ConstantsAssumption
    DEF ConstantsAssumption, Client, Read, RejectedCommand, Command,
        MaskedCommand, Queued, note_disconnect
  <1>1. ASSUME UNCHANGED <<wd, bus, relay>>, ~released'
        PROVE  /\ Phase' = Switch!Rearmed
               /\ Asserting(bus)' = Asserting(bus)
    BY <1>1 DEF Phase, Switch!Rearmed, PhaseInv, Relays, Asserting
  <1>2. CASE Read(c)
    <2>1. CASE c = commander
      <3>1. ~released' /\ commander' = commander
        BY <1>2, <2>1 DEF Read, note_request, Rearms, note_modbus_read
      <3>2. QED
        BY <1>0, <1>1, <1>2, <2>1, <3>1
        DEF Read, Switch!Next, Switch!Hear, Switch!MayOrder
    <2>2. CASE c # commander /\ commander = None
      <3>1. ~released' /\ commander' = commander
        BY <1>2, <2>2 DEF Read, note_request, Rearms, note_modbus_read
      <3>2. QED
        BY <1>1, <1>2, <2>2, <3>1
        DEF Read, Switch!Next, Switch!HearBystander, Switch!MayOrder
    <2>3. CASE c # commander /\ commander # None
      BY <1>2, <2>3
      DEF Read, note_request, Rearms, watchdog, Switch!switch, Phase, Asserting
    <2>4. QED BY <2>1, <2>2, <2>3
  <1>3. CASE RejectedCommand(c)
    <2>1. ~released' /\ commander' = c
      BY <1>3 DEF RejectedCommand, note_request, Rearms, note_modbus_read
    <2>2. QED
      BY <1>0, <1>1, <1>3, <2>1
      DEF RejectedCommand, Switch!Next, Switch!Hear, Switch!MayOrder
  <1>4. ASSUME NEW r \in Relays, NEW on \in BOOLEAN, Queued(r, on)
        PROVE  Switch!MayOrder
    <2>1. Asserting(bus)' = (Asserting(bus) \/ on)
      <3>1. /\ Write("command", r, on) \in Request
            /\ Write("command", r, on).on = on
        BY WriteIsRequest DEF Write
      <3>2. Asserting(Append(bus, Write("command", r, on)))
              = (Asserting(bus) \/ on)
        BY <3>1, AssertingAppended DEF TypeOK
      <3>3. QED BY <1>4, <3>2 DEF Queued, Asserting
    <2>2. exposed' = (exposed \/ on)
      BY <1>4 DEF Queued
    <2>3. CASE on
      BY <2>1, <2>2, <2>3 DEF Switch!MayOrder
    <2>4. CASE ~on
      <3>1. exposed' = exposed /\ Asserting(bus)' = Asserting(bus)
        BY <2>1, <2>2, <2>4 DEF TypeOK, Asserting
      <3>2. QED BY <3>1 DEF Switch!MayOrder
    <2>5. QED BY <2>3, <2>4
  <1>6. ASSUME NEW r \in Relays, NEW on \in BOOLEAN, Command(c, r, on)
        PROVE  Switch!Hear
    <2>1. Queued(r, on) /\ opQuiet' = 0 BY <1>6 DEF Command
    <2>2. ~released' /\ commander' = c
      BY <1>6 DEF Command, note_request, Rearms, note_modbus_read
    <2>3. Phase' = Switch!Rearmed
      BY <1>0, <2>2 DEF Phase, Switch!Rearmed, PhaseInv, Relays
    <2>4. relay' = relay /\ (commander' # None) = TRUE
      BY <1>0, <2>1, <2>2 DEF Queued
    <2>5. QED BY <1>4, <2>1, <2>3, <2>4 DEF Switch!Hear
  <1>7. ASSUME NEW r \in Relays, NEW on \in BOOLEAN, MaskedCommand(c, r, on)
        PROVE  Switch!Hear \/ Switch!HearBystander
    <2>1. Queued(r, on) /\ relay' = relay /\ commander' = commander
      BY <1>7 DEF MaskedCommand, Queued, note_request
    <2>2. Switch!MayOrder BY <1>4, <2>1
    <2>3. CASE Rearms(c, FALSE)
      <3>1. ~released' BY <1>7, <2>3 DEF MaskedCommand, note_request, note_modbus_read
      <3>2. Phase' = Switch!Rearmed
        BY <1>0, <3>1 DEF Phase, Switch!Rearmed, PhaseInv, Relays
      <3>3. CASE c = commander
        BY <1>0, <1>7, <2>1, <2>2, <3>2, <3>3 DEF MaskedCommand, Switch!Hear
      <3>4. CASE c # commander
        <4>1. commander = None BY <2>3, <3>4 DEF Rearms
        <4>2. opQuiet' = opQuiet BY <1>7, <3>4 DEF MaskedCommand
        <4>3. QED BY <2>1, <2>2, <3>2, <4>1, <4>2 DEF Switch!HearBystander
      <3>5. QED BY <3>3, <3>4
    <2>4. CASE ~Rearms(c, FALSE)
      <3>1. c # commander /\ commander # None /\ released' = released
        BY <1>7, <2>4 DEF MaskedCommand, note_request, Rearms, watchdog
      <3>2. Phase' = Phase BY <1>0, <3>1 DEF Phase
      <3>3. opQuiet' = opQuiet BY <1>7, <3>1 DEF MaskedCommand
      <3>4. QED BY <2>1, <2>2, <3>1, <3>2, <3>3 DEF Switch!HearBystander
    <2>5. QED BY <2>3, <2>4
  <1>5. CASE note_disconnect(c)
    BY <1>0, <1>5
    DEF note_disconnect, note_commander_lost, Switch!Next, Switch!Leave,
        Phase, Asserting
  <1>8. QED
    BY <1>2, <1>3, <1>5, <1>6, <1>7 DEF Client, Switch!Next

\* A step of the watchdog's loop: time passes no further than the rule lets
\* it, and a release is only started over a silent operator.
LEMMA WatchdogMaps ==
    ASSUME TypeOK, TimerInv, PhaseInv, Tick \/ CheckIdle \/ CheckFires
    PROVE  [Switch!Next]_(Switch!switch)
  <1>1. CASE Tick
    <2>1. UNCHANGED <<commander, released, bus, relay, exposed>>
      BY <1>1 DEF Tick
    <2>2. Asserting(bus)' = Asserting(bus)
      BY <2>1 DEF Asserting
    <2>3. ~(commander # None /\ opQuiet > Timeout /\ Phase = "armed")
      BY <1>1 DEF Tick, TimerInv, TypeOK, WdStates, Phase
    <2>4. Phase' = IF Phase = "failed" THEN "armed" ELSE Phase
      BY <1>1, <2>1 DEF Tick, Phase, PhaseInv, Relays
    <2>5. opQuiet' = IF opQuiet > Timeout THEN opQuiet ELSE opQuiet + 1
      <3>1. opQuiet \in 0..(Timeout + 1) /\ Timeout \in Nat
        BY ConstantsAssumption DEF TypeOK, MaxSilence, ConstantsAssumption
      <3>2. QED BY <1>1, <3>1 DEF Tick, Advance, MaxSilence
    <2>6. QED
      BY <2>1, <2>2, <2>3, <2>4, <2>5 DEF Switch!Next, Switch!Pass
  <1>2. CASE CheckIdle
    BY <1>2
    DEF CheckIdle, Phase, Asserting, Relays, watchdog, history, Switch!switch
  <1>3. CASE CheckFires
    <2>1. Asserting(bus)' = Asserting(bus)
      <3>1. /\ Write("watchdog", "inhibit", FALSE) \in Request
            /\ Write("watchdog", "inhibit", FALSE).on = FALSE
        BY WriteIsRequest DEF Write, Relays
      <3>2. Asserting(Append(bus, Write("watchdog", "inhibit", FALSE)))
              = Asserting(bus)
        BY <3>1, AssertingAppended DEF TypeOK, Asserting
      <3>3. QED BY <1>3, <3>2 DEF CheckFires, Asserting
    <2>2. Phase = "armed" /\ Phase' = "releasing"
      BY <1>3 DEF CheckFires, Phase, Relays, watchdog
    <2>3. commander # None => opQuiet > Timeout
      BY <1>3 DEF CheckFires, CommsLost, TimerInv
    <2>4. QED
      BY <1>3, <2>1, <2>2, <2>3
      DEF CheckFires, watchdog, Switch!Next, Switch!Release
  <1>4. QED BY <1>1, <1>2, <1>3

\* A write served for a command moves the relays only as an order allows.
LEMMA CommandMaps ==
    ASSUME TypeOK, TypeOK', Retry \/ CommandDone \/ CommandFailed
    PROVE  [Switch!Next]_(Switch!switch)
  <1>1. /\ bus # <<>>
        /\ UNCHANGED <<commander, opQuiet, wd, released, exposed>>
    BY DEF Retry, CommandDone, CommandFailed, Serving, watchdog, history
  <1>2. PICK applied \in BOOLEAN : Apply(Head(bus), applied)
    BY FailsApplies DEF Retry, CommandDone, CommandFailed
  <1>3. Phase' = Phase
    BY <1>1 DEF Phase
  <1>4. relay' \in [Relays -> BOOLEAN]
    BY DEF TypeOK
  <1>5. ~Asserting(bus) => \A r \in Relays : relay'[r] => relay[r]
    BY <1>1, <1>2, AssertingServed, Falling
  <1>6. Asserting(bus)' => Asserting(bus)
    <2>1. CASE Retry
      <3> DEFINE w == [Head(bus) EXCEPT !.tries = @ + 1]
      <3>1. Head(bus) \in Request /\ Tail(bus) \in Seq(Request)
        BY <1>1, Serve
      <3>2. w \in Request /\ w.on = Head(bus).on
        BY <2>1, <3>1, RetryIsRequest DEF Retry, Request
      <3>3. bus' = Append(Tail(bus), w) BY <2>1 DEF Retry
      <3> HIDE DEF w
      <3>4. Asserting(Append(Tail(bus), w)) = Asserting(bus)
        BY <1>1, <3>1, <3>2, AssertingAppended, AssertingServed
      <3>5. QED BY <3>3, <3>4 DEF Asserting
    <2>2. CASE CommandDone \/ CommandFailed
      <3>1. bus' = Tail(bus) BY <2>2 DEF CommandDone, CommandFailed
      <3>2. Asserting(Tail(bus)) => Asserting(bus)
        BY <1>1, AssertingServed
      <3>3. QED BY <3>1, <3>2 DEF Asserting
    <2>3. QED BY <2>1, <2>2
  <1>7. QED
    BY <1>1, <1>3, <1>4, <1>5, <1>6
    DEF Switch!Next, Switch!Switch, Switch!Falls

\* A write served for the watchdog only lets relays fall, and latches a
\* release that was not put at risk over two relays that are off.
LEMMA ReleaseMaps ==
    ASSUME TypeOK, TypeOK', ReleaseInv, ReleaseInv', PhaseInv,
           InhibitReleased \/ ReleaseDone \/ ReleaseFailed
    PROVE  [Switch!Next]_(Switch!switch)
  <1>1. /\ bus # <<>> /\ Head(bus).src = "watchdog"
        /\ UNCHANGED <<commander, opQuiet, exposed>>
    BY DEF InhibitReleased, ReleaseDone, ReleaseFailed, Serving, history
  <1>2. ~Head(bus).on /\ wd \in Relays
    BY <1>1, QueueServed, Serve DEF Request
  <1>3. PICK applied \in BOOLEAN : Apply(Head(bus), applied)
    BY FailsApplies DEF InhibitReleased, ReleaseDone, ReleaseFailed
  <1>4. relay' \in [Relays -> BOOLEAN] /\ \A r \in Relays : relay'[r] => relay[r]
    BY <1>1, <1>2, <1>3, Falling DEF TypeOK
  <1>5. Phase = "releasing"
    BY <1>2 DEF Phase
  <1>6. Asserting(Tail(bus)) = Asserting(bus)
    BY <1>1, <1>2, AssertingServed DEF Asserting
  <1>7. CASE InhibitReleased
    <2>1. Phase' = Phase
      BY <1>5, <1>7 DEF InhibitReleased, Phase, Relays
    <2>2. Asserting(bus)' = Asserting(bus)
      <3> DEFINE w == Write("watchdog", "force_transfer", FALSE)
      <3>1. w \in Request /\ w.on = FALSE
        BY WriteIsRequest DEF Write, Relays
      <3>2. Tail(bus) \in Seq(Request) BY <1>1, Serve
      <3>3. bus' = Append(Tail(bus), w) BY <1>7 DEF InhibitReleased
      <3> HIDE DEF w
      <3>4. Asserting(Append(Tail(bus), w)) = Asserting(Tail(bus))
        BY <3>1, <3>2, AssertingAppended DEF Asserting
      <3>5. QED BY <1>6, <3>3, <3>4 DEF Asserting
    <2>3. QED
      BY <1>1, <1>4, <2>1, <2>2
      DEF Switch!Next, Switch!Switch, Switch!Falls
  <1>8. CASE ReleaseDone \/ ReleaseFailed
    <2>1. bus' = Tail(bus) BY <1>8 DEF ReleaseDone, ReleaseFailed
    <2>2. Asserting(bus)' = Asserting(bus)
      BY <1>6, <2>1 DEF Asserting
    <2>3. CASE ReleaseDone
      <3>1. released' = TRUE /\ wd' = "sleep" BY <2>3 DEF ReleaseDone
      <3>2. Phase' = "released" BY <3>1 DEF Phase, Relays
      <3>3. ~exposed => \A r \in Relays : ~relay'[r]
        BY <1>1, <3>1 DEF ReleaseInv, LatchHonest, AllReleased
      <3>4. QED
        BY <1>1, <1>4, <1>5, <2>2, <3>2, <3>3
        DEF Switch!Next, Switch!Released, Switch!Falls
    <2>4. CASE ReleaseFailed
      <3>1. Phase' = "failed" BY <2>4 DEF ReleaseFailed, Phase, Relays
      <3>2. QED
        BY <1>1, <1>4, <1>5, <2>2, <3>1
        DEF Switch!Next, Switch!Fail, Switch!Falls
    <2>5. QED BY <1>8, <2>3, <2>4
  <1>9. QED BY <1>7, <1>8

\* CommsLoss implements DeadMan: for every number of connections, bystanders
\* included, every window, retry count and queue length, the component as a
\* whole is a dead man's switch over the two maintained relays.
THEOREM ImplementsDeadMan == Spec => DeadManRule
  <1> DEFINE Inv == TypeOK /\ TimerInv /\ ReleaseInv /\ PhaseInv
  <1>1. Init => Inv /\ Switch!Init
    <2>1. Init => TimerInv /\ ReleaseInv /\ PhaseInv
      BY ConstantsAssumption
      DEF Init, TimerInv, ReleaseInv, OneRelease, LatchHonest, Asserting,
          PhaseInv, Relays, ConstantsAssumption
    <2>2. Init => TypeOK
      <3>1. <<>> \in Seq(Request) OBVIOUS
      <3>2. QED
        BY <3>1, NoSilence DEF Init, TypeOK, WdStates, Relays, AllReleased
    <2>3. Init => Switch!Init
      BY DEF Init, Switch!Init, Phase, Asserting, AllReleased, Relays
    <2>4. QED BY <2>1, <2>2, <2>3
  <1>2. Inv /\ [Next]_vars => Inv'
    BY TypeStep, TimerStep, ReleaseStep, PhaseStep
  <1>3. Inv /\ Inv' /\ [Next]_vars => [Switch!Next]_(Switch!switch)
    <2> SUFFICES ASSUME Inv, Inv', [Next]_vars
                 PROVE  [Switch!Next]_(Switch!switch)
      OBVIOUS
    <2>1. CASE ReadOutputs \/ ApplyOutputs \/ UNCHANGED vars
      BY <2>1 DEF ReadOutputs, ApplyOutputs, vars, watchdog, history,
                  Switch!switch, Phase, Asserting
    <2>2. QED
      BY <2>1, ClientMaps, WatchdogMaps, CommandMaps, ReleaseMaps DEF Next
  <1>4. QED
    BY <1>1, <1>2, <1>3, PTL DEF Spec, DeadManRule, Switch!Spec
==============================================================================
