------------------------- MODULE AdamOutputsProofs -------------------------
(* Theorems about AdamOutputs, for any wiring, any number of dispatch tasks  *)
(* and with or without the hardware watchdog.                                *)
EXTENDS AdamOutputs, TLAPS

------------------------------------------------------------------------------
(* The inductive invariants.                                                 *)

\* Who does what, and while the service is in which state.
JobsInv ==
    /\ \A t \in Tasks : op[t] # None => op[t].job \in {"command", "release"}
    /\ \A t \in Tasks : Doing(t, "release") => op[t].relay \in Pulsed
    /\ \A t \in Tasks : Doing(t, "command") /\ op[t].relay \in Pulsed => op[t].on
    /\ op[Main] # None => op[Main].job \in {"reset", "read", "final"}
    /\ Doing(Main, "reset") => ~outputsReset
    /\ Doing(Main, "read") => outputsReset
    /\ Doing(Main, "final") <=> svc = "stopping"
    /\ svc = "exited" => op = NoTasks /\ ~known /\ ~outputsReset /\ ~accepted
    /\ known => outputsReset
    /\ accepted => known
    /\ ~accepted => \A t \in Tasks : op[t] = None

\* On, and not by a write that was given up.
On(r) == relay[r] /\ r \notin lost

\* The relays that release_all_outputs has been through are off.
Behind == \A q \in Relays : ReleaseOrder[q] < ReleaseOrder[op[Main].relay] => ~On(q)

AllOff == \A r \in Relays : ~On(r)

\* Until a command is accepted the startup reset is the only writer: what it
\* has been through stays off.
ResetInv ==
    /\ Doing(Main, "reset") => Behind
    /\ outputsReset /\ ~accepted => AllOff

\* Whose write may have turned the relay on.
Holder(t, r) ==
    /\ op[t] # None /\ op[t].relay = r
    /\ \/ op[t].job = "release"
       \/ op[t].job = "command" /\ op[t].at \in {"send", "closed"}

\* PulseOwned is not inductive: an owner that fails before its write was sent
\* must not be the only one.
PulseInv == svc = "running" /\ outputsReset =>
    \A r \in Pulsed : relay[r] => r \in lost \/ \E t \in Tasks : Holder(t, r)

\* After a clean stop nobody is left that asserts.
StopInv ==
    /\ clean => svc # "running" /\ \A t \in Tasks : ~Asserting(t)
    /\ clean /\ svc = "stopping" => Behind
    /\ clean /\ svc = "exited" /\ finished => AllOff
------------------------------------------------------------------------------
(* The order of release.                                                     *)

LEMMA RelaysOrdered ==
    /\ Relays \subseteq {"test", "force_transfer", "inhibit", "bypass_delay"}
    /\ Relays # {} /\ Pulsed \subseteq Relays /\ Pulsed \cap Maintained = {}
    /\ \A q \in Relays : ReleaseOrder[q] \in 1..4
    /\ \A q, r \in Relays : ReleaseOrder[q] = ReleaseOrder[r] => q = r
BY ConstantsAssumption DEF ConstantsAssumption, Relays, ReleaseOrder

LEMMA ForemostLeast ==
    ASSUME NEW rs, rs \subseteq Relays, rs # {}
    PROVE  /\ Foremost(rs) \in rs
           /\ \A q \in rs : ReleaseOrder[Foremost(rs)] <= ReleaseOrder[q]
<1>1. \E r \in rs : \A q \in rs : ReleaseOrder[r] <= ReleaseOrder[q]
  <2>1. /\ ReleaseOrder["test"] = 1 /\ ReleaseOrder["force_transfer"] = 2
        /\ ReleaseOrder["inhibit"] = 3 /\ ReleaseOrder["bypass_delay"] = 4
    BY DEF ReleaseOrder
  <2>2. \A q \in rs : q \in {"test", "force_transfer", "inhibit", "bypass_delay"}
    BY RelaysOrdered
  <2>3. CASE "test" \in rs
    BY <2>1, <2>2, <2>3
  <2>4. CASE "test" \notin rs /\ "force_transfer" \in rs
    BY <2>1, <2>2, <2>4
  <2>5. CASE rs \cap {"test", "force_transfer"} = {} /\ "inhibit" \in rs
    BY <2>1, <2>2, <2>5
  <2>6. CASE rs \cap {"test", "force_transfer", "inhibit"} = {}
    BY <2>1, <2>2, <2>6
  <2> QED BY <2>3, <2>4, <2>5, <2>6
<1> QED BY <1>1 DEF Foremost

\* Releasing the relays in their order, one after the other, leaves out none.
LEMMA InOrderAll ==
    ASSUME NEW r \in Relays
    PROVE  /\ Following(r) = {} =>
                \A q \in Relays : q = r \/ ReleaseOrder[q] < ReleaseOrder[r]
           /\ Following(r) # {} =>
                /\ Foremost(Following(r)) \in Relays
                /\ \A q \in Relays :
                     ReleaseOrder[q] < ReleaseOrder[Foremost(Following(r))] =>
                     q = r \/ ReleaseOrder[q] < ReleaseOrder[r]
<1>1. \A q \in Relays : q \notin Following(r) => q = r \/ ReleaseOrder[q] < ReleaseOrder[r]
  BY RelaysOrdered DEF Following
<1>2. Following(r) \subseteq Relays
  BY DEF Following
<1>3. ASSUME Following(r) # {}
      PROVE  /\ Foremost(Following(r)) \in Relays
             /\ \A q \in Relays :
                  ReleaseOrder[q] < ReleaseOrder[Foremost(Following(r))] =>
                  q \notin Following(r)
  <2> DEFINE f == Foremost(Following(r))
  <2>1. f \in Relays /\ \A q \in Following(r) : ReleaseOrder[f] <= ReleaseOrder[q]
    BY <1>2, <1>3, ForemostLeast
  <2> HIDE DEF f
  <2>2. \A q \in Relays : ReleaseOrder[q] < ReleaseOrder[f] => q \notin Following(r)
    BY <2>1, RelaysOrdered
  <2> QED BY <2>1, <2>2 DEF f
<1> QED BY <1>1, <1>3

------------------------------------------------------------------------------
(* Operations.                                                               *)

Ops == [Writers -> Operation \cup {None}]

\* The operation o goes on as p: as it was, or on a client that was closed.
GoesOn(o, p) ==
    \/ o = None /\ p = None
    \/ /\ o # None /\ p # None /\ o \in Operation /\ p \in Operation
       /\ p.job = o.job /\ p.relay = o.relay /\ p.on = o.on
       /\ p.at = o.at \/ (o.at = "send" /\ p.at = "closed")

LEMMA WritersApart == Main \in Writers /\ Main \notin Tasks /\ Tasks \subseteq Writers
BY ConstantsAssumption DEF ConstantsAssumption, Main, Writers

LEMMA OperationTyped ==
    ASSUME NEW o \in Operation
    PROVE  /\ o # None
           /\ o.job \in Jobs /\ o.relay \in Relays \cup {None}
           /\ o.on \in BOOLEAN /\ o.at \in Stages
           /\ o.on => o.job = "command"
           /\ o.relay = None <=> o.job = "read"
           /\ o.at \in {"window", "retry"} => o.job = "release"
           /\ o.job # "read" => o.relay \in Relays
BY NoneAssumption DEF Operation, NoneAssumption

\* What a task is doing is an operation.
LEMMA UnderWay ==
    ASSUME TypeOK, NEW x \in Writers, op[x] # None
    PROVE  op[x] \in Operation
BY DEF TypeOK

LEMMA OperationMoves ==
    ASSUME NEW o \in Operation, NEW stage \in Stages,
           stage \in {"window", "retry"} => o.job = "release"
    PROVE  LET p == [o EXCEPT !.at = stage]
           IN  p \in Operation /\ p.job = o.job /\ p.relay = o.relay /\ p.on = o.on
               /\ p.at = stage
BY DEF Operation

LEMMA OperationMade ==
    ASSUME NEW job \in Jobs, NEW r \in Relays \cup {None}, NEW on \in BOOLEAN,
           NEW stage \in {"send", "connect"},
           on => job = "command", r = None <=> job = "read"
    PROVE  [job |-> job, relay |-> r, on |-> on, at |-> stage] \in Operation
BY DEF Operation, Stages

LEMMA ClosedGoesOn ==
    ASSUME NEW ops \in Ops
    PROVE  Closed(ops) \in Ops /\ \A y \in Writers : GoesOn(ops[y], Closed(ops)[y])
<1>1. ASSUME NEW y \in Writers
      PROVE  /\ Closed(ops)[y] \in Operation \cup {None}
             /\ GoesOn(ops[y], Closed(ops)[y])
  <2>1. CASE ops[y] = None
    BY <2>1 DEF Closed, GoesOn
  <2>2. CASE ops[y] # None /\ ops[y].at = "send"
    <3>1. ops[y] \in Operation
      BY <2>2 DEF Ops
    <3>2. Closed(ops)[y] = [ops[y] EXCEPT !.at = "closed"]
      BY <2>2 DEF Closed
    <3>3. /\ Closed(ops)[y] \in Operation
          /\ Closed(ops)[y].job = ops[y].job /\ Closed(ops)[y].relay = ops[y].relay
          /\ Closed(ops)[y].on = ops[y].on /\ Closed(ops)[y].at = "closed"
      <4>1. "closed" \in Stages /\ "closed" \notin {"window", "retry"}
        BY DEF Stages
      <4> DEFINE o == ops[y]
      <4>2. o \in Operation /\ Closed(ops)[y] = [o EXCEPT !.at = "closed"]
        BY <3>1, <3>2
      <4> HIDE DEF o
      <4>3. /\ Closed(ops)[y] \in Operation
            /\ Closed(ops)[y].job = o.job /\ Closed(ops)[y].relay = o.relay
            /\ Closed(ops)[y].on = o.on /\ Closed(ops)[y].at = "closed"
        BY <4>1, <4>2, OperationMoves
      <4> QED BY <4>3 DEF o
    <3>4. Closed(ops)[y] # None
      BY <3>3, OperationTyped
    <3> QED BY <2>2, <3>1, <3>3, <3>4 DEF GoesOn
  <2>3. CASE ops[y] # None /\ ops[y].at # "send"
    <3>1. ops[y] \in Operation /\ Closed(ops)[y] = ops[y]
      BY <2>3 DEF Ops, Closed
    <3> QED BY <2>3, <3>1 DEF GoesOn
  <2> QED BY <2>1, <2>2, <2>3
<1>2. Closed(ops) = [y \in Writers |-> Closed(ops)[y]]
  BY DEF Closed
<1> QED BY <1>1, <1>2 DEF Ops

\* Task x starts an operation, from ops to b.
Starts(b, ops, x, job, r, on) ==
    /\ b \in Ops
    /\ \A y \in Writers \ {x} : GoesOn(ops[y], b[y])
    /\ b[x] # None /\ b[x] \in Operation
    /\ b[x].job = job /\ b[x].relay = r /\ b[x].on = on
    /\ b[x].at \in {"send", "connect"}

\* Starting an operation concerns the others only by the client.
LEMMA BegunGoesOn ==
    ASSUME NEW ops \in Ops, NEW x \in Writers, NEW job \in Jobs,
           NEW r \in Relays \cup {None}, NEW on \in BOOLEAN,
           on => job = "command", r = None <=> job = "read"
    PROVE  Starts(Begun(ops, x, job, r, on), ops, x, job, r, on)
<1>1. ASSUME NEW o \in Ops, \A y \in Writers : GoesOn(ops[y], o[y]),
             NEW stage \in {"send", "connect"}
      PROVE  Starts([o EXCEPT ![x] = [job |-> job, relay |-> r, on |-> on,
                                      at |-> stage]], ops, x, job, r, on)
  <2> DEFINE new == [job |-> job, relay |-> r, on |-> on, at |-> stage]
             b == [o EXCEPT ![x] = new]
  <2>1. new \in Operation
    BY OperationMade
  <2>2. new # None
    BY <2>1, OperationTyped
  <2>3. new.job = job /\ new.relay = r /\ new.on = on /\ new.at = stage
    OBVIOUS
  <2> HIDE DEF new
  <2>4. b \in Ops /\ b[x] = new /\ \A y \in Writers \ {x} : b[y] = o[y]
    BY <2>1 DEF Ops
  <2> HIDE DEF b
  <2>5. Starts(b, ops, x, job, r, on)
    BY <1>1, <2>1, <2>2, <2>3, <2>4 DEF Starts
  <2> QED BY <2>5 DEF b, new
<1>2. \A y \in Writers : GoesOn(ops[y], ops[y])
  BY DEF GoesOn, Ops
<1>3. CASE connected
  <2>1. Begun(ops, x, job, r, on)
        = [ops EXCEPT ![x] = [job |-> job, relay |-> r, on |-> on, at |-> "send"]]
    BY <1>3 DEF Begun
  <2> QED BY <1>1, <1>2, <2>1
<1>4. CASE ~connected
  <2>1. Begun(ops, x, job, r, on)
        = [Closed(ops) EXCEPT
              ![x] = [job |-> job, relay |-> r, on |-> on, at |-> "connect"]]
    BY <1>4 DEF Begun
  <2>2. Closed(ops) \in Ops /\ \A y \in Writers : GoesOn(ops[y], Closed(ops)[y])
    BY ClosedGoesOn
  <2> QED BY <1>1, <2>1, <2>2
<1> QED BY <1>3, <1>4

\* A release.
LEMMA BegunOff ==
    ASSUME NEW ops \in Ops, NEW x \in Writers,
           NEW job \in {"release", "reset", "final"}, NEW r \in Relays
    PROVE  Starts(Begun(ops, x, job, r, FALSE), ops, x, job, r, FALSE)
<1>1. job \in Jobs /\ r \in Relays \cup {None} /\ (r = None <=> job = "read")
  BY NoneAssumption DEF NoneAssumption, Jobs
<1> DEFINE on == FALSE
<1>2. on \in BOOLEAN /\ (on => job = "command") /\ on = FALSE
  OBVIOUS
<1> HIDE DEF on
<1>3. Starts(Begun(ops, x, job, r, on), ops, x, job, r, on)
  BY <1>1, <1>2, BegunGoesOn
<1> QED BY <1>2, <1>3

LEMMA BegunRead ==
    ASSUME NEW ops \in Ops, NEW x \in Writers
    PROVE  Starts(Begun(ops, x, "read", None, FALSE), ops, x, "read", None, FALSE)
<1> DEFINE on == FALSE
           job == "read"
           r == None
<1>1. job \in Jobs /\ r \in Relays \cup {None} /\ (r = None <=> job = "read")
  BY DEF Jobs
<1>2. on \in BOOLEAN /\ (on => job = "command") /\ on = FALSE
  OBVIOUS
<1> HIDE DEF on, job, r
<1>3. Starts(Begun(ops, x, job, r, on), ops, x, job, r, on)
  BY <1>1, <1>2, BegunGoesOn
<1> QED BY <1>3 DEF on, job, r

------------------------------------------------------------------------------
(* What each action does to the operations, the relays and the history.      *)

Service == <<svc, outputsReset, known, accepted, finished, clean>>

\* Task x changes its operation only, and it is at a stage.
Becomes(x, stages) ==
    /\ op' \in Ops /\ \A y \in Writers \ {x} : op'[y] = op[y]
    /\ op'[x] # None /\ op'[x] \in Operation
    /\ op'[x].job = op[x].job /\ op'[x].relay = op[x].relay /\ op'[x].on = op[x].on
    /\ op'[x].at \in stages

Ends(x) ==
    op' \in Ops /\ op'[x] = None /\ \A y \in Writers \ {x} : op'[y] = op[y]

Switches(r, on) == r \in Relays /\ on \in BOOLEAN /\ relay' = [relay EXCEPT ![r] = on]

LEMMA MovedBecomes ==
    ASSUME TypeOK, NEW x \in Writers, op[x] # None, NEW stage \in Stages,
           op' = Moved(x, stage),
           stage \in {"window", "retry"} => Doing(x, "release")
    PROVE  Becomes(x, {stage})
<1>1. op[x] \in Operation /\ op \in Ops
  BY UnderWay DEF TypeOK, Ops
<1> DEFINE p == [op[x] EXCEPT !.at = stage]
<1>2. /\ p \in Operation /\ p.job = op[x].job /\ p.relay = op[x].relay
      /\ p.on = op[x].on /\ p.at = stage
  <2> DEFINE o == op[x]
  <2>1. o \in Operation /\ (stage \in {"window", "retry"} => o.job = "release")
    BY <1>1 DEF Doing
  <2>2. p = [o EXCEPT !.at = stage]
    OBVIOUS
  <2> HIDE DEF o, p
  <2>3. /\ p \in Operation /\ p.job = o.job /\ p.relay = o.relay
        /\ p.on = o.on /\ p.at = stage
    BY <2>1, <2>2, OperationMoves
  <2> QED BY <2>3 DEF o
<1>3. p # None
  <2> HIDE DEF p
  <2> QED BY <1>2, OperationTyped
<1>4. op' = [op EXCEPT ![x] = p]
  BY DEF Moved
<1> HIDE DEF p
<1> QED BY <1>1, <1>2, <1>3, <1>4 DEF Becomes, Ops

LEMMA EndsTyped ==
    ASSUME TypeOK, NEW x \in Writers, op' = [op EXCEPT ![x] = None]
    PROVE  Ends(x)
BY DEF TypeOK, Ends, Ops

\* The operation of x failed.
Failing(x) ==
    /\ ~Doing(x, "final") /\ relay' = relay /\ lost \subseteq lost'
    /\ lost' \subseteq lost \cup Pulsed
    /\ \/ Doing(x, "release") /\ Becomes(x, {"retry"})
       \/ /\ ~Doing(x, "release") /\ Ends(x)
          /\ /\ Doing(x, "command") /\ op[x].on /\ op[x].at \in {"send", "closed"}
             /\ op[x].relay \in Pulsed /\ relay[op[x].relay]
             => op[x].relay \in lost'

LEMMA RaisedFails ==
    ASSUME TypeOK, NEW x \in Writers, op[x] # None, Raised(x), ~Doing(x, "final")
    PROVE  Failing(x) /\ UNCHANGED Service
<1>1. UNCHANGED <<relay, svc, outputsReset, known, accepted, finished, clean>>
  BY DEF Raised
<1>2. /\ lost \subseteq lost' /\ lost' \subseteq lost \cup Pulsed
      /\ /\ Doing(x, "command") /\ op[x].on /\ op[x].at \in {"send", "closed"}
         /\ op[x].relay \in Pulsed /\ relay[op[x].relay]
         => op[x].relay \in lost'
  <2> DEFINE v == [relay |-> op[x].relay, on |-> op[x].on]
  <2>1. lost' = lost \cup {w.relay : w \in {u \in InFlight(x) :
                             u.on /\ u.relay \in Pulsed /\ relay[u.relay]}}
    BY DEF Raised
  <2>2. ASSUME op[x].at \in {"send", "closed"}, op[x].relay \in Pulsed
        PROVE  v \in InFlight(x) /\ v.relay = op[x].relay /\ v.on = op[x].on
    BY <2>2, NoneAssumption, RelaysOrdered DEF InFlight, At, NoneAssumption
  <2> HIDE DEF v
  <2> QED BY <2>1, <2>2
<1>3. CASE Doing(x, "release")
  <2>1. op' = Moved(x, "retry") /\ "retry" \in Stages
    BY <1>3 DEF Raised, Stages
  <2> QED BY <1>1, <1>2, <1>3, <2>1, MovedBecomes DEF Failing, Service
<1>4. CASE ~Doing(x, "release")
  <2>1. op' = [op EXCEPT ![x] = None]
    BY <1>4 DEF Raised
  <2> QED BY <1>1, <1>2, <1>4, <2>1, EndsTyped DEF Failing, Service
<1> QED BY <1>3, <1>4

\* On the way to the wire, on the relay, or failed.
LEMMA OperateDoes ==
    ASSUME TypeOK, NEW x \in Writers, Operate(x)
    PROVE  /\ op[x] # None /\ UNCHANGED Service
           /\ \/ Failing(x)
              \/ /\ op[x].at \in {"connect", "verify"}
                 /\ Becomes(x, {"verify", "send"}) /\ UNCHANGED <<relay, lost>>
              \/ /\ op[x].at = "send" /\ Switches(op[x].relay, op[x].on)
                 /\ UNCHANGED <<op, lost>>
<1>1. op[x] # None
  BY DEF Operate, ConnectUp, ConnectFails, Verified, VerifyFails, Lands, Fails, At
<1>2. CASE ConnectFails(x) \/ VerifyFails(x) \/ Fails(x)
  <2>1. Raised(x) /\ ~Doing(x, "final")
    BY <1>2 DEF ConnectFails, VerifyFails, Fails
  <2> QED BY <1>1, <2>1, RaisedFails
<1>3. CASE ConnectUp(x)
  <2>1. op' = Moved(x, "verify") /\ "verify" \in Stages /\ op[x].at = "connect"
    BY <1>3 DEF ConnectUp, Stages, At
  <2>2. UNCHANGED <<relay, lost>> /\ UNCHANGED Service
    BY <1>3 DEF ConnectUp, adam, service, history, Service
  <2>3. Becomes(x, {"verify"})
    BY <1>1, <2>1, MovedBecomes
  <2> QED BY <1>1, <2>1, <2>2, <2>3 DEF Becomes
<1>4. CASE Verified(x)
  <2>1. op' = Moved(x, "send") /\ "send" \in Stages /\ op[x].at = "verify"
    BY <1>4 DEF Verified, Stages, At
  <2>2. UNCHANGED <<relay, lost>> /\ UNCHANGED Service
    BY <1>4 DEF Verified, adam, service, history, Service
  <2>3. Becomes(x, {"send"})
    BY <1>1, <2>1, MovedBecomes
  <2> QED BY <1>1, <2>1, <2>2, <2>3 DEF Becomes
<1>5. CASE Lands(x)
  <2>1. op[x] \in Operation /\ op[x].job # "read"
    BY <1>1, <1>5, UnderWay DEF Lands, Doing
  <2>2. op[x].relay \in Relays /\ op[x].on \in BOOLEAN
    BY <2>1, OperationTyped
  <2> QED BY <1>1, <1>5, <2>2 DEF Lands, At, Switches, driver, service, history, Service
<1> QED BY <1>2, <1>3, <1>4, <1>5 DEF Operate

LEMMA AnsweredSwitches ==
    ASSUME TypeOK, NEW x \in Writers, NEW job, Answered(x, job), job # "read"
    PROVE  /\ op[x] # None /\ op[x] \in Operation /\ op[x].at = "send"
           /\ op[x].job = job /\ Switches(op[x].relay, op[x].on)
           /\ job # "command" => op[x].on = FALSE
<1>1. op[x] # None /\ op[x].at = "send" /\ op[x].job = job
      /\ relay' = [relay EXCEPT ![op[x].relay] = op[x].on]
  BY DEF Answered, At, Doing
<1>2. op[x] \in Operation
  BY <1>1, UnderWay
<1> QED BY <1>1, <1>2, OperationTyped DEF Switches

\* A write of a release is started over.
LEMMA WindowOrRetryOver ==
    ASSUME TypeOK, NEW t \in Tasks, WindowOver(t) \/ RetryOver(t)
    PROVE  /\ op[t] # None /\ op[t].job = "release" /\ op[t].relay \in Relays
           /\ op' \in Ops /\ \A y \in Writers \ {t} : GoesOn(op[y], op'[y])
           /\ op'[t] # None /\ op'[t] \in Operation
           /\ op'[t].job = "release" /\ op'[t].relay = op[t].relay
           /\ UNCHANGED <<relay, lost>> /\ UNCHANGED Service
<1>1. /\ op[t] # None /\ op[t].at \in {"window", "retry"}
      /\ op' = Begun(op, t, "release", op[t].relay, FALSE)
      /\ UNCHANGED <<relay, lost>> /\ UNCHANGED Service
  BY DEF WindowOver, RetryOver, At, adam, service, history, Service
<1>2. op[t] \in Operation
  BY <1>1, UnderWay, WritersApart
<1>3. op[t].job = "release" /\ op[t].relay \in Relays
  BY <1>1, <1>2, OperationTyped
<1>4. op \in Ops /\ t \in Writers
  BY WritersApart DEF TypeOK, Ops
<1>5. Starts(op', op, t, "release", op[t].relay, FALSE)
  BY <1>1, <1>3, <1>4, BegunOff
<1> QED BY <1>1, <1>3, <1>5 DEF Starts

\* A dispatch becomes the task that releases the relay it turned on.
LEMMA PulseStartedBecomes ==
    ASSUME TypeOK, NEW t \in Tasks, PulseStarted(t)
    PROVE  /\ op[t] # None /\ op[t].job = "command" /\ op[t].relay \in Pulsed
           /\ op' \in Ops /\ \A y \in Writers \ {t} : op'[y] = op[y]
           /\ op'[t] # None /\ op'[t].job = "release" /\ op'[t].relay = op[t].relay
           /\ Switches(op[t].relay, op[t].on)
           /\ UNCHANGED lost /\ UNCHANGED Service
<1>1. /\ op[t] # None /\ op[t] \in Operation /\ op[t].job = "command"
      /\ Switches(op[t].relay, op[t].on)
  BY AnsweredSwitches, WritersApart DEF PulseStarted
<1>2. /\ op[t].relay \in Pulsed /\ UNCHANGED lost /\ UNCHANGED Service
      /\ op' = [op EXCEPT ![t] = [@ EXCEPT !.job = "release", !.on = FALSE,
                                           !.at = "window"]]
  BY DEF PulseStarted, history, Service
<1> DEFINE p == [op[t] EXCEPT !.job = "release", !.on = FALSE, !.at = "window"]
<1>3. p.job = "release" /\ p.relay = op[t].relay /\ p \in Operation
  BY <1>1 DEF Operation, Jobs, Stages
<1>4. p # None
  <2> HIDE DEF p
  <2> QED BY <1>3, OperationTyped
<1>5. op' = [op EXCEPT ![t] = p] /\ op \in Ops /\ t \in Writers
  BY <1>2, WritersApart DEF TypeOK, Ops
<1> HIDE DEF p
<1>6. op' \in Ops /\ op'[t] = p /\ \A y \in Writers \ {t} : op'[y] = op[y]
  BY <1>3, <1>5 DEF Ops
<1> QED BY <1>1, <1>2, <1>3, <1>4, <1>6
\* A command is accepted: refused at the gate, covered by a pulse under way,
\* or a dispatch starts.
LEMMA AcceptStarts ==
    ASSUME TypeOK, NEW t \in Tasks, NEW r \in Relays, NEW on \in BOOLEAN,
           Accept(t, r, on)
    PROVE  /\ svc # "exited" /\ known /\ op[t] = None /\ (r \in Pulsed => on)
           /\ accepted' = TRUE /\ clean' = (clean /\ ~on)
           /\ op' = op \/ Starts(op', op, t, "command", r, on)
           /\ UNCHANGED <<relay, lost, svc, outputsReset, known, finished>>
<1>1. /\ svc # "exited" /\ known /\ op[t] = None /\ (r \in Pulsed => on)
      /\ accepted' = TRUE /\ clean' = (clean /\ ~on)
      /\ UNCHANGED <<relay, lost, svc, outputsReset, known, finished>>
  BY DEF Accept, adam
<1>2. op' = op \/ op' = Begun(op, t, "command", r, on)
  BY DEF Accept
<1>3. Starts(Begun(op, t, "command", r, on), op, t, "command", r, on)
  <2> DEFINE job == "command"
  <2>1. job \in Jobs /\ (on => job = "command") /\ (r = None <=> job = "read")
        /\ r \in Relays \cup {None} /\ t \in Writers /\ op \in Ops
    BY WritersApart, NoneAssumption DEF Jobs, NoneAssumption, TypeOK, Ops
  <2> HIDE DEF job
  <2>2. Starts(Begun(op, t, job, r, on), op, t, job, r, on)
    BY <2>1, BegunGoesOn
  <2> QED BY <2>2 DEF job
<1> QED BY <1>1, <1>2, <1>3

\* release_all_outputs cancels tasks and starts with the first relay.
Cancelled == [x \in Writers |-> IF \E r \in Pulsed : slot[r] = x THEN None ELSE op[x]]

LEMMA ReleaseAllStarts ==
    ASSUME TypeOK, NEW job \in {"reset", "final"}, ReleaseAll(job)
    PROVE  /\ Starts(op', Cancelled, Main, job, Foremost(Relays), FALSE)
           /\ \A y \in Writers : Cancelled[y] = op[y] \/ Cancelled[y] = None
           /\ slot' = NoSlots
<1>1. op' = Begun(Cancelled, Main, job, Foremost(Relays), FALSE) /\ slot' = NoSlots
  BY DEF ReleaseAll, Cancelled
<1>2. \A y \in Writers : Cancelled[y] = op[y] \/ Cancelled[y] = None
  BY DEF Cancelled
<1>3. Cancelled \in Ops
  BY DEF Cancelled, Ops, TypeOK
<1>4. Foremost(Relays) \in Relays
  BY ForemostLeast, RelaysOrdered
<1>5. Starts(Begun(Cancelled, Main, job, Foremost(Relays), FALSE), Cancelled, Main, job,
             Foremost(Relays), FALSE)
  <2> DEFINE c == Cancelled
             f == Foremost(Relays)
  <2>1. c \in Ops /\ f \in Relays /\ Main \in Writers
        /\ job \in {"release", "reset", "final"}
    BY <1>3, <1>4, WritersApart
  <2> HIDE DEF c, f
  <2>2. Starts(Begun(c, Main, job, f, FALSE), c, Main, job, f, FALSE)
    BY <2>1, BegunOff
  <2> QED BY <2>2 DEF c, f
<1> QED BY <1>1, <1>2, <1>5

\* The next relay's write, or the inputs once all are released.
LEMMA ReleaseNextStarts ==
    ASSUME TypeOK, NEW job \in {"reset", "final"}, ReleaseNext(job)
    PROVE  /\ op[Main] # None /\ op[Main].job = job /\ op[Main].relay \in Relays
           /\ Following(op[Main].relay) # {}
           /\ Starts(op', op, Main, job, Foremost(Following(op[Main].relay)), FALSE)
           /\ Switches(op[Main].relay, FALSE)
           /\ lost' = lost \ {op[Main].relay} /\ UNCHANGED Service
<1>1. /\ op[Main] # None /\ op[Main].job = job /\ op[Main].on = FALSE
      /\ Switches(op[Main].relay, op[Main].on)
  BY AnsweredSwitches, WritersApart DEF ReleaseNext, OneReleased
<1>2. op[Main].relay \in Relays
  BY <1>1 DEF Switches
<1>3. /\ Following(op[Main].relay) # {}
      /\ op' = Begun(op, Main, job, Foremost(Following(op[Main].relay)), FALSE)
      /\ lost' = lost \ {op[Main].relay} /\ UNCHANGED Service
  BY DEF ReleaseNext, service, Service
<1>4. Foremost(Following(op[Main].relay)) \in Relays
  BY <1>2, <1>3, InOrderAll
<1>5. Starts(op', op, Main, job, Foremost(Following(op[Main].relay)), FALSE)
  <2> DEFINE f == Foremost(Following(op[Main].relay))
  <2>1. f \in Relays /\ Main \in Writers /\ job \in {"release", "reset", "final"}
        /\ op \in Ops /\ op' = Begun(op, Main, job, f, FALSE)
    BY <1>3, <1>4, WritersApart DEF TypeOK, Ops
  <2> HIDE DEF f
  <2>2. Starts(op', op, Main, job, f, FALSE)
    BY <2>1, BegunOff
  <2> QED BY <2>2 DEF f
<1> QED BY <1>1, <1>2, <1>3, <1>5

LEMMA ResetDoneStarts ==
    ASSUME TypeOK, ResetDone
    PROVE  /\ op[Main] # None /\ op[Main].job = "reset" /\ op[Main].relay \in Relays
           /\ Following(op[Main].relay) = {} /\ outputsReset' = TRUE
           /\ Starts(op', op, Main, "read", None, FALSE)
           /\ Switches(op[Main].relay, FALSE)
           /\ lost' = lost \ {op[Main].relay}
           /\ UNCHANGED <<svc, known, accepted, finished, clean>>
<1>1. /\ op[Main] # None /\ op[Main].job = "reset" /\ op[Main].on = FALSE
      /\ Switches(op[Main].relay, op[Main].on)
  <2> DEFINE job == "reset"
  <2>1. Answered(Main, job) /\ job # "read" /\ job # "command" /\ Main \in Writers
    BY WritersApart DEF ResetDone, OneReleased
  <2> HIDE DEF job
  <2>2. op[Main] # None /\ op[Main].job = job /\ op[Main].on = FALSE
        /\ Switches(op[Main].relay, op[Main].on)
    BY <2>1, AnsweredSwitches
  <2> QED BY <2>2 DEF job
<1>2. /\ Following(op[Main].relay) = {} /\ outputsReset' = TRUE
      /\ op' = Begun(op, Main, "read", None, FALSE)
      /\ lost' = lost \ {op[Main].relay}
      /\ UNCHANGED <<svc, known, accepted, finished, clean>>
  BY DEF ResetDone
<1>3. Starts(op', op, Main, "read", None, FALSE)
  BY <1>2, BegunRead, WritersApart DEF TypeOK, Ops
<1> QED BY <1>1, <1>2, <1>3 DEF Switches

LEMMA CycleStarts ==
    ASSUME TypeOK, Cycle
    PROVE  /\ svc = "running" /\ op[Main] = None
           /\ \/ outputsReset /\ Starts(op', op, Main, "read", None, FALSE)
                 /\ slot' = slot
              \/ ~outputsReset /\ ReleaseAll("reset")
           /\ UNCHANGED <<relay, lost>> /\ UNCHANGED Service
<1>1. /\ svc = "running" /\ op[Main] = None
      /\ \/ outputsReset /\ op' = Begun(op, Main, "read", None, FALSE) /\ slot' = slot
         \/ ~outputsReset /\ ReleaseAll("reset")
      /\ UNCHANGED <<relay, lost>> /\ UNCHANGED Service
  BY DEF Cycle, adam, service, history, Service
<1>2. Starts(Begun(op, Main, "read", None, FALSE), op, Main, "read", None, FALSE)
  BY BegunRead, WritersApart DEF TypeOK, Ops
<1> QED BY <1>1, <1>2

LEMMA SwapGoesOn ==
    ASSUME TypeOK, Swap
    PROVE  /\ op' \in Ops /\ \A y \in Writers : GoesOn(op[y], op'[y])
           /\ relay' = [r \in Relays |-> FALSE] /\ lost' = lost /\ UNCHANGED Service
<1>1. op' = Closed(op) /\ relay' = [r \in Relays |-> FALSE] /\ lost' = lost
      /\ UNCHANGED Service
  BY DEF Swap, service, history, Service
<1> QED BY <1>1, ClosedGoesOn DEF TypeOK, Ops

\* A write that was given up lands: a relay it turns on is lost.
LEMMA LandsLateSwitches ==
    ASSUME TypeOK, NEW w \in Sent, LandsLate(w)
    PROVE  /\ w.relay \in Relays /\ w.on \in BOOLEAN /\ Switches(w.relay, w.on)
           /\ lost \subseteq lost' /\ lost' \subseteq lost \cup {w.relay}
           /\ w.on => w.relay \in lost'
           /\ UNCHANGED op /\ UNCHANGED Service
BY DEF LandsLate, Sent, Switches, driver, service, Service

\* What an operation has in flight is a write.
LEMMA InFlightSent ==
    ASSUME TypeOK, NEW x \in Writers
    PROVE  InFlight(x) \subseteq Sent
<1>1. CASE op[x] = None
  BY <1>1 DEF InFlight, At
<1>2. CASE op[x] # None
  <2>1. op[x].relay \in Relays \cup {None} /\ op[x].on \in BOOLEAN
    BY <1>2, UnderWay, OperationTyped
  <2> QED BY <2>1 DEF InFlight, Sent
<1> QED BY <1>1, <1>2

------------------------------------------------------------------------------
(* Types.                                                                    *)

LEMMA TypeInit == Init => TypeOK
<1> SUFFICES ASSUME Init PROVE TypeOK
  OBVIOUS
<1>1. op \in [Writers -> Operation \cup {None}]
  BY DEF Init, NoTasks
<1>2. slot \in [Pulsed -> Tasks \cup {None}] /\ commanded \in [Relays -> BOOLEAN \cup {None}]
  BY DEF Init, NoSlots, NothingCommanded
<1>3. armed \in BOOLEAN
  BY ConstantsAssumption DEF Init, ConstantsAssumption
<1> QED BY <1>1, <1>2, <1>3 DEF Init, TypeOK

LEMMA RecordTyped ==
    ASSUME TypeOK, NEW r \in Relays, NEW on \in BOOLEAN, Record(r, on)
    PROVE  commanded' \in [Relays -> BOOLEAN \cup {None}] /\ settled' \subseteq Relays
BY DEF TypeOK, Record

LEMMA SwitchTyped ==
    ASSUME TypeOK, NEW r, NEW on, Switches(r, on)
    PROVE  relay' \in [Relays -> BOOLEAN]
BY DEF TypeOK, Switches

LEMMA VerdictsTyped == TypeOK => Verdicts \subseteq BOOLEAN
BY DEF TypeOK, Verdicts

\* One part of the state is typed at a time.
LEMMA TypeStepOps == TypeOK /\ [Next]_vars => op' \in Ops
<1> SUFFICES ASSUME TypeOK, [Next]_vars PROVE op' \in Ops
  OBVIOUS
<1>0. op \in Ops /\ NoTasks \in Ops
  BY DEF TypeOK, Ops, NoTasks
<1>1. ASSUME NEW x \in Writers, Operate(x) PROVE op' \in Ops
  BY <1>0, <1>1, OperateDoes DEF Failing, Becomes, Ends
<1>2. ASSUME NEW t \in Tasks, Pulse(t) PROVE op' \in Ops
  <2>1. CASE Released(t)
    <3>1. op' = [op EXCEPT ![t] = None]
      BY <2>1 DEF Released
    <3> QED BY <3>1, EndsTyped, WritersApart DEF Ends
  <2> QED BY <1>2, <2>1, WindowOrRetryOver, PulseStartedBecomes DEF Pulse
<1>3. ASSUME NEW t \in Tasks, MaintainedDone(t) PROVE op' \in Ops
  <2>1. op' = [op EXCEPT ![t] = None]
    BY <1>3 DEF MaintainedDone
  <2> QED BY <2>1, EndsTyped, WritersApart DEF Ends
<1>4. ASSUME NEW t \in Tasks, NEW r \in Relays, NEW on \in BOOLEAN, Accept(t, r, on)
      PROVE  op' \in Ops
  BY <1>0, <1>4, AcceptStarts DEF Starts
<1>5. ASSUME NEW job \in {"reset", "final"}, ReleaseNext(job) PROVE op' \in Ops
  BY <1>5, ReleaseNextStarts DEF Starts
<1>6. CASE Cycle
  BY <1>6, CycleStarts, ReleaseAllStarts DEF Starts
<1>7. CASE ResetDone
  BY <1>7, ResetDoneStarts DEF Starts
<1>8. CASE ReadDone
  <2>1. op' = [op EXCEPT ![Main] = None]
    BY <1>8 DEF ReadDone
  <2> QED BY <2>1, EndsTyped, WritersApart DEF Ends
<1>9. CASE Stop
  BY <1>9, ReleaseAllStarts DEF Stop, Starts
<1>10. CASE Stopped \/ Dies
  BY <1>0, <1>10 DEF Stopped, Leaves, Dies, Exit
<1>11. CASE Swap
  BY <1>11, SwapGoesOn
<1>12. CASE op' = op
  BY <1>0, <1>12
<1> QED
  BY <1>1, <1>2, <1>3, <1>4, <1>5, <1>6, <1>7, <1>8, <1>9, <1>10, <1>11, <1>12
  DEF Next, Boot, Settle, LandsLate, HostWatchdogTrips, driver, vars

LEMMA TypeStepRelay == TypeOK /\ [Next]_vars => relay' \in [Relays -> BOOLEAN]
<1> SUFFICES ASSUME TypeOK, [Next]_vars PROVE relay' \in [Relays -> BOOLEAN]
  OBVIOUS
<1>0. relay \in [Relays -> BOOLEAN]
  BY DEF TypeOK
<1>1. ASSUME NEW x \in Writers, Operate(x) PROVE relay' \in [Relays -> BOOLEAN]
  BY <1>0, <1>1, OperateDoes, SwitchTyped DEF Failing
<1>2. ASSUME NEW x \in Writers, NEW job, Answered(x, job), job # "read"
      PROVE  relay' \in [Relays -> BOOLEAN]
  BY <1>2, AnsweredSwitches, SwitchTyped
<1>3. ASSUME NEW t \in Tasks, Pulse(t) PROVE relay' \in [Relays -> BOOLEAN]
  <2>1. CASE PulseStarted(t)
    BY <2>1, PulseStartedBecomes, SwitchTyped
  <2>2. CASE WindowOver(t) \/ RetryOver(t)
    BY <1>0, <2>2, WindowOrRetryOver
  <2>3. CASE Released(t)
    BY <1>2, <2>3, WritersApart DEF Released
  <2> QED BY <1>3, <2>1, <2>2, <2>3 DEF Pulse
<1>4. ASSUME NEW t \in Tasks, MaintainedDone(t) PROVE relay' \in [Relays -> BOOLEAN]
  BY <1>2, <1>4, WritersApart DEF MaintainedDone
<1>5. ASSUME NEW job \in {"reset", "final"}, ReleaseNext(job)
      PROVE  relay' \in [Relays -> BOOLEAN]
  BY <1>5, ReleaseNextStarts, SwitchTyped
<1>6. CASE ResetDone
  BY <1>6, ResetDoneStarts, SwitchTyped
<1>7. CASE Stopped
  BY <1>0, <1>7 DEF Stopped, Leaves
<1>8. CASE HostWatchdogTrips \/ Swap
  BY <1>8 DEF HostWatchdogTrips, Swap
<1>9. CASE relay' = relay
  BY <1>0, <1>9
<1>10. ASSUME NEW w \in Sent, LandsLate(w) PROVE relay' \in [Relays -> BOOLEAN]
  BY <1>10, LandsLateSwitches, SwitchTyped
<1>11. \/ \E x \in Writers : Operate(x)
       \/ \E t \in Tasks : Pulse(t) \/ MaintainedDone(t)
       \/ \E job \in {"reset", "final"} : ReleaseNext(job)
       \/ ResetDone \/ Stopped \/ HostWatchdogTrips \/ Swap
       \/ \E w \in Sent : LandsLate(w)
       \/ relay' = relay
  BY DEF Next, Boot, Stop, Dies, Accept, Cycle, ReadDone, Settle, adam, vars
<1> QED
  BY <1>1, <1>3, <1>4, <1>5, <1>6, <1>7, <1>8, <1>9, <1>10, <1>11

LEMMA TypeStepSlot == TypeOK /\ [Next]_vars => slot' \in [Pulsed -> Tasks \cup {None}]
<1> SUFFICES ASSUME TypeOK, [Next]_vars PROVE slot' \in [Pulsed -> Tasks \cup {None}]
  OBVIOUS
<1>0. slot \in [Pulsed -> Tasks \cup {None}] /\ NoSlots \in [Pulsed -> Tasks \cup {None}]
  BY DEF TypeOK, NoSlots
<1>1. ASSUME NEW t \in Tasks, PulseStarted(t)
      PROVE  slot' \in [Pulsed -> Tasks \cup {None}]
  BY <1>0, <1>1 DEF PulseStarted
<1>2. ASSUME NEW t \in Tasks, Released(t) PROVE slot' \in [Pulsed -> Tasks \cup {None}]
  BY <1>0, <1>2 DEF Released
<1>3. CASE slot' = NoSlots
  BY <1>0, <1>3
<1>4. CASE slot' = slot
  BY <1>0, <1>4
<1>5. ASSUME NEW x \in Writers, Operate(x) PROVE slot' = slot
  BY <1>5 DEF Operate, ConnectUp, ConnectFails, Verified, VerifyFails, Lands, Fails,
         Raised, driver
<1>6. ASSUME NEW t \in Tasks, Pulse(t)
      PROVE  slot' = slot \/ PulseStarted(t) \/ Released(t)
  BY <1>6 DEF Pulse, WindowOver, RetryOver
<1>7. \/ \E x \in Writers : Operate(x)
      \/ \E t \in Tasks : Pulse(t)
      \/ slot' = NoSlots \/ slot' = slot
  BY DEF Next, Boot, Stop, Stopped, Leaves, Dies, Exit, Accept, MaintainedDone,
         ReleaseNext, Cycle, ReleaseAll, ResetDone, ReadDone, Settle, LandsLate,
         HostWatchdogTrips, Swap, driver, vars
<1> QED BY <1>1, <1>2, <1>3, <1>4, <1>5, <1>6, <1>7

LEMMA TypeStepRecord ==
    TypeOK /\ [Next]_vars => /\ commanded' \in [Relays -> BOOLEAN \cup {None}]
                             /\ settled' \subseteq Relays
<1> DEFINE Goal == /\ commanded' \in [Relays -> BOOLEAN \cup {None}]
                   /\ settled' \subseteq Relays
<1> SUFFICES ASSUME TypeOK, [Next]_vars PROVE Goal
  OBVIOUS
<1>0. commanded \in [Relays -> BOOLEAN \cup {None}] /\ settled \subseteq Relays
  BY DEF TypeOK
<1>1. ASSUME NEW x \in Writers, Operate(x) PROVE UNCHANGED <<commanded, settled>>
  BY <1>1 DEF Operate, ConnectUp, ConnectFails, Verified, VerifyFails, Lands, Fails,
         Raised, driver
<1>2. ASSUME NEW x \in Writers, NEW job, Answered(x, job), job # "read",
             NEW on \in BOOLEAN, Record(op[x].relay, on)
      PROVE  Goal
  BY <1>2, AnsweredSwitches, RecordTyped DEF Switches
<1>3. ASSUME NEW t \in Tasks, Pulse(t) PROVE Goal
  <2>1. CASE PulseStarted(t)
    <3> DEFINE job == "command"
               on == TRUE
    <3>1. Answered(t, job) /\ job # "read" /\ on \in BOOLEAN /\ Record(op[t].relay, on)
      BY <2>1 DEF PulseStarted
    <3> HIDE DEF job, on
    <3> QED BY <1>2, <3>1, WritersApart
  <2>2. CASE WindowOver(t)
    <3> DEFINE on == FALSE
    <3>1. on \in BOOLEAN /\ Record(op[t].relay, on)
      BY <2>2 DEF WindowOver
    <3>2. op[t].relay \in Relays
      BY <2>2, WindowOrRetryOver
    <3> HIDE DEF on
    <3> QED BY <3>1, <3>2, RecordTyped
  <2>3. CASE RetryOver(t) \/ Released(t)
    BY <1>0, <2>3 DEF RetryOver, Released
  <2> QED BY <1>3, <2>1, <2>2, <2>3 DEF Pulse
<1>4. ASSUME NEW t \in Tasks, MaintainedDone(t) PROVE Goal
  <2> DEFINE job == "command"
             on == op[t].on
  <2>1. Answered(t, job) /\ job # "read" /\ Record(op[t].relay, on)
    BY <1>4 DEF MaintainedDone
  <2>2. on \in BOOLEAN
    BY <1>4, AnsweredSwitches, WritersApart DEF MaintainedDone, Switches
  <2> HIDE DEF job, on
  <2> QED BY <1>2, <2>1, <2>2, WritersApart
<1>5. ASSUME NEW job \in {"reset", "final"}, OneReleased(job) PROVE Goal
  <2> DEFINE on == FALSE
  <2>1. Answered(Main, job) /\ job # "read" /\ on \in BOOLEAN
        /\ Record(op[Main].relay, on)
    BY <1>5 DEF OneReleased
  <2> HIDE DEF on
  <2> QED BY <1>2, <2>1, WritersApart
<1>6. ASSUME NEW r \in Relays, Settle(r) PROVE Goal
  BY <1>0, <1>6 DEF Settle
<1>7. ASSUME commanded' = NothingCommanded, settled' = {} PROVE Goal
  BY <1>7 DEF NothingCommanded
<1>8. ASSUME UNCHANGED <<commanded, settled>> PROVE Goal
  BY <1>0, <1>8
<1>9. \/ \E x \in Writers : Operate(x)
      \/ \E t \in Tasks : Pulse(t) \/ MaintainedDone(t)
      \/ \E job \in {"reset", "final"} : OneReleased(job)
      \/ \E r \in Relays : Settle(r)
      \/ commanded' = NothingCommanded /\ settled' = {}
      \/ UNCHANGED <<commanded, settled>>
  BY DEF Next, Boot, Stop, Stopped, Leaves, Dies, Exit, Accept, ReleaseNext, Cycle,
         ResetDone, ReadDone, LandsLate, HostWatchdogTrips, Swap, driver, vars
<1> HIDE DEF Goal
<1>10. Goal
  BY <1>1, <1>3, <1>4, <1>5, <1>6, <1>7, <1>8, <1>9
<1> QED BY <1>10

LEMMA TypeStepLost == TypeOK /\ [Next]_vars => lost' \subseteq Relays
<1> SUFFICES ASSUME TypeOK, [Next]_vars PROVE lost' \subseteq Relays
  OBVIOUS
<1>0. lost \subseteq Relays /\ Pulsed \subseteq Relays
  BY RelaysOrdered DEF TypeOK
<1>1. ASSUME NEW x \in Writers, Operate(x) PROVE lost' \subseteq Relays
  BY <1>0, <1>1, OperateDoes DEF Failing
<1>2. ASSUME NEW t \in Tasks, Pulse(t) PROVE lost' \subseteq Relays
  BY <1>0, <1>2, WindowOrRetryOver, PulseStartedBecomes DEF Pulse, Released
<1>3. ASSUME NEW w \in Sent, LandsLate(w) PROVE lost' \subseteq Relays
  BY <1>0, <1>3, LandsLateSwitches
<1>4. \/ \E x \in Writers : Operate(x)
      \/ \E t \in Tasks : Pulse(t)
      \/ \E w \in Sent : LandsLate(w)
      \/ lost' \subseteq lost
  BY DEF Next, Boot, Stop, Stopped, Leaves, Dies, Exit, Accept, MaintainedDone,
         ReleaseNext, Cycle, ResetDone, ReadDone, Settle, HostWatchdogTrips, Swap,
         history, vars
<1> QED BY <1>0, <1>1, <1>2, <1>3, <1>4

LEMMA TypeStepLate == TypeOK /\ [Next]_vars => late' \subseteq Sent
<1> SUFFICES ASSUME TypeOK, [Next]_vars PROVE late' \subseteq Sent
  OBVIOUS
<1>0. late \subseteq Sent /\ Tasks \subseteq Writers
  BY WritersApart DEF TypeOK
<1>1. ASSUME NEW writes, writes \subseteq Sent, GivenUp(writes)
      PROVE  late' \subseteq Sent
  BY <1>0, <1>1 DEF GivenUp
<1>2. ASSUME NEW x \in Writers, Operate(x) PROVE late' \subseteq Sent
  <2>1. CASE GivenUp(InFlight(x))
    BY <1>1, <2>1, InFlightSent
  <2>2. CASE late' = late
    BY <1>0, <2>2
  <2> QED BY <1>2, <2>1, <2>2 DEF Operate, ConnectUp, ConnectFails, Verified, VerifyFails,
             Lands, Fails, Raised, adam
<1>3. ASSUME NEW job, ReleaseAll(job) PROVE late' \subseteq Sent
  <2> DEFINE writes == UNION {InFlight(slot[r]) : r \in {q \in Pulsed : slot[q] # None}}
  <2>1. ASSUME NEW r \in Pulsed, slot[r] # None PROVE InFlight(slot[r]) \subseteq Sent
    BY <1>0, <2>1, InFlightSent DEF TypeOK
  <2>2. writes \subseteq Sent
    BY <2>1
  <2>3. GivenUp(writes)
    BY <1>3 DEF ReleaseAll
  <2> QED BY <1>1, <2>2, <2>3
<1>4. ASSUME NEW S \in SUBSET Writers, GivenUp(UNION {InFlight(x) : x \in S})
      PROVE  late' \subseteq Sent
  <2>1. UNION {InFlight(x) : x \in S} \subseteq Sent
    BY InFlightSent
  <2> QED BY <1>1, <1>4, <2>1
<1>5. CASE Cycle
  BY <1>0, <1>3, <1>5 DEF Cycle
<1>6. CASE Stop
  BY <1>3, <1>6 DEF Stop
<1>7. CASE Stopped
  BY <1>0, <1>4, <1>7 DEF Stopped, Leaves
<1>8. CASE Dies
  BY <1>4, <1>8 DEF Dies
<1>9. ASSUME NEW t \in Tasks, Pulse(t) PROVE late' = late
  BY <1>9 DEF Pulse, PulseStarted, WindowOver, RetryOver, Released, Answered, adam
<1>10. \/ \E x \in Writers : Operate(x)
       \/ \E t \in Tasks : Pulse(t)
       \/ Stop \/ Stopped \/ Dies \/ Cycle
       \/ late' \subseteq late
  BY DEF Next, Boot, Accept, MaintainedDone, Answered, ReleaseNext, OneReleased,
         ResetDone, ReadDone, Settle, LandsLate, HostWatchdogTrips, Swap, adam, vars
<1> QED BY <1>0, <1>2, <1>5, <1>6, <1>7, <1>8, <1>9, <1>10

LEMMA TypeStepAdam ==
    TypeOK /\ [Next]_vars => failSafe' \in BOOLEAN /\ connected' \in BOOLEAN
                             /\ armed' \in BOOLEAN
<1> DEFINE Goal == failSafe' \in BOOLEAN /\ connected' \in BOOLEAN /\ armed' \in BOOLEAN
<1> SUFFICES ASSUME TypeOK, [Next]_vars PROVE Goal
  OBVIOUS
<1>0. failSafe \in BOOLEAN /\ connected \in BOOLEAN /\ armed \in BOOLEAN
  BY DEF TypeOK
<1>1. (~RequireWatchdog) \in BOOLEAN /\ Verdicts \subseteq BOOLEAN
  BY VerdictsTyped, ConstantsAssumption DEF ConstantsAssumption
<1>2. ASSUME NEW x \in Writers, Operate(x) PROVE Goal
  <2>1. failSafe' = failSafe
    BY <1>2 DEF Operate, ConnectUp, ConnectFails, Verified, VerifyFails, Lands, Fails,
           Raised, adam
  <2>2. connected' \in BOOLEAN
    BY <1>0, <1>2 DEF Operate, ConnectUp, ConnectFails, Verified, VerifyFails, Lands,
           Fails, driver
  <2>3. armed' \in BOOLEAN
    BY <1>0, <1>1, <1>2 DEF Operate, ConnectUp, ConnectFails, Verified, VerifyFails,
           Lands, Fails, driver
  <2> QED BY <1>0, <2>1, <2>2, <2>3
<1>3. CASE Boot
  <2>1. failSafe' = failSafe /\ connected' \in BOOLEAN
    BY <1>3 DEF Boot, adam
  <2>2. armed' \in Verdicts \/ armed' = ~RequireWatchdog
    BY <1>3 DEF Boot
  <2> QED BY <1>0, <1>1, <2>1, <2>2
<1>4. CASE Swap
  BY <1>0, <1>4 DEF Swap
<1>5. CASE Stopped \/ Dies
  <2>1. failSafe' = failSafe /\ connected' = FALSE /\ armed' = ~RequireWatchdog
    BY <1>5 DEF Stopped, Leaves, Dies, Exit
  <2> QED BY <1>0, <1>1, <2>1
<1>6. CASE UNCHANGED <<failSafe, connected, armed>>
  BY <1>0, <1>6
<1>7. ASSUME NEW t \in Tasks, Pulse(t) PROVE UNCHANGED <<failSafe, connected, armed>>
  BY <1>7 DEF Pulse, PulseStarted, WindowOver, RetryOver, Released, Answered, adam
<1>8. \/ \E x \in Writers : Operate(x)
      \/ \E t \in Tasks : Pulse(t)
      \/ Boot \/ Swap \/ Stopped \/ Dies
      \/ UNCHANGED <<failSafe, connected, armed>>
  BY DEF Next, Stop, Accept, MaintainedDone, ReleaseNext, OneReleased, Cycle, Answered,
         ResetDone, ReadDone, Settle, LandsLate, HostWatchdogTrips, adam, driver, vars
<1> HIDE DEF Goal
<1>9. Goal
  <2>1. CASE UNCHANGED <<failSafe, connected, armed>>
    BY <1>6, <2>1
  <2> QED BY <1>2, <1>3, <1>4, <1>5, <1>7, <1>8, <2>1
<1> QED BY <1>9

LEMMA TypeStepService ==
    TypeOK /\ [Next]_vars =>
        /\ svc' \in {"running", "stopping", "exited"}
        /\ outputsReset' \in BOOLEAN /\ known' \in BOOLEAN
        /\ accepted' \in BOOLEAN /\ finished' \in BOOLEAN /\ clean' \in BOOLEAN
<1> DEFINE Goal == /\ svc' \in {"running", "stopping", "exited"}
                   /\ outputsReset' \in BOOLEAN /\ known' \in BOOLEAN
                   /\ accepted' \in BOOLEAN /\ finished' \in BOOLEAN /\ clean' \in BOOLEAN
<1> SUFFICES ASSUME TypeOK, [Next]_vars PROVE Goal
  OBVIOUS
<1>0. /\ svc \in {"running", "stopping", "exited"}
      /\ outputsReset \in BOOLEAN /\ known \in BOOLEAN
      /\ accepted \in BOOLEAN /\ finished \in BOOLEAN /\ clean \in BOOLEAN
  BY DEF TypeOK
<1>1. CASE UNCHANGED Service
  BY <1>0, <1>1 DEF Service
<1>2. ASSUME NEW x \in Writers, Operate(x) PROVE UNCHANGED Service
  BY <1>2, OperateDoes
<1>3. ASSUME NEW t \in Tasks, Pulse(t) PROVE UNCHANGED Service
  BY <1>3, WindowOrRetryOver, PulseStartedBecomes DEF Pulse, Released, service, Service
<1>4. CASE Boot
  BY <1>0, <1>4 DEF Boot
<1>5. CASE Stop
  <2>1. clean' = (\A t \in Tasks : ~Asserting(t))
    BY <1>5 DEF Stop
  <2>2. clean' \in BOOLEAN
    BY Zenon, <2>1
  <2> QED BY <1>0, <1>5, <2>2 DEF Stop
<1>6. CASE Stopped
  BY <1>0, <1>6 DEF Stopped, Leaves, Exit
<1>7. CASE Dies
  BY <1>0, <1>7 DEF Dies, Exit
<1>8. ASSUME NEW t \in Tasks, NEW r \in Relays, NEW on \in BOOLEAN, Accept(t, r, on)
      PROVE  Goal
  <2>1. clean' \in BOOLEAN
    BY Zenon, <1>8, AcceptStarts
  <2> QED BY <1>0, <1>8, <2>1, AcceptStarts
<1>9. CASE ResetDone \/ ReadDone
  BY <1>0, <1>9 DEF ResetDone, ReadDone, history
<1>10. \/ \E x \in Writers : Operate(x)
       \/ \E t \in Tasks : Pulse(t)
       \/ Boot \/ Stop \/ Stopped \/ Dies
       \/ \E t \in Tasks, r \in Relays, on \in BOOLEAN : Accept(t, r, on)
       \/ ResetDone \/ ReadDone
       \/ UNCHANGED Service
  BY DEF Next, MaintainedDone, ReleaseNext, Cycle, Settle, LandsLate,
         HostWatchdogTrips, Swap, service, history, vars, Service
<1> HIDE DEF Goal
<1>11. Goal
  BY <1>1, <1>2, <1>3, <1>4, <1>5, <1>6, <1>7, <1>8, <1>9, <1>10
<1> QED BY <1>11

LEMMA TypeStepFault == TypeOK /\ [Next]_vars => outputFault' \in BOOLEAN
<1> SUFFICES ASSUME TypeOK, [Next]_vars PROVE outputFault' \in BOOLEAN
  OBVIOUS
<1>0. outputFault \in BOOLEAN
  BY DEF TypeOK
<1>1. ASSUME NEW x, Raised(x) PROVE outputFault' \in BOOLEAN
  BY Zenon, <1>1 DEF Raised
<1>2. CASE Boot
  BY Zenon, <1>2 DEF Boot
<1>3. CASE ReadDone
  BY Zenon, <1>3 DEF ReadDone
<1>4. ASSUME NEW x \in Writers, Operate(x)
      PROVE  Raised(x) \/ outputFault' = outputFault
  BY <1>4 DEF Operate, ConnectUp, ConnectFails, Verified, VerifyFails, Lands, Fails,
         service
<1>5. ASSUME NEW t \in Tasks, Pulse(t)
      PROVE  outputFault' = FALSE \/ outputFault' = outputFault
  BY <1>5 DEF Pulse, PulseStarted, WindowOver, RetryOver, Released, service
<1>6. \/ \E x \in Writers : Operate(x)
      \/ \E t \in Tasks : Pulse(t)
      \/ Boot \/ ReadDone
      \/ outputFault' \in {TRUE, FALSE} \/ outputFault' = outputFault
  BY DEF Next, Stop, Stopped, Leaves, Dies, Exit, Accept, MaintainedDone, ReleaseNext,
         Cycle, ResetDone, Settle, LandsLate, HostWatchdogTrips, Swap, service, vars
<1> QED BY <1>0, <1>1, <1>2, <1>3, <1>4, <1>5, <1>6

\* The driver and the service keep their state well formed: a release task is
\* known by the slot of a pulsed relay, only a dispatch asserts a relay, and
\* only a release sleeps.
THEOREM TypeCorrect == Spec => []TypeOK
<1>1. TypeOK /\ [Next]_vars => TypeOK'
  BY TypeStepOps, TypeStepRelay, TypeStepSlot, TypeStepRecord, TypeStepLost,
     TypeStepLate, TypeStepAdam, TypeStepService, TypeStepFault DEF TypeOK, Ops
<1> QED BY TypeInit, <1>1, PTL DEF Spec

------------------------------------------------------------------------------
(* Jobs.                                                                     *)

\* A task goes on with its job, ends, or a dispatch turns into a release.
TaskFollows(o, p) ==
    p = None \/ /\ o # None /\ p # None
                /\ \/ p.job = o.job /\ p.relay = o.relay /\ p.on = o.on
                   \/ p.job = "release" /\ p.relay \in Pulsed

MainFollows(o, p) == p = None \/ (o # None /\ p # None /\ p.job = o.job)

JobsFollow ==
    /\ \A t \in Tasks : TaskFollows(op[t], op'[t])
    /\ MainFollows(op[Main], op'[Main])
    /\ Doing(Main, "final") => op'[Main] # None

LEMMA JobsFrame ==
    ASSUME JobsInv, JobsFollow, op' \in Ops, UNCHANGED Service
    PROVE  JobsInv'
<1>1. /\ svc' = svc /\ outputsReset' = outputsReset /\ known' = known
      /\ accepted' = accepted
  BY DEF Service
<1>2. ASSUME svc = "exited" PROVE op' = NoTasks
  <2>1. \A y \in Writers : op[y] = None
    BY <1>2 DEF JobsInv, NoTasks
  <2>2. \A y \in Writers : op'[y] = None
    BY <2>1, WritersApart DEF JobsFollow, TaskFollows, MainFollows, Writers
  <2> QED BY <2>2 DEF NoTasks, Ops
<1>3. /\ \A t \in Tasks : op'[t] # None => op'[t].job \in {"command", "release"}
      /\ \A t \in Tasks : op'[t] # None /\ op'[t].job = "release" => op'[t].relay \in Pulsed
      /\ \A t \in Tasks : op'[t] # None /\ op'[t].job = "command"
                          /\ op'[t].relay \in Pulsed => op'[t].on
  BY DEF JobsInv, Doing, JobsFollow, TaskFollows
<1>4. op'[Main] # None => op[Main] # None /\ op'[Main].job = op[Main].job
  BY DEF JobsFollow, MainFollows
<1>5. ~accepted => \A t \in Tasks : op'[t] = None
  BY DEF JobsInv, JobsFollow, TaskFollows
<1>6. Doing(Main, "final")' <=> Doing(Main, "final")
  BY <1>4 DEF Doing, JobsFollow
<1> QED BY <1>1, <1>2, <1>3, <1>4, <1>5, <1>6 DEF JobsInv, Doing

LEMMA GoesOnFollow ==
    ASSUME NEW x, \A y \in Writers \ {x} : GoesOn(op[y], op'[y]),
           x = Main \/ TaskFollows(op[x], op'[x]),
           x # Main \/ (MainFollows(op[x], op'[x])
                        /\ (Doing(Main, "final") => op'[Main] # None))
    PROVE  JobsFollow
BY WritersApart DEF GoesOn, JobsFollow, TaskFollows, MainFollows, Doing

\* Likewise when the others keep as they are.
LEMMA KeptGoesOn ==
    ASSUME TypeOK, NEW x, \A y \in Writers \ {x} : op'[y] = op[y]
    PROVE  \A y \in Writers \ {x} : GoesOn(op[y], op'[y])
BY DEF TypeOK, GoesOn

LEMMA JobsInit == Init => JobsInv
BY WritersApart DEF Init, JobsInv, NoTasks, Doing

LEMMA JobsOperate ==
    ASSUME TypeOK, JobsInv, NEW x \in Writers, Operate(x)
    PROVE  JobsInv'
<1>1. op[x] # None /\ UNCHANGED Service
  BY OperateDoes
<1>2. ASSUME NEW stages, Becomes(x, stages) PROVE JobsInv'
  <2>1. JobsFollow
    BY <1>1, <1>2, KeptGoesOn, GoesOnFollow DEF Becomes, TaskFollows, MainFollows
  <2> QED BY <1>1, <1>2, <2>1, JobsFrame DEF Becomes
<1>3. CASE Failing(x)
  <2>1. CASE Ends(x)
    <3>1. JobsFollow
      BY <1>3, <2>1, KeptGoesOn, GoesOnFollow
      DEF Ends, Failing, TaskFollows, MainFollows, Doing
    <3> QED BY <1>1, <2>1, <3>1, JobsFrame DEF Ends
  <2> QED BY <1>2, <1>3, <2>1 DEF Failing
<1>4. CASE op' = op
  <2>1. JobsFollow /\ op' \in Ops
    BY <1>4 DEF JobsFollow, TaskFollows, MainFollows, Doing, TypeOK, Ops
  <2> QED BY <1>1, <2>1, JobsFrame
<1> QED BY <1>2, <1>3, <1>4, OperateDoes

LEMMA JobsPulse ==
    ASSUME TypeOK, JobsInv, NEW t \in Tasks, Pulse(t) \/ MaintainedDone(t)
    PROVE  JobsInv'
<1>0. t # Main /\ t \in Writers
  BY WritersApart
<1>1. CASE PulseStarted(t)
  <2>1. /\ op[t] # None /\ op[t].relay \in Pulsed /\ op' \in Ops
        /\ \A y \in Writers \ {t} : op'[y] = op[y]
        /\ op'[t] # None /\ op'[t].job = "release" /\ op'[t].relay = op[t].relay
        /\ UNCHANGED Service
    BY <1>1, PulseStartedBecomes
  <2>2. JobsFollow
    BY <1>0, <2>1, KeptGoesOn, GoesOnFollow DEF TaskFollows
  <2> QED BY <2>1, <2>2, JobsFrame
<1>2. CASE WindowOver(t) \/ RetryOver(t)
  <2>1. /\ op[t] # None /\ op[t].job = "release" /\ op' \in Ops
        /\ \A y \in Writers \ {t} : GoesOn(op[y], op'[y])
        /\ op'[t] # None /\ op'[t].job = "release" /\ op'[t].relay = op[t].relay
        /\ UNCHANGED Service
    BY <1>2, WindowOrRetryOver
  <2>2. op'[t].relay \in Pulsed
    BY <2>1 DEF JobsInv, Doing
  <2>3. JobsFollow
    BY <1>0, <2>1, <2>2, GoesOnFollow DEF TaskFollows
  <2> QED BY <2>1, <2>3, JobsFrame
<1>3. CASE Released(t) \/ MaintainedDone(t)
  <2>1. op' = [op EXCEPT ![t] = None] /\ UNCHANGED Service
    BY <1>3 DEF Released, MaintainedDone, service, history, Service
  <2>2. Ends(t)
    BY <1>0, <2>1, EndsTyped
  <2>3. JobsFollow
    BY <1>0, <2>2, KeptGoesOn, GoesOnFollow DEF Ends, TaskFollows
  <2> QED BY <2>1, <2>2, <2>3, JobsFrame DEF Ends
<1> QED BY <1>1, <1>2, <1>3 DEF Pulse

LEMMA JobsAccept ==
    ASSUME TypeOK, JobsInv, NEW t \in Tasks, NEW r \in Relays, NEW on \in BOOLEAN,
           Accept(t, r, on)
    PROVE  JobsInv'
<1>0. /\ svc # "exited" /\ svc' = svc /\ known /\ known' = known
      /\ (r \in Pulsed => on) /\ outputsReset' = outputsReset /\ accepted' = TRUE /\ op[t] = None
      /\ op' = op \/ Starts(op', op, t, "command", r, on)
  BY AcceptStarts
<1>1. CASE op' = op
  BY <1>0, <1>1 DEF JobsInv, Doing
<1>2. CASE Starts(op', op, t, "command", r, on)
  <2>1. /\ op'[t] # None /\ op'[t].job = "command"
        /\ op'[t].relay = r /\ op'[t].on = on
        /\ \A y \in Writers \ {t} : GoesOn(op[y], op'[y])
    BY <1>2 DEF Starts
  <2>2. \A u \in Tasks : op'[u] # None =>
            \/ u = t
            \/ /\ op[u] # None /\ op'[u].job = op[u].job
               /\ op'[u].relay = op[u].relay /\ op'[u].on = op[u].on
    BY <2>1, WritersApart DEF GoesOn
  <2>3. /\ op'[Main] = None <=> op[Main] = None
        /\ op'[Main] # None => op'[Main].job = op[Main].job
    BY <2>1, WritersApart DEF GoesOn
  <2> QED BY <1>0, <2>1, <2>2, <2>3 DEF JobsInv, Doing
<1> QED BY <1>0, <1>1, <1>2

\* The main task starts an operation of another kind.
LEMMA JobsMain ==
    ASSUME JobsInv, NEW o \in Ops, NEW job \in {"reset", "read", "final"}, NEW r,
           Starts(op', o, Main, job, r, FALSE),
           \A y \in Tasks : o[y] = op[y] \/ o[y] = None,
           known' = known, accepted' = accepted, svc' # "exited",
           job = "reset" => ~outputsReset', job = "read" => outputsReset',
           job = "final" <=> svc' = "stopping", known => outputsReset'
    PROVE  JobsInv'
<1>1. op'[Main] # None /\ op'[Main].job = job
      /\ \A y \in Writers \ {Main} : GoesOn(o[y], op'[y])
  BY DEF Starts
<1>2. \A t \in Tasks : op'[t] # None =>
          /\ op[t] # None /\ op'[t].job = op[t].job
          /\ op'[t].relay = op[t].relay /\ op'[t].on = op[t].on
  BY <1>1, WritersApart DEF GoesOn
<1> QED BY <1>1, <1>2 DEF JobsInv, Doing

LEMMA JobsLoop ==
    ASSUME TypeOK, JobsInv, Cycle \/ ResetDone \/ ReadDone
    PROVE  JobsInv'
<1>0. op \in Ops
  BY DEF TypeOK, Ops
<1>1. CASE Cycle
  <2>1. svc = "running" /\ UNCHANGED Service
    BY <1>1, CycleStarts
  <2>2. ASSUME outputsReset, Starts(op', op, Main, "read", None, FALSE) PROVE JobsInv'
    BY <1>0, <2>1, <2>2, JobsMain DEF Service
  <2>3. ASSUME ~outputsReset, ReleaseAll("reset") PROVE JobsInv'
    <3>1. /\ Starts(op', Cancelled, Main, "reset", Foremost(Relays), FALSE)
          /\ \A y \in Writers : Cancelled[y] = op[y] \/ Cancelled[y] = None
      BY <2>3, ReleaseAllStarts
    <3>2. Cancelled \in Ops
      BY DEF Cancelled, TypeOK, Ops
    <3>3. ~known
      BY <2>3 DEF JobsInv
    <3> QED BY <2>1, <2>3, <3>1, <3>2, <3>3, WritersApart, JobsMain DEF Service
  <2> QED BY <1>1, <2>2, <2>3, CycleStarts
<1>2. CASE ResetDone
  <2>1. /\ op[Main] # None /\ op[Main].job = "reset" /\ outputsReset' = TRUE
        /\ Starts(op', op, Main, "read", None, FALSE)
        /\ svc' = svc /\ known' = known /\ accepted' = accepted
    BY <1>2, ResetDoneStarts
  <2>2. svc # "exited" /\ svc # "stopping"
    BY <2>1, WritersApart DEF JobsInv, NoTasks, Doing
  <2> QED BY <1>0, <2>1, <2>2, JobsMain
<1>3. CASE ReadDone
  <2>1. /\ op[Main] # None /\ op[Main].job = "read" /\ known' = TRUE
        /\ op' = [op EXCEPT ![Main] = None]
        /\ svc' = svc /\ outputsReset' = outputsReset /\ accepted' = accepted
    BY <1>3 DEF ReadDone, At, Doing, history
  <2>2. Ends(Main)
    BY <2>1, WritersApart, EndsTyped
  <2>3. op'[Main] = None /\ \A t \in Tasks : op'[t] = op[t]
    BY <2>2, WritersApart DEF Ends
  <2>4. svc # "exited" /\ svc # "stopping" /\ outputsReset
    BY <2>1, WritersApart DEF JobsInv, NoTasks, Doing
  <2> QED BY <2>1, <2>3, <2>4 DEF JobsInv, Doing
<1> QED BY <1>1, <1>2, <1>3

LEMMA JobsReleaseNext ==
    ASSUME TypeOK, JobsInv, NEW job \in {"reset", "final"}, ReleaseNext(job)
    PROVE  JobsInv'
<1>1. /\ op[Main] # None /\ op[Main].job = job /\ UNCHANGED Service
      /\ Starts(op', op, Main, job, Foremost(Following(op[Main].relay)), FALSE)
  BY ReleaseNextStarts
<1>2. /\ op' \in Ops /\ op'[Main] # None /\ op'[Main].job = job
      /\ \A y \in Writers \ {Main} : GoesOn(op[y], op'[y])
  BY <1>1 DEF Starts
<1>3. JobsFollow
  BY <1>1, <1>2, GoesOnFollow, WritersApart DEF MainFollows
<1> QED BY <1>1, <1>2, <1>3, JobsFrame

LEMMA JobsLife ==
    ASSUME TypeOK, JobsInv, Boot \/ Stop \/ Stopped \/ Dies
    PROVE  JobsInv'
<1>1. CASE Boot
  BY <1>1, WritersApart DEF Boot, JobsInv, NoTasks, Doing
<1>2. CASE Stop
  <2>1. /\ ReleaseAll("final") /\ svc = "running" /\ svc' = "stopping"
        /\ known' = known /\ accepted' = accepted /\ outputsReset' = outputsReset
    BY <1>2 DEF Stop
  <2>2. /\ Starts(op', Cancelled, Main, "final", Foremost(Relays), FALSE)
        /\ \A y \in Writers : Cancelled[y] = op[y] \/ Cancelled[y] = None
    BY <2>1, ReleaseAllStarts
  <2>3. Cancelled \in Ops
    BY DEF Cancelled, TypeOK, Ops
  <2>4. known => outputsReset'
    BY <2>1 DEF JobsInv
  <2> QED BY <2>1, <2>2, <2>3, <2>4, WritersApart, JobsMain
<1>3. CASE Stopped \/ Dies
  <2>1. /\ svc' = "exited" /\ op' = NoTasks /\ ~outputsReset' /\ ~known' /\ ~accepted'
    BY <1>3 DEF Stopped, Leaves, Dies, Exit
  <2>2. \A y \in Writers : op'[y] = None
    BY <2>1 DEF NoTasks
  <2>3. (op = NoTasks)'
    BY <2>1 DEF NoTasks
  <2> QED BY <2>1, <2>2, <2>3, WritersApart DEF JobsInv, Doing
<1> QED BY <1>1, <1>2, <1>3

LEMMA JobsStep == TypeOK /\ JobsInv /\ [Next]_vars => JobsInv'
<1> SUFFICES ASSUME TypeOK, JobsInv, [Next]_vars PROVE JobsInv'
  OBVIOUS
<1>1. CASE Swap
  <2>1. op' \in Ops /\ UNCHANGED Service /\ \A y \in Writers : GoesOn(op[y], op'[y])
    BY <1>1, SwapGoesOn
  <2>2. JobsFollow
    BY <2>1, GoesOnFollow, WritersApart DEF GoesOn, MainFollows, Doing
  <2> QED BY <2>1, <2>2, JobsFrame
<1>2. CASE op' = op /\ UNCHANGED Service
  BY <1>2 DEF JobsInv, Service, Doing
<1>3. \/ Boot \/ Stop \/ Stopped \/ Dies
      \/ \E x \in Writers : Operate(x)
      \/ \E t \in Tasks : Pulse(t) \/ MaintainedDone(t)
      \/ \E t \in Tasks, r \in Relays, on \in BOOLEAN : Accept(t, r, on)
      \/ \E job \in {"reset", "final"} : ReleaseNext(job)
      \/ Cycle \/ ResetDone \/ ReadDone \/ Swap
      \/ op' = op /\ UNCHANGED Service
  BY DEF Next, Settle, LandsLate, HostWatchdogTrips, driver, service, history, vars,
         Service
<1> QED
  BY <1>1, <1>2, <1>3, JobsLife, JobsOperate, JobsPulse, JobsAccept, JobsReleaseNext,
     JobsLoop

------------------------------------------------------------------------------
(* The startup reset.                                                        *)

\* No relay is turned on, but by a write that was given up.
OnlyOff == \A r \in Relays : On(r)' => On(r)

LEMMA SwitchedOff ==
    ASSUME TypeOK, NEW r, NEW on, Switches(r, on), ~on, lost \ {r} \subseteq lost'
    PROVE  OnlyOff /\ ~On(r)' /\ r \in Relays
BY DEF Switches, OnlyOff, On, TypeOK

LEMMA AllSwitchedOff ==
    ASSUME HostWatchdogTrips \/ Swap
    PROVE  \A r \in Relays : ~relay'[r]
<1>1. relay' = [r \in Relays |-> FALSE]
  BY DEF HostWatchdogTrips, Swap
<1> QED BY <1>1

LEMMA LandsLateOnlyOff ==
    ASSUME TypeOK, NEW w \in Sent, LandsLate(w)
    PROVE  OnlyOff
<1>1. CASE w.on
  BY <1>1, LandsLateSwitches DEF Switches, OnlyOff, On, TypeOK
<1>2. CASE ~w.on
  BY <1>2, LandsLateSwitches, SwitchedOff
<1> QED BY <1>1, <1>2

\* The release goes on with the next relay: those behind it stay off.
LEMMA BehindNext ==
    ASSUME TypeOK, Behind, NEW job \in {"reset", "final"}, ReleaseNext(job)
    PROVE  Behind'
<1>1. PICK r \in Relays : r = op[Main].relay
  BY ReleaseNextStarts
<1> DEFINE f == Foremost(Following(r))
           on == FALSE
<1>2. /\ Following(r) # {} /\ Switches(r, on) /\ lost' = lost \ {r}
      /\ op'[Main].relay = f
  BY <1>1, ReleaseNextStarts DEF Starts
<1>3. \A q \in Relays : ReleaseOrder[q] < ReleaseOrder[f] =>
          q = r \/ ReleaseOrder[q] < ReleaseOrder[r]
  BY <1>2, InOrderAll
<1>4. ~on
  OBVIOUS
<1> HIDE DEF f, on
<1>5. OnlyOff /\ ~On(r)'
  BY <1>2, <1>4, SwitchedOff
<1>6. \A q \in Relays : ReleaseOrder[q] < ReleaseOrder[r] => ~On(q)
  BY <1>1 DEF Behind
<1>7. \A q \in Relays : ReleaseOrder[q] < ReleaseOrder[f] => ~On(q)'
  BY <1>3, <1>5, <1>6 DEF OnlyOff
<1> QED BY <1>2, <1>7 DEF Behind

\* The answer to its last write leaves every relay off.
LEMMA BehindAll ==
    ASSUME TypeOK, Behind, op[Main].relay \in Relays, Following(op[Main].relay) = {},
           Switches(op[Main].relay, FALSE), lost' = lost \ {op[Main].relay}
    PROVE  AllOff'
<1>1. PICK r \in Relays : r = op[Main].relay
  OBVIOUS
<1> DEFINE on == FALSE
<1>2. Switches(r, on) /\ ~on /\ lost' = lost \ {r}
  BY <1>1
<1> HIDE DEF on
<1>3. OnlyOff /\ ~On(r)'
  BY <1>2, SwitchedOff
<1>4. \A q \in Relays : q = r \/ ReleaseOrder[q] < ReleaseOrder[r]
  BY <1>1, InOrderAll
<1>5. \A q \in Relays : ReleaseOrder[q] < ReleaseOrder[r] => ~On(q)
  BY <1>1 DEF Behind
<1> QED BY <1>3, <1>4, <1>5 DEF OnlyOff, AllOff

\* It starts with no relay behind it.
LEMMA BehindNone ==
    ASSUME op'[Main].relay = Foremost(Relays)
    PROVE  Behind'
<1>1. /\ Foremost(Relays) \in Relays
      /\ \A q \in Relays : ReleaseOrder[Foremost(Relays)] <= ReleaseOrder[q]
  BY ForemostLeast, RelaysOrdered
<1>2. \A q \in Relays : ~(ReleaseOrder[q] < ReleaseOrder[Foremost(Relays)])
  <2> DEFINE f == Foremost(Relays)
  <2>1. f \in Relays /\ \A q \in Relays : ReleaseOrder[f] <= ReleaseOrder[q]
    BY <1>1
  <2> HIDE DEF f
  <2>2. \A q \in Relays : ~(ReleaseOrder[q] < ReleaseOrder[f])
    BY <2>1, RelaysOrdered
  <2> QED BY <2>2 DEF f
<1> QED BY <1>2 DEF Behind

LEMMA ResetInit == Init => ResetInv
BY WritersApart DEF Init, ResetInv, NoTasks, Doing

\* While nothing was accepted the main task writes alone, and only OFF.
LEMMA ResetOperate ==
    ASSUME TypeOK, JobsInv, ResetInv, ~accepted, NEW x \in Writers, Operate(x)
    PROVE  ResetInv'
<1>1. x = Main /\ op[Main] # None /\ op[Main] \in Operation
  BY OperateDoes, UnderWay, WritersApart DEF JobsInv, Writers
<1>2. outputsReset' = outputsReset /\ accepted' = accepted
  BY OperateDoes DEF Service
<1>3. ASSUME NEW stages, Becomes(Main, stages), OnlyOff PROVE ResetInv'
  <2>1. op'[Main] # None /\ op'[Main].job = op[Main].job /\ op'[Main].relay = op[Main].relay
    BY <1>3 DEF Becomes
  <2>2. Doing(Main, "reset")' => Behind'
    BY <1>1, <1>3, <2>1 DEF ResetInv, Doing, Behind, OnlyOff
  <2> QED BY <1>2, <1>3, <2>2 DEF ResetInv, AllOff, OnlyOff
<1>4. CASE Failing(Main)
  <2>1. OnlyOff
    BY <1>4 DEF Failing, OnlyOff, On
  <2>2. CASE Ends(Main)
    BY <1>2, <2>1, <2>2 DEF Ends, ResetInv, Doing, AllOff, OnlyOff
  <2> QED BY <1>3, <1>4, <2>1, <2>2 DEF Failing
<1>5. ASSUME Switches(op[Main].relay, op[Main].on), UNCHANGED <<op, lost>> PROVE ResetInv'
  <2>1. ~op[Main].on
    BY <1>1, OperationTyped DEF JobsInv
  <2>2. OnlyOff
    BY <1>5, <2>1, SwitchedOff
  <2> QED BY <1>2, <1>5, <2>2 DEF ResetInv, Doing, Behind, AllOff, OnlyOff
<1>6. ASSUME UNCHANGED <<relay, lost>> PROVE OnlyOff
  BY <1>6 DEF OnlyOff, On
<1> QED BY <1>1, <1>3, <1>4, <1>5, <1>6, OperateDoes

LEMMA ResetLoop ==
    ASSUME TypeOK, JobsInv, ResetInv, ~accepted, Cycle \/ ResetDone \/ ReadDone
    PROVE  ResetInv'
<1>1. CASE Cycle
  <2>1. UNCHANGED <<relay, lost, outputsReset, accepted>>
    BY <1>1, CycleStarts DEF Service
  <2>2. ASSUME Starts(op', op, Main, "read", None, FALSE) PROVE ResetInv'
    BY <2>1, <2>2 DEF Starts, ResetInv, Doing, AllOff, On
  <2>3. ASSUME ReleaseAll("reset") PROVE ResetInv'
    <3>1. Behind'
      BY <2>3, ReleaseAllStarts, BehindNone DEF Starts
    <3> QED BY <2>1, <3>1 DEF ResetInv, AllOff, On
  <2> QED BY <1>1, <2>2, <2>3, CycleStarts
<1>2. CASE ResetDone
  <2>1. Doing(Main, "reset") /\ op'[Main] # None /\ op'[Main].job = "read"
    BY <1>2, ResetDoneStarts DEF Doing, Starts
  <2>2. AllOff'
    BY <1>2, <2>1, ResetDoneStarts, BehindAll DEF ResetInv
  <2> QED BY <2>1, <2>2 DEF ResetInv, Doing
<1>3. CASE ReadDone
  <2>1. /\ UNCHANGED <<relay, lost, outputsReset, accepted>>
        /\ op' = [op EXCEPT ![Main] = None]
    BY <1>3 DEF ReadDone, adam, history
  <2>2. op'[Main] = None
    BY <2>1, WritersApart, EndsTyped DEF Ends
  <2> QED BY <2>1, <2>2 DEF ResetInv, Doing, AllOff, On
<1> QED BY <1>1, <1>2, <1>3

LEMMA ResetStep == TypeOK /\ JobsInv /\ ResetInv /\ [Next]_vars => ResetInv'
<1> SUFFICES ASSUME TypeOK, JobsInv, ResetInv, [Next]_vars PROVE ResetInv'
  OBVIOUS
<1>0. JobsInv'
  BY JobsStep
<1>1. CASE accepted'
  BY <1>0, <1>1 DEF JobsInv, ResetInv, Doing
<1>2. CASE Stopped \/ Dies
  <2>1. op' = NoTasks /\ ~outputsReset'
    BY <1>2 DEF Stopped, Leaves, Dies, Exit
  <2> QED BY <2>1, WritersApart DEF ResetInv, NoTasks, Doing
<1>3. ASSUME ~accepted', ~Stopped, ~Dies PROVE ~accepted
  <2>1. \/ accepted' = accepted
        \/ \E t \in Tasks, r \in Relays, on \in BOOLEAN : Accept(t, r, on)
        \/ \E x \in Writers : Operate(x)
        \/ \E t \in Tasks : Pulse(t)
    BY <1>3 DEF Next, Boot, Stop, MaintainedDone, ReleaseNext, Cycle, ResetDone,
           ReadDone, Settle, LandsLate, HostWatchdogTrips, Swap, history, vars
  <2>2. ASSUME NEW t \in Tasks, Pulse(t) PROVE accepted' = accepted
    BY <2>2, WindowOrRetryOver, PulseStartedBecomes DEF Pulse, Released, Service
  <2> QED BY <1>3, <2>1, <2>2, AcceptStarts, OperateDoes DEF Service
<1>4. ASSUME ~accepted PROVE ResetInv'
  <2>1. ASSUME NEW t \in Tasks, Pulse(t) \/ MaintainedDone(t) PROVE FALSE
    <3>1. op[t] # None
      BY <2>1 DEF Pulse, PulseStarted, WindowOver, RetryOver, Released, MaintainedDone,
             Answered, At
    <3> QED BY <1>4, <3>1 DEF JobsInv
  <2>2. ASSUME NEW job \in {"reset", "final"}, ReleaseNext(job) PROVE ResetInv'
    <3>1. /\ op[Main] # None /\ op[Main].job = job /\ op'[Main].job = job
          /\ Switches(op[Main].relay, FALSE) /\ lost' = lost \ {op[Main].relay}
          /\ UNCHANGED Service
      BY <2>2, ReleaseNextStarts DEF Starts
    <3>2. OnlyOff
      <4> DEFINE on == FALSE
                 r == op[Main].relay
      <4>1. Switches(r, on) /\ ~on /\ lost \ {r} \subseteq lost'
        BY <3>1
      <4> HIDE DEF on, r
      <4> QED BY <4>1, SwitchedOff
    <3>3. AllOff => AllOff'
      BY <3>2 DEF AllOff, OnlyOff
    <3>4. job = "reset" => Behind'
      BY <2>2, <3>1, BehindNext DEF ResetInv, Doing
    <3> QED BY <3>1, <3>3, <3>4 DEF ResetInv, Doing, Service
  <2>3. CASE HostWatchdogTrips \/ Swap
    <3>1. \A r \in Relays : ~On(r)'
      BY <2>3, AllSwitchedOff DEF On
    <3> QED BY <3>1 DEF ResetInv, Behind, AllOff
  <2>4. CASE Stop
    <3>1. op'[Main].job = "final" /\ UNCHANGED <<relay, lost, outputsReset, accepted>>
      BY <2>4, ReleaseAllStarts DEF Stop, Starts
    <3> QED BY <3>1 DEF ResetInv, Doing, AllOff, On
  <2>5. CASE UNCHANGED <<op, relay, lost, outputsReset, accepted>>
    BY <2>5 DEF ResetInv, Doing, Behind, AllOff, On
  <2>6. \/ Stop \/ Stopped \/ Dies
        \/ \E x \in Writers : Operate(x)
        \/ \E t \in Tasks : Pulse(t) \/ MaintainedDone(t)
        \/ accepted'
        \/ \E job \in {"reset", "final"} : ReleaseNext(job)
        \/ Cycle \/ ResetDone \/ ReadDone \/ HostWatchdogTrips \/ Swap
        \/ \E w \in Sent : LandsLate(w)
        \/ UNCHANGED <<op, relay, lost, outputsReset, accepted>>
    BY DEF Next, Boot, Accept, Settle, adam, service, driver, history, vars
  <2>7. ASSUME NEW w \in Sent, LandsLate(w) PROVE ResetInv'
    <3>1. OnlyOff /\ UNCHANGED op /\ UNCHANGED Service
      BY <2>7, LandsLateOnlyOff, LandsLateSwitches
    <3> QED BY <3>1 DEF ResetInv, Doing, Behind, AllOff, OnlyOff, Service
  <2> QED
    BY <1>1, <1>2, <1>4, <2>1, <2>2, <2>3, <2>4, <2>5, <2>6, <2>7, ResetOperate, ResetLoop
<1> QED BY <1>1, <1>2, <1>3, <1>4

\* Whatever an earlier instance left on, the relays are off by the time a
\* command can be accepted, and stay off until one is, but for a write of that
\* instance that lands only then: the reset goes through all of them, and
\* meanwhile nobody else writes.
THEOREM StartIsReleased == Spec => []StartReleased
<1>1. Init => TypeOK /\ JobsInv /\ ResetInv
  BY TypeInit, JobsInit, ResetInit
<1>2. TypeOK /\ JobsInv /\ ResetInv /\ [Next]_vars => JobsInv' /\ ResetInv'
  BY JobsStep, ResetStep
<1>3. JobsInv /\ ResetInv => StartReleased
  BY DEF JobsInv, ResetInv, AllOff, On, StartReleased
<1> QED BY <1>1, <1>2, <1>3, TypeCorrect, PTL DEF Spec

------------------------------------------------------------------------------
(* Pulses.                                                                   *)

\* A relay that is on after the step was so before, and still has its holder.
Held(r) ==
    \/ r \in lost' \/ \E t \in Tasks : Holder(t, r)'
    \/ /\ relay[r] /\ (r \in lost => r \in lost')
       /\ \A t \in Tasks : Holder(t, r) => Holder(t, r)'

LEMMA PulseFrame ==
    ASSUME PulseInv, svc' = svc, outputsReset' = outputsReset,
           \A r \in Pulsed : relay'[r] => Held(r)
    PROVE  PulseInv'
<1> SUFFICES ASSUME svc = "running", outputsReset, NEW r \in Pulsed, relay'[r]
             PROVE  r \in lost' \/ \E t \in Tasks : Holder(t, r)'
  BY DEF PulseInv
<1>1. Held(r)
  OBVIOUS
<1>2. relay[r] => r \in lost \/ \E t \in Tasks : Holder(t, r)
  BY DEF PulseInv
<1> QED BY <1>1, <1>2 DEF Held

\* A holder keeps its relay whatever becomes of the client.
LEMMA GoesOnHolds ==
    ASSUME NEW t \in Tasks, NEW r, GoesOn(op[t], op'[t]), Holder(t, r)
    PROVE  Holder(t, r)'
BY DEF GoesOn, Holder

LEMMA PulseInit == Init => PulseInv
BY DEF Init, PulseInv

LEMMA PulseOperate ==
    ASSUME TypeOK, JobsInv, PulseInv, NEW x \in Writers, Operate(x)
    PROVE  PulseInv'
<1> SUFFICES ASSUME NEW r \in Pulsed, relay'[r] PROVE Held(r)
  BY PulseFrame, OperateDoes DEF Service
<1>0. op[x] # None /\ op[x] \in Operation
  BY OperateDoes, UnderWay
<1>1. CASE Failing(x)
  <2>1. relay[r] /\ (r \in lost => r \in lost')
    BY <1>1 DEF Failing
  <2>2. \A y \in Writers \ {x} : op'[y] = op[y]
    BY <1>1 DEF Failing, Becomes, Ends
  <2>3. ASSUME NEW t \in Tasks, Holder(t, r) PROVE r \in lost' \/ Holder(t, r)'
    <3>1. CASE t # x
      BY <2>2, <2>3, <3>1, WritersApart DEF Holder
    <3>2. CASE t = x /\ op[x].job = "release"
      BY <1>0, <1>1, <2>3, <3>2 DEF Failing, Becomes, Holder, Doing
    <3>3. CASE t = x /\ op[x].job = "command"
      <4>1. op[x].on
        BY <2>3, <3>3 DEF JobsInv, Doing, Holder
      <4> QED BY <1>0, <1>1, <2>1, <2>3, <3>3, <4>1 DEF Failing, Holder, Doing
    <3> QED BY <2>3, <3>1, <3>2, <3>3 DEF Holder
  <2> QED BY <2>1, <2>3 DEF Held
<1>2. ASSUME NEW stages, op[x].at \in {"connect", "verify"}, Becomes(x, stages),
             UNCHANGED <<relay, lost>>
      PROVE  Held(r)
  BY <1>0, <1>2, WritersApart DEF Becomes, Holder, Held
<1>3. ASSUME op[x].at = "send", Switches(op[x].relay, op[x].on), UNCHANGED <<op, lost>>
      PROVE  Held(r)
  <2>1. CASE op[x].on /\ op[x].relay = r
    <3>1. op[x].job = "command"
      BY <1>0, <2>1, OperationTyped
    <3>2. x \in Tasks
      BY <1>0, <3>1, WritersApart DEF JobsInv, Writers
    <3>3. Holder(x, r)'
      BY <1>0, <1>3, <2>1, <3>1 DEF Holder
    <3> QED BY <3>2, <3>3 DEF Held
  <2>2. CASE op[x].relay # r \/ ~op[x].on
    <3>1. relay[r]
      BY <1>3, <2>2, RelaysOrdered DEF Switches, TypeOK
    <3> QED BY <1>3, <3>1 DEF Held, Holder
  <2> QED BY <2>1, <2>2
<1> QED BY <1>1, <1>2, <1>3, OperateDoes

LEMMA PulsePulse ==
    ASSUME TypeOK, JobsInv, PulseInv, NEW t \in Tasks, Pulse(t) \/ MaintainedDone(t)
    PROVE  PulseInv'
<1>0. t \in Writers /\ \A u \in Tasks : u \in Writers
  BY WritersApart
<1>1. CASE PulseStarted(t)
  <2>1. /\ op[t] # None /\ \A y \in Writers \ {t} : op'[y] = op[y]
        /\ op'[t] # None /\ op'[t].job = "release" /\ op'[t].relay = op[t].relay
        /\ Switches(op[t].relay, op[t].on) /\ lost' = lost
        /\ svc' = svc /\ outputsReset' = outputsReset
    BY <1>1, PulseStartedBecomes DEF Service
  <2>2. ASSUME NEW r \in Pulsed, relay'[r] PROVE Held(r)
    <3>1. CASE r = op[t].relay
      BY <2>1, <3>1 DEF Held, Holder
    <3>2. CASE r # op[t].relay
      <4>1. relay[r]
        BY <2>1, <2>2, <3>2, RelaysOrdered DEF Switches, TypeOK
      <4>2. \A u \in Tasks : Holder(u, r) => Holder(u, r)'
        BY <1>0, <2>1, <3>2 DEF Holder
      <4> QED BY <2>1, <4>1, <4>2 DEF Held
    <3> QED BY <3>1, <3>2
  <2> QED BY <2>1, <2>2, PulseFrame
<1>2. CASE WindowOver(t) \/ RetryOver(t)
  <2>1. /\ op[t] # None /\ op[t].job = "release"
        /\ \A y \in Writers \ {t} : GoesOn(op[y], op'[y])
        /\ op'[t] # None /\ op'[t].job = "release" /\ op'[t].relay = op[t].relay
        /\ relay' = relay /\ lost' = lost /\ svc' = svc /\ outputsReset' = outputsReset
    BY <1>2, WindowOrRetryOver DEF Service
  <2>2. ASSUME NEW r, NEW u \in Tasks, Holder(u, r) PROVE Holder(u, r)'
    <3>1. CASE u = t
      BY <2>1, <2>2, <3>1 DEF Holder
    <3>2. CASE u # t
      BY <1>0, <2>1, <2>2, <3>2, GoesOnHolds
    <3> QED BY <3>1, <3>2
  <2> QED BY <2>1, <2>2, PulseFrame DEF Held
<1>3. ASSUME NEW job, Answered(t, job), job # "read", Ends(t),
             job = "release" \/ op[t].relay \notin Pulsed,
             lost' = lost \ {op[t].relay}, svc' = svc, outputsReset' = outputsReset
      PROVE  PulseInv'
  <2>1. /\ Switches(op[t].relay, op[t].on) /\ (job = "release" => op[t].on = FALSE)
    BY <1>0, <1>3, AnsweredSwitches
  <2>2. ASSUME NEW r \in Pulsed, relay'[r] PROVE Held(r)
    <3>1. r # op[t].relay
      BY <1>3, <2>1, <2>2 DEF Switches, TypeOK
    <3>2. relay[r]
      BY <2>1, <2>2, <3>1, RelaysOrdered DEF Switches, TypeOK
    <3>3. \A u \in Tasks : Holder(u, r) => Holder(u, r)'
      BY <1>0, <1>3, <3>1 DEF Holder, Ends
    <3> QED BY <1>3, <3>1, <3>2, <3>3 DEF Held
  <2> QED BY <1>3, <2>2, PulseFrame
<1>4. CASE Released(t)
  <2> DEFINE job == "release"
  <2>1. /\ Answered(t, job) /\ job = "release" /\ job # "read"
        /\ lost' = lost \ {op[t].relay} /\ svc' = svc /\ outputsReset' = outputsReset
        /\ op' = [op EXCEPT ![t] = None]
    BY <1>4 DEF Released, service
  <2>2. Ends(t)
    BY <1>0, <2>1, EndsTyped
  <2> HIDE DEF job
  <2> QED BY <1>3, <2>1, <2>2
<1>5. CASE MaintainedDone(t)
  <2> DEFINE job == "command"
  <2>1. /\ Answered(t, job) /\ job # "read" /\ op[t].relay \notin Pulsed
        /\ lost' = lost \ {op[t].relay} /\ svc' = svc /\ outputsReset' = outputsReset
        /\ op' = [op EXCEPT ![t] = None]
    BY <1>5, RelaysOrdered DEF MaintainedDone
  <2>2. Ends(t)
    BY <1>0, <2>1, EndsTyped
  <2> HIDE DEF job
  <2> QED BY <1>3, <2>1, <2>2
<1> QED BY <1>1, <1>2, <1>4, <1>5 DEF Pulse

\* The tasks keep their relays while the main task works.
LEMMA PulseMain ==
    ASSUME TypeOK, PulseInv, svc' = svc, outputsReset' = outputsReset,
           \A t \in Tasks : GoesOn(op[t], op'[t]),
           \/ UNCHANGED <<relay, lost>>
           \/ \E r \in Relays : Switches(r, FALSE) /\ lost' = lost \ {r}
    PROVE  PulseInv'
<1> SUFFICES ASSUME NEW r \in Pulsed, relay'[r] PROVE Held(r)
  BY PulseFrame
<1>1. relay[r] /\ (r \in lost => r \in lost')
  <2>1. CASE UNCHANGED <<relay, lost>>
    BY <2>1
  <2>2. ASSUME NEW q \in Relays, Switches(q, FALSE), lost' = lost \ {q}
        PROVE  relay[r] /\ (r \in lost => r \in lost')
    <3> DEFINE on == FALSE
    <3>1. Switches(q, on) /\ ~on
      BY <2>2
    <3> HIDE DEF on
    <3>2. r # q /\ relay[r]
      BY <3>1, RelaysOrdered DEF Switches, TypeOK
    <3> QED BY <2>2, <3>2
  <2> QED BY <2>1, <2>2
<1> QED BY <1>1, GoesOnHolds DEF Held

LEMMA PulseStep == TypeOK /\ JobsInv /\ ResetInv /\ PulseInv /\ [Next]_vars => PulseInv'
<1> SUFFICES ASSUME TypeOK, JobsInv, ResetInv, PulseInv, [Next]_vars PROVE PulseInv'
  OBVIOUS
<1>1. ASSUME NEW t \in Tasks, NEW r \in Relays, NEW on \in BOOLEAN, Accept(t, r, on)
      PROVE  PulseInv'
  <2>1. /\ op[t] = None /\ (op' = op \/ Starts(op', op, t, "command", r, on))
        /\ relay' = relay /\ lost' = lost /\ svc' = svc /\ outputsReset' = outputsReset
    BY <1>1, AcceptStarts
  <2>2. ASSUME NEW q, NEW u \in Tasks, Holder(u, q) PROVE Holder(u, q)'
    <3>1. u # t
      BY <2>1, <2>2 DEF Holder
    <3>2. op' = op \/ GoesOn(op[u], op'[u])
      BY <2>1, <3>1, WritersApart DEF Starts
    <3> QED BY <2>2, <3>2, GoesOnHolds DEF Holder
  <2> QED BY <2>1, <2>2, PulseFrame DEF Held
<1>2. ASSUME NEW job \in {"reset", "final"}, ReleaseNext(job) PROVE PulseInv'
  <2>1. \A t \in Tasks : GoesOn(op[t], op'[t])
    BY <1>2, ReleaseNextStarts, WritersApart DEF Starts
  <2>2. /\ svc' = svc /\ outputsReset' = outputsReset /\ op[Main].relay \in Relays
        /\ Switches(op[Main].relay, FALSE) /\ lost' = lost \ {op[Main].relay}
    BY <1>2, ReleaseNextStarts DEF Service
  <2> QED BY <2>1, <2>2, PulseMain
<1>3. CASE Cycle
  <2>1. relay' = relay /\ lost' = lost /\ svc' = svc /\ outputsReset' = outputsReset
    BY <1>3, CycleStarts DEF Service
  <2>2. CASE ~outputsReset
    BY <2>1, <2>2 DEF PulseInv
  <2>3. CASE outputsReset
    <3>1. \A t \in Tasks : GoesOn(op[t], op'[t])
      BY <1>3, <2>3, CycleStarts, WritersApart DEF Starts
    <3> QED BY <2>1, <3>1, PulseMain
  <2> QED BY <2>2, <2>3
<1>4. CASE ResetDone
  <2>1. Doing(Main, "reset")
    BY <1>4, ResetDoneStarts DEF Doing
  <2>2. AllOff'
    BY <1>4, <2>1, ResetDoneStarts, BehindAll DEF ResetInv
  <2> QED BY <2>2, RelaysOrdered DEF AllOff, On, PulseInv
<1>5. CASE ReadDone
  <2>1. /\ op' = [op EXCEPT ![Main] = None] /\ relay' = relay /\ lost' = lost
        /\ svc' = svc /\ outputsReset' = outputsReset
    BY <1>5 DEF ReadDone, adam, history
  <2>2. \A t \in Tasks : op'[t] = op[t]
    BY <2>1, EndsTyped, WritersApart DEF Ends
  <2>3. \A t \in Tasks : GoesOn(op[t], op'[t])
    BY <2>2, WritersApart DEF GoesOn, TypeOK
  <2> QED BY <2>1, <2>3, PulseMain
<1>6. CASE Boot
  <2>1. ~outputsReset'
    BY <1>6 DEF Boot, JobsInv
  <2> QED BY <2>1 DEF PulseInv
<1>7. CASE Stop \/ Stopped \/ Dies
  <2>1. svc' # "running"
    BY <1>7 DEF Stop, Stopped, Leaves, Dies, Exit
  <2> QED BY <2>1 DEF PulseInv
<1>8. CASE HostWatchdogTrips \/ Swap
  BY <1>8, AllSwitchedOff, RelaysOrdered DEF PulseInv
<1>9. CASE UNCHANGED <<op, relay, lost, svc, outputsReset>>
  BY <1>9 DEF PulseInv, Holder
<1>10. \/ Boot \/ Stop \/ Stopped \/ Dies
       \/ \E x \in Writers : Operate(x)
       \/ \E t \in Tasks : Pulse(t) \/ MaintainedDone(t)
       \/ \E t \in Tasks, r \in Relays, on \in BOOLEAN : Accept(t, r, on)
       \/ \E job \in {"reset", "final"} : ReleaseNext(job)
       \/ Cycle \/ ResetDone \/ ReadDone \/ HostWatchdogTrips \/ Swap
       \/ \E w \in Sent : LandsLate(w)
       \/ UNCHANGED <<op, relay, lost, svc, outputsReset>>
  BY DEF Next, Settle, adam, service, history, vars, driver
<1>11. ASSUME NEW w \in Sent, LandsLate(w) PROVE PulseInv'
  <2>1. /\ Switches(w.relay, w.on) /\ lost \subseteq lost' /\ (w.on => w.relay \in lost')
        /\ UNCHANGED <<op, svc, outputsReset>>
    BY <1>11, LandsLateSwitches DEF Service
  <2>2. ASSUME NEW r \in Pulsed, relay'[r] PROVE Held(r)
    <3>1. r \in lost' \/ relay[r]
      BY <2>1, <2>2, RelaysOrdered DEF Switches, TypeOK
    <3> QED BY <2>1, <3>1 DEF Held, Holder
  <2> QED BY <2>1, <2>2, PulseFrame
<1> QED
  BY <1>1, <1>2, <1>3, <1>4, <1>5, <1>6, <1>7, <1>8, <1>9, <1>10, <1>11, PulseOperate,
     PulsePulse

\* A pulsed relay is on only while somebody is due to turn it off, however
\* many pulses overlap, fail, are retried, or lose the connection under each
\* other.
THEOREM PulsesAreOwned == Spec => []PulseOwned
<1>1. Init => JobsInv /\ ResetInv /\ PulseInv
  BY JobsInit, ResetInit, PulseInit
<1>2. TypeOK /\ JobsInv /\ ResetInv /\ PulseInv /\ [Next]_vars
      => JobsInv' /\ ResetInv' /\ PulseInv'
  BY JobsStep, ResetStep, PulseStep
<1>3. JobsInv /\ PulseInv => PulseOwned
  BY DEF JobsInv, PulseInv, Holder, Owned, PulseOwned
<1> QED BY <1>1, <1>2, <1>3, TypeCorrect, PTL DEF Spec

------------------------------------------------------------------------------
(* Stopping.                                                                 *)

\* A step of the way out that turns no relay on, starts no assert, and leaves
\* the release where it is.
LEMMA StopFrame ==
    ASSUME StopInv, UNCHANGED <<svc, finished>>, clean' => clean,
           clean' => /\ OnlyOff
                     /\ \A t \in Tasks : Asserting(t)' => Asserting(t)
                     /\ svc = "stopping" => op'[Main].relay = op[Main].relay
    PROVE  StopInv'
BY DEF StopInv, OnlyOff, Behind, AllOff

\* An operation that goes on, or was already under way, asserts no more than
\* it did.
LEMMA GoesOnAsserts ==
    ASSUME NEW x \in Writers, GoesOn(op[x], op'[x]) \/ op'[x] = op[x] \/ op'[x] = None
    PROVE  Asserting(x)' => Asserting(x)
BY DEF GoesOn, Asserting, Doing

LEMMA StopInit == Init => StopInv
BY DEF Init, StopInv

LEMMA StopOperate ==
    ASSUME TypeOK, JobsInv, StopInv, NEW x \in Writers, Operate(x)
    PROVE  StopInv'
<1> SUFFICES ASSUME clean
             PROVE  /\ OnlyOff
                    /\ \A t \in Tasks : Asserting(t)' => Asserting(t)
                    /\ svc = "stopping" => op'[Main].relay = op[Main].relay
  BY OperateDoes, StopFrame DEF Service
<1>1. op[x] # None /\ op[x] \in Operation
  BY OperateDoes, UnderWay
<1>2. ~op[x].on
  BY <1>1, OperationTyped DEF StopInv, JobsInv, Asserting, Doing, Writers
<1>3. ASSUME NEW stages, Becomes(x, stages)
      PROVE  /\ \A t \in Tasks : Asserting(t)' => Asserting(t)
             /\ svc = "stopping" => op'[Main].relay = op[Main].relay
  BY <1>1, <1>3, WritersApart DEF Becomes, Asserting, Doing
<1>4. CASE Failing(x)
  <2>1. CASE Ends(x)
    <3>1. \A t \in Tasks : Asserting(t)' => Asserting(t)
      BY <2>1, GoesOnAsserts, WritersApart DEF Ends
    <3>2. svc = "stopping" => x # Main
      BY <1>4 DEF Failing, JobsInv
    <3> QED BY <1>4, <2>1, <3>1, <3>2, WritersApart DEF Failing, Ends, OnlyOff, On
  <2> QED BY <1>3, <1>4, <2>1 DEF Failing, OnlyOff, On
<1>5. ASSUME Switches(op[x].relay, op[x].on), lost' = lost PROVE OnlyOff
  BY <1>2, <1>5, SwitchedOff
<1> QED BY <1>3, <1>4, <1>5, OperateDoes DEF OnlyOff, On, Asserting, Doing

LEMMA StopPulse ==
    ASSUME TypeOK, JobsInv, StopInv, NEW t \in Tasks, Pulse(t) \/ MaintainedDone(t)
    PROVE  StopInv'
<1>0. t \in Writers /\ t # Main /\ Main \in Writers /\ \A u \in Tasks : u \in Writers
  BY WritersApart
\* An OFF is answered: to a release, or to a dispatch that is none of asserting.
<1>1. ASSUME NEW job, Answered(t, job), job \in {"command", "release"}, clean,
             lost \ {op[t].relay} \subseteq lost'
      PROVE  OnlyOff
  <2>1. op[t] # None /\ op[t] \in Operation /\ op[t].job = job
        /\ Switches(op[t].relay, op[t].on)
    BY <1>0, <1>1, AnsweredSwitches
  <2>2. ~op[t].on
    BY <1>1, <2>1, OperationTyped DEF StopInv, Asserting, Doing
  <2> QED BY <1>1, <2>1, <2>2, SwitchedOff
<1>2. CASE PulseStarted(t)
  <2>1. /\ op'[t].job = "release" /\ \A y \in Writers \ {t} : op'[y] = op[y]
        /\ lost' = lost /\ UNCHANGED <<svc, finished, clean>>
    BY <1>2, PulseStartedBecomes DEF Service
  <2>2. clean => OnlyOff
    BY <1>1, <1>2, <2>1 DEF PulseStarted
  <2>3. \A u \in Tasks : Asserting(u)' => Asserting(u)
    BY <1>0, <2>1 DEF Asserting, Doing
  <2> QED BY <1>0, <2>1, <2>2, <2>3, StopFrame
<1>3. CASE WindowOver(t) \/ RetryOver(t)
  <2>1. /\ \A y \in Writers \ {t} : GoesOn(op[y], op'[y])
        /\ op'[t].job = "release" /\ UNCHANGED <<relay, lost, svc, finished, clean>>
    BY <1>3, WindowOrRetryOver DEF Service
  <2>2. \A u \in Tasks : Asserting(u)' => Asserting(u)
    BY <1>0, <2>1, GoesOnAsserts DEF Asserting, Doing
  <2>3. svc = "stopping" => op'[Main].relay = op[Main].relay
    BY <1>0, <2>1 DEF GoesOn, JobsInv, Doing
  <2> QED BY <2>1, <2>2, <2>3, StopFrame DEF OnlyOff, On
<1>4. CASE Released(t) \/ MaintainedDone(t)
  <2>1. /\ Answered(t, "release") \/ Answered(t, "command")
        /\ op' = [op EXCEPT ![t] = None] /\ lost' = lost \ {op[t].relay}
        /\ UNCHANGED <<svc, finished, clean>>
    BY <1>4 DEF Released, MaintainedDone, service
  <2>2. clean => OnlyOff
    BY <1>1, <2>1
  <2>3. Ends(t)
    BY <1>0, <2>1, EndsTyped
  <2>4. \A u \in Tasks : Asserting(u)' => Asserting(u)
    BY <1>0, <2>3, GoesOnAsserts DEF Ends
  <2> QED BY <1>0, <2>1, <2>2, <2>3, <2>4, StopFrame DEF Ends
<1> QED BY <1>2, <1>3, <1>4 DEF Pulse

\* A command is accepted on the way out: an assert, or one that turns off.
LEMMA StopAccept ==
    ASSUME TypeOK, JobsInv, StopInv, NEW t \in Tasks, NEW r \in Relays,
           NEW on \in BOOLEAN, Accept(t, r, on)
    PROVE  StopInv'
<1>1. /\ svc # "exited" /\ clean' = (clean /\ ~on) /\ op[t] = None
      /\ op' = op \/ Starts(op', op, t, "command", r, on)
      /\ UNCHANGED <<relay, lost, svc, finished>>
  BY AcceptStarts
<1>2. ASSUME clean' PROVE clean /\ ~on
  BY Zenon, <1>1, <1>2
<1>3. CASE op' = op
  BY <1>1, <1>2, <1>3, StopFrame DEF OnlyOff, On, Asserting, Doing
<1>4. CASE Starts(op', op, t, "command", r, on)
  <2>1. op'[t].on = on /\ \A y \in Writers \ {t} : GoesOn(op[y], op'[y])
    BY <1>4 DEF Starts
  <2>2. clean' => \A u \in Tasks : Asserting(u)' => Asserting(u)
    BY <1>2, <2>1, GoesOnAsserts, WritersApart DEF Asserting
  <2>3. svc = "stopping" => op'[Main].relay = op[Main].relay
    BY <2>1, WritersApart DEF GoesOn, JobsInv, Doing
  <2> QED BY <1>1, <1>2, <2>2, <2>3, StopFrame DEF OnlyOff, On
<1> QED BY <1>1, <1>3, <1>4

LEMMA StopReleaseNext ==
    ASSUME TypeOK, JobsInv, StopInv, NEW job \in {"reset", "final"}, ReleaseNext(job)
    PROVE  StopInv'
<1>1. /\ op[Main] # None /\ op[Main].job = job /\ UNCHANGED <<svc, finished, clean>>
      /\ \A y \in Writers \ {Main} : GoesOn(op[y], op'[y])
  BY ReleaseNextStarts DEF Starts, Service
<1>2. \A t \in Tasks : Asserting(t)' => Asserting(t)
  BY <1>1, GoesOnAsserts, WritersApart
<1>3. svc # "exited"
  BY <1>1, WritersApart DEF JobsInv, NoTasks
<1>4. clean /\ svc = "stopping" => Behind'
  BY BehindNext DEF StopInv
<1> QED BY <1>1, <1>2, <1>3, <1>4 DEF StopInv

LEMMA StopLife ==
    ASSUME TypeOK, JobsInv, StopInv, Stop \/ Stopped \/ Dies \/ Boot
    PROVE  StopInv'
<1>1. CASE Stop
  <2>1. /\ ReleaseAll("final") /\ svc' = "stopping"
        /\ clean' = \A t \in Tasks : ~Asserting(t)
    BY <1>1 DEF Stop
  <2>2. clean' => \A t \in Tasks : ~Asserting(t)
    BY Zenon, <2>1
  <2>3. /\ Starts(op', Cancelled, Main, "final", Foremost(Relays), FALSE)
        /\ \A y \in Writers : Cancelled[y] = op[y] \/ Cancelled[y] = None
    BY <2>1, ReleaseAllStarts
  <2>4. \A t \in Tasks : Asserting(t)' => Asserting(t)
    BY <2>3, WritersApart DEF Starts, GoesOn, Asserting, Doing
  <2>5. Behind'
    BY <2>3, BehindNone DEF Starts
  <2> QED BY <2>1, <2>2, <2>4, <2>5 DEF StopInv
<1>2. CASE Stopped
  <2>1. /\ op[Main] # None /\ op[Main].at = "send" /\ op[Main].job = "final"
        /\ Following(op[Main].relay) = {} /\ clean' = clean /\ svc' = "exited"
        /\ relay' = [relay EXCEPT ![op[Main].relay] = FALSE]
        /\ lost' = lost \ {op[Main].relay}
    BY <1>2 DEF Stopped, Leaves, Exit, At, Doing
  <2>2. Switches(op[Main].relay, FALSE) /\ op[Main].relay \in Relays
    <3>1. op[Main] \in Operation
      BY <2>1, UnderWay, WritersApart
    <3>2. op[Main].relay \in Relays
      BY <2>1, <3>1, OperationTyped
    <3> QED BY <2>1, <3>2 DEF Switches
  <2>3. svc = "stopping"
    BY <2>1 DEF JobsInv, Doing
  <2>4. ASSUME clean PROVE AllOff'
    <3>1. Behind
      BY <2>3, <2>4 DEF StopInv
    <3> QED BY <2>1, <2>2, <3>1, BehindAll
  <2>5. \A t \in Tasks : ~Asserting(t)'
    BY <1>2, WritersApart DEF Stopped, Leaves, Exit, NoTasks, Asserting, Doing
  <2> QED BY <2>1, <2>4, <2>5 DEF StopInv
<1>3. CASE Dies \/ Boot
  <2>1. ~clean'
    BY <1>3 DEF Dies, Boot
  <2> QED BY <2>1 DEF StopInv
<1> QED BY <1>1, <1>2, <1>3

LEMMA StopStep == TypeOK /\ JobsInv /\ StopInv /\ [Next]_vars => StopInv'
<1> SUFFICES ASSUME TypeOK, JobsInv, StopInv, [Next]_vars PROVE StopInv'
  OBVIOUS
<1>1. CASE Cycle
  BY <1>1, CycleStarts DEF StopInv, Service
<1>2. CASE ResetDone \/ ReadDone
  <2>1. op[Main] # None /\ op[Main].job # "final" /\ UNCHANGED <<svc, clean>>
    BY <1>2, ResetDoneStarts DEF ReadDone, Doing, history
  <2>2. svc = "running"
    BY <2>1, WritersApart DEF JobsInv, NoTasks, Doing, TypeOK
  <2> QED BY <2>1, <2>2 DEF StopInv
<1>3. CASE HostWatchdogTrips \/ Swap
  <2>1. \A r \in Relays : ~On(r)'
    BY <1>3, AllSwitchedOff DEF On
  <2>2. \A y \in Writers : op'[y] = op[y] \/ GoesOn(op[y], op'[y])
    BY <1>3, SwapGoesOn DEF HostWatchdogTrips, driver
  <2>3. UNCHANGED <<svc, clean>>
    BY <1>3 DEF HostWatchdogTrips, Swap, service, history
  <2>4. \A t \in Tasks : Asserting(t)' => Asserting(t)
    BY <2>2, GoesOnAsserts, WritersApart
  <2> QED BY <2>1, <2>3, <2>4 DEF StopInv, Behind, AllOff
<1>4. ASSUME NEW w \in Sent, LandsLate(w) PROVE StopInv'
  <2>1. OnlyOff /\ UNCHANGED op /\ UNCHANGED Service
    BY <1>4, LandsLateOnlyOff, LandsLateSwitches
  <2> QED BY <2>1, StopFrame DEF Service, Asserting, Doing
<1>5. CASE UNCHANGED <<op, relay, lost, svc, finished, clean>>
  BY <1>5 DEF StopInv, Behind, AllOff, On, Asserting, Doing
<1>6. \/ Boot \/ Stop \/ Stopped \/ Dies
      \/ \E x \in Writers : Operate(x)
      \/ \E t \in Tasks : Pulse(t) \/ MaintainedDone(t)
      \/ \E t \in Tasks, r \in Relays, on \in BOOLEAN : Accept(t, r, on)
      \/ \E job \in {"reset", "final"} : ReleaseNext(job)
      \/ Cycle \/ ResetDone \/ ReadDone \/ HostWatchdogTrips \/ Swap
      \/ \E w \in Sent : LandsLate(w)
      \/ UNCHANGED <<op, relay, lost, svc, finished, clean>>
  BY DEF Next, Settle, adam, service, history, vars, driver
<1> QED
  BY <1>1, <1>2, <1>3, <1>4, <1>5, <1>6, StopOperate, StopPulse, StopAccept,
     StopReleaseNext, StopLife

\* A service whose release on the way out was acknowledged leaves no relay on,
\* unless an assert was under way when it was stopped or was accepted after:
\* whatever its release tasks and the commands that turn relays off still
\* wrote beside that release.  A write that was given up may still land.
THEOREM StopIsReleased == Spec => []StopReleases
<1>1. Init => JobsInv /\ StopInv
  BY JobsInit, StopInit
<1>2. TypeOK /\ JobsInv /\ StopInv /\ [Next]_vars => JobsInv' /\ StopInv'
  BY JobsStep, StopStep
<1>3. StopInv => StopReleases
  BY DEF StopInv, AllOff, On, StopReleases
<1> QED BY <1>1, <1>2, <1>3, TypeCorrect, PTL DEF Spec
=============================================================================
