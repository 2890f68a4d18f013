-------------------------------- MODULE Bench --------------------------------
(****************************************************************************)
(* The bench commissioning tool (bench.py): one task that walks an operator  *)
(* through every input and every relay, the pulse release tasks the driver   *)
(* leaves beside it, Ctrl-C as asyncio.run delivers it, and the release of   *)
(* the relays on the way out.                                                *)
(*                                                                           *)
(* A prompt blocks the whole event loop: no release task runs, and a Ctrl-C  *)
(* only marks the main task, which is cancelled at its next await.  Reads    *)
(* and writes include their reconnects; what a write does inside the driver  *)
(* is the subject of module AdamOutputs.                                     *)
(****************************************************************************)
EXTENDS Integers, Sequences, SequencesExt, FiniteSets

CONSTANTS
    None,
    Inputs,         \* the input channels that are verified
    Pulsed,         \* "test", "bypass_delay"
    Maintained,     \* "force_transfer", "inhibit"
    MaxInterrupts   \* bound: times Ctrl-C is pressed

ASSUME ConstantsAssumption ==
    /\ IsFiniteSet(Inputs) /\ None \notin Inputs /\ None \notin 0..3
    /\ Pulsed \subseteq {"test", "bypass_delay"}
    /\ Maintained \subseteq {"force_transfer", "inhibit"}
    /\ Pulsed \cap Inputs = {} /\ Maintained \cap Inputs = {}
    /\ MaxInterrupts \in Nat

Relays == Pulsed \cup Maintained

IfWired(r) == IF r \in Relays THEN <<r>> ELSE <<>>

\* DO_DESCRIPTIONS, which is also the order of release_all_outputs.
RelayOrder == IfWired("test") \o IfWired("force_transfer") \o IfWired("inhibit")
                \o IfWired("bypass_delay")

VARIABLES
    \* The bench.
    relay,       \* the physical relays
    wired,       \* the channel each input signal really arrives at, or None
    closed,      \* the input signals that are closed
    eof,         \* standard input has ended
    \* The tool.
    skip_dis,    \* --skip-dis
    skip_dos,    \* --skip-dos
    step,        \* where the main task is
    todo,        \* checks to go, the one under way first; then relays to release
    baseline,    \* the channels the first read of a check saw closed
    results,     \* the outcomes so far
    raised,      \* an exception is on its way out of _run
    cancel,      \* the main task is to be cancelled at its next await
    interrupts,  \* Ctrl-C pressed
    timers,      \* relays with a pulse release task
    code,        \* the exit code, or None
    \* History.
    asserted,    \* relays this run has turned on, or may have
    transient,   \* the operator vouched for an input that no read saw change
    failed,      \* a write of the release on the way out failed
    cut,         \* Ctrl-C cut that release short
    late,        \* Ctrl-C was pressed during that release
    killed       \* the process was killed

world == <<wired, eof, skip_dis, skip_dos>>
task == <<step, todo, baseline, results, raised, code>>
history == <<asserted, transient, failed, cut, late, killed>>
vars == <<world, relay, closed, task, cancel, interrupts, timers, history>>

Prompts == {"actuate", "transient", "ready", "confirm"}
Reads   == {"baseline", "reread"}
Writes  == {"drive", "unhold", "cleanup"}
Sleeps  == {"hold", "settle"}
Awaits  == {"connect"} \cup Reads \cup Writes \cup Sleeps
Steps   == Prompts \cup Awaits \cup {"exited"}

Current == Head(todo)

\* The loop runs other tasks only while the main one waits for something.
LoopRuns == step \in Awaits

------------------------------------------------------------------------------
(* Ways on for the main task.                                                *)

\* _report.
_report(outcomes) ==
    IF outcomes = {} THEN 2
    ELSE IF "fail" \in outcomes THEN 1
    ELSE IF "skip" \in outcomes THEN 3 ELSE 0

\* The process ends; its release tasks end with it.
Exit(exitCode) ==
    /\ step' = "exited"
    /\ code' = exitCode
    /\ todo' = <<>>
    /\ timers' = {}

\* _run returns its report, unless an exception or Ctrl-C overtakes it.
Leaves(outcomes, exception) ==
    /\ Exit(IF exception \/ cancel THEN None ELSE _report(outcomes))
    /\ results' = outcomes
    /\ raised' = exception

\* Mutant: only what the tool itself holds needs releasing.
CleanupMaintained(outcomes, exception) ==
    IF skip_dos \/ Maintained = {} THEN Leaves(outcomes, exception)
    ELSE /\ step' = "cleanup"
         /\ todo' = SelectSeq(RelayOrder, LAMBDA r : r \in Maintained)
         /\ timers' = {}
         /\ results' = outcomes
         /\ raised' = exception
         /\ UNCHANGED code

\* The finally of _run: release_all_outputs cancels the release tasks and
\* starts on the relays.
Cleanup(outcomes, exception) ==
    IF skip_dos \/ Relays = {} THEN Leaves(outcomes, exception)
    ELSE /\ step' = "cleanup"
         /\ todo' = RelayOrder
         /\ timers' = {}
         /\ results' = outcomes
         /\ raised' = exception
         /\ UNCHANGED code

First(check) == IF check \in Inputs THEN "baseline" ELSE "ready"

\* The check under way has its outcome; on to the next one.
Outcome(outcome) ==
    IF Len(todo) = 1 THEN Cleanup(results \cup {outcome}, FALSE)
    ELSE /\ todo' = Tail(todo)
         /\ step' = First(todo[2])
         /\ results' = results \cup {outcome}
         /\ UNCHANGED <<raised, timers, code>>

GoOn(next) == step' = next /\ UNCHANGED <<todo, results, raised, timers, code>>

\* An exception leaves the step: the maintained relays have their finally.
Raise ==
    IF /\ step \in {"drive", "hold"} /\ Current \in Maintained
    THEN /\ step' = "unhold"
         /\ raised' = TRUE
         /\ UNCHANGED <<todo, results, timers, code>>
    ELSE Cleanup(results, TRUE)

\* The write of this step reaches the ADAM.
Written == [relay EXCEPT ![Current] = (step = "drive")]

MayHaveWritten ==
    /\ relay' \in {relay} \cup (IF step \in Writes THEN {Written} ELSE {})
    /\ asserted' = IF step = "drive" THEN asserted \cup {Current} ELSE asserted

------------------------------------------------------------------------------
(* Awaits.                                                                   *)

Channels == {wired[s] : s \in closed} \ {None}

Connect ==
    /\ step = "connect" /\ ~cancel
    /\ \/ IF todo = <<>> THEN Cleanup({}, FALSE)
          ELSE GoOn(First(Current))
       \/ Exit(2) /\ UNCHANGED <<results, raised>>
    /\ UNCHANGED <<world, relay, closed, baseline, cancel, interrupts, history>>

ReadBaseline ==
    /\ step = "baseline" /\ ~cancel
    /\ baseline' = Channels
    /\ GoOn("actuate")
    /\ UNCHANGED <<world, relay, closed, cancel, interrupts, history>>

Changed == (baseline \ Channels) \cup (Channels \ baseline)

\* Mutant: any change will do.
RereadAnyChange ==
    /\ step = "reread" /\ ~cancel
    /\ \/ Changed = {} /\ GoOn("transient")
       \/ Changed # {} /\ Outcome("pass")
    /\ UNCHANGED <<world, relay, closed, baseline, cancel, interrupts, history>>

Reread ==
    /\ step = "reread" /\ ~cancel
    /\ \/ Changed = {} /\ GoOn("transient")
       \/ Changed = {Current} /\ Outcome("pass")
       \/ Changed \notin {{}, {Current}} /\ Outcome("fail")
    /\ UNCHANGED <<world, relay, closed, baseline, cancel, interrupts, history>>

\* Mutant: every relay is pulsed.
DriveAllPulsed ==
    /\ step = "drive" /\ ~cancel
    /\ relay' = Written
    /\ asserted' = asserted \cup {Current}
    /\ timers' = timers \cup {Current}
    /\ step' = "settle"
    /\ UNCHANGED <<world, closed, todo, baseline, results, raised, cancel,
                   interrupts, code, transient, failed, cut, late, killed>>

\* drive_outputs returns; a pulse leaves its release task behind.
Drive ==
    /\ step = "drive" /\ ~cancel
    /\ relay' = Written
    /\ asserted' = asserted \cup {Current}
    /\ timers' = timers \cup ({Current} \cap Pulsed)
    /\ step' = IF Current \in Pulsed THEN "settle" ELSE "hold"
    /\ UNCHANGED <<world, closed, todo, baseline, results, raised, cancel,
                   interrupts, code, transient, failed, cut, late, killed>>

\* Mutant: the relay is left for the release on the way out.
HoldOverNoRelease ==
    /\ step = "hold" /\ ~cancel
    /\ GoOn("settle")
    /\ UNCHANGED <<world, relay, closed, baseline, cancel, interrupts, history>>

HoldOver ==
    /\ step = "hold" /\ ~cancel
    /\ GoOn("unhold")
    /\ UNCHANGED <<world, relay, closed, baseline, cancel, interrupts, history>>

Unhold ==
    /\ step = "unhold" /\ ~cancel
    /\ relay' = Written
    /\ IF raised THEN Raise ELSE GoOn("settle")
    /\ UNCHANGED <<world, closed, baseline, cancel, interrupts, history>>

SettleOver ==
    /\ step = "settle" /\ ~cancel
    /\ GoOn("confirm")
    /\ UNCHANGED <<world, relay, closed, baseline, cancel, interrupts, history>>

ReleaseNext ==
    /\ step = "cleanup" /\ ~cancel
    /\ relay' = Written
    /\ IF Len(todo) > 1 THEN /\ todo' = Tail(todo)
                             /\ UNCHANGED <<step, results, raised, timers, code>>
                        ELSE Leaves(results, raised)
    /\ UNCHANGED <<world, closed, baseline, cancel, interrupts, history>>

\* The ADAM does not answer a read or a write, or not in time.
Fails ==
    /\ step \in Reads \cup Writes /\ ~cancel
    /\ MayHaveWritten
    /\ IF step = "cleanup" THEN Leaves(results, raised) ELSE Raise
    /\ failed' = (failed \/ step = "cleanup")
    /\ UNCHANGED <<world, closed, baseline, cancel, interrupts, transient, cut,
                   late, killed>>

\* The await is cancelled, its request already sent.
Cancelled ==
    /\ step \in Awaits /\ cancel
    /\ cancel' = FALSE
    /\ MayHaveWritten
    /\ IF step \in {"connect", "cleanup"}
       THEN Exit(None) /\ raised' = TRUE /\ UNCHANGED results
       ELSE Raise
    /\ cut' = (cut \/ step = "cleanup")
    /\ UNCHANGED <<world, closed, baseline, interrupts, transient, failed,
                   late, killed>>

\* A pulse release task, with the retries of _release; when its window ends
\* is left open.
PulseReleased(r) ==
    /\ LoopRuns
    /\ r \in timers
    /\ timers' = timers \ {r}
    /\ relay' = [relay EXCEPT ![r] = FALSE]
    /\ UNCHANGED <<world, closed, task, cancel, interrupts, history>>

------------------------------------------------------------------------------
(* Prompts.                                                                  *)

\* Mutant: an empty line is asked again, the end of the input too.
_ask_yes_no_skip_again == IF eof THEN {} ELSE {"yes", "no", "skip"}

\* An empty line counts as no, and so does the end of the input; other
\* answers are asked again.
_ask_yes_no_skip == IF eof THEN {"no"} ELSE {"yes", "no", "skip"}

\* The operator actuates the signal asked for, and no other.
Actuate ==
    /\ step = "actuate" /\ ~eof
    /\ closed' = IF Current \in closed THEN closed \ {Current}
                                       ELSE closed \cup {Current}
    /\ UNCHANGED <<world, relay, task, cancel, interrupts, timers, history>>

\* _verify_di, up to its next await; no is as good as yes.
AnswerActuate(answer) ==
    /\ step = "actuate"
    /\ IF answer = "skip" THEN Outcome("skip") ELSE GoOn("reread")
    /\ UNCHANGED transient

AnswerTransient(answer) ==
    /\ step = "transient"
    /\ Outcome(CASE answer = "yes" -> "pass" [] answer = "skip" -> "skip"
                 [] OTHER -> "fail")
    /\ transient' = (transient \/ answer = "yes")

AnswerReady(answer) ==
    /\ step = "ready"
    /\ IF answer = "yes" THEN GoOn("drive") ELSE Outcome("skip")
    /\ UNCHANGED transient

AnswerConfirm(answer) ==
    /\ step = "confirm"
    /\ Outcome(CASE answer = "yes" -> "pass" [] answer = "skip" -> "skip"
                 [] OTHER -> "fail")
    /\ UNCHANGED transient

Answer == \E answer \in _ask_yes_no_skip :
    /\ \/ AnswerActuate(answer) \/ AnswerTransient(answer)
       \/ AnswerReady(answer) \/ AnswerConfirm(answer)
    /\ UNCHANGED <<world, relay, closed, baseline, cancel, interrupts, asserted,
                   failed, cut, late, killed>>

InputEnds ==
    /\ ~eof /\ step # "exited"
    /\ eof' = TRUE
    /\ UNCHANGED <<wired, skip_dis, skip_dos, relay, closed, task, cancel, interrupts,
                   timers, history>>

------------------------------------------------------------------------------
(* Signals.                                                                  *)

\* The first Ctrl-C cancels the main task; asyncio's handler returns to the
\* prompt.  A second one is raised there, with the cancellation still to
\* come; outside a prompt it stops the loop, whose tasks are then cancelled.
Interrupt ==
    /\ step # "exited" /\ interrupts < MaxInterrupts
    /\ interrupts' = interrupts + 1
    /\ IF step \in Prompts /\ interrupts > 0
       THEN Cleanup(results, TRUE) /\ UNCHANGED cancel
       ELSE /\ cancel' = TRUE
            /\ timers' = IF interrupts > 0 THEN {} ELSE timers
            /\ UNCHANGED <<step, todo, results, raised, code>>
    /\ late' = (late \/ step = "cleanup")
    /\ UNCHANGED <<world, relay, closed, baseline, asserted, transient, failed,
                   cut, killed>>

\* SIGHUP of a dropped session, SIGTERM, SIGKILL: no handler runs.
Killed ==
    /\ step # "exited"
    /\ Exit(None)
    /\ killed' = TRUE
    /\ UNCHANGED <<world, relay, closed, baseline, results, raised, cancel,
                   interrupts, asserted, transient, failed, cut, late>>

------------------------------------------------------------------------------
\* Any wiring of each signal to one channel or none, any of the two options;
\* the relays as somebody left them, all on or all off.
Init ==
    /\ \E on \in BOOLEAN : relay = [r \in Relays |-> on]
    /\ wired \in [Inputs -> Inputs \cup {None}]
    /\ closed \in SUBSET Inputs
    /\ eof = FALSE
    /\ skip_dis \in BOOLEAN /\ skip_dos \in BOOLEAN
    /\ step = "connect"
    /\ todo = (IF skip_dis THEN <<>> ELSE SetToSeq(Inputs))
                 \o (IF skip_dos THEN <<>> ELSE RelayOrder)
    /\ baseline = {}
    /\ results = {}
    /\ raised = FALSE
    /\ cancel = FALSE
    /\ interrupts = 0
    /\ timers = {}
    /\ code = None
    /\ asserted = {}
    /\ transient = FALSE
    /\ failed = FALSE
    /\ cut = FALSE
    /\ late = FALSE
    /\ killed = FALSE

_run ==
    \/ Connect
    \/ ReadBaseline \/ Reread
    \/ Drive \/ HoldOver \/ Unhold \/ SettleOver
    \/ ReleaseNext
    \/ Fails \/ Cancelled
    \/ Answer

Next ==
    \/ _run
    \/ \E r \in Pulsed : PulseReleased(r)
    \/ Actuate \/ InputEnds
    \/ Interrupt \/ Killed

Spec == Init /\ [][Next]_vars

\* Every await comes to an end, and so does the operator's patience.
FairSpec == Spec /\ WF_vars(_run)

------------------------------------------------------------------------------
(* Properties.                                                               *)

TypeOK ==
    /\ relay \in [Relays -> BOOLEAN]
    /\ wired \in [Inputs -> Inputs \cup {None}]
    /\ closed \subseteq Inputs /\ baseline \subseteq Inputs
    /\ step \in Steps
    /\ todo \in Seq(Inputs \cup Relays)
    /\ step \in Steps \ {"connect", "exited"} => todo # <<>>
    /\ results \subseteq {"pass", "fail", "skip"}
    /\ interrupts \in 0..MaxInterrupts
    /\ timers \subseteq Pulsed /\ asserted \subseteq Relays
    /\ code \in 0..3 \cup {None}
    /\ {eof, skip_dis, skip_dos, raised, cancel, transient, failed, cut, late, killed}
          \subseteq BOOLEAN

\* bench.py:293: the tool leaves no relay on that it has driven, however its
\* checks end; the exceptions are a process that is killed, a release that
\* fails, and one that Ctrl-C cuts short.
LeftReleased ==
    step = "exited" /\ ~killed /\ ~failed /\ ~cut
      => \A r \in asserted : ~relay[r]

\* While the tool waits for an answer, which may take for ever, it holds no
\* maintained relay, and never two at once.
NothingHeldAtPrompt ==
    \A r \in Maintained \cap asserted : relay[r] =>
        /\ step \notin Prompts
        /\ \A q \in Maintained \cap asserted : relay[q] => q = r

\* Exit code 0 of a run over the inputs vouches for their wiring, whatever the
\* levels it starts from and whenever the operator actuates the signal asked
\* for; the exception is an actuation no read saw that the operator vouched
\* for.
PassMeansWired ==
    code = 0 /\ ~skip_dis /\ ~transient => \A s \in Inputs : wired[s] = s

\* The tool comes to its end, with its input closed too.
Finishes == <>(step = "exited")

\* bench.py:293: "never leave ANY command relay asserted on the way out",
\* "including on Ctrl-C"; with an ADAM that answers, and no Ctrl-C during the
\* release itself.
ReleasedOnExit ==
    step = "exited" /\ ~killed /\ ~failed /\ ~late => \A r \in asserted : ~relay[r]
==============================================================================
