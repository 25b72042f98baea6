------------------------------ MODULE Shutdown ------------------------------
(***************************************************************************)
(* Process shutdown: errors/shutdown.py with its callers, the fatal report *)
(* of errors/err_handling.py, the hooks of errors/crash_hooks.py and the   *)
(* main coroutine of central_log_server/startup.py.                        *)
(*                                                                         *)
(* A thread is a stack of run_shutdown() calls.  The signal handler runs   *)
(* on the main thread between any two of its steps, so it pushes a call on *)
(* whatever main was doing, a call of its own included; a                  *)
(* KeyboardInterrupt that it raises unwinds that stack.  Time is kept to   *)
(* what the code asks of it: which budget is spent, whether the grace of   *)
(* the exit nudge is over.                                                 *)
(***************************************************************************)
EXTENDS Naturals, Sequences, FiniteSets, SequencesExt

CONSTANTS Main,
          Crashing,        \* other threads that may meet a fatal exception
          Daemons,         \* those of them that do not hold interpreter exit
          Teardowns,       \* threaded callbacks, in the order of the pass
          Required,        \* those registered with required=True
          MaxSignals,      \* bound on the operator's signals
          MaxNested        \* bound on main's calls, one interrupted by another

Threads == {Main} \cup Crashing
Callbacks == {Teardowns[i] : i \in DOMAIN Teardowns}

ASSUME ShutdownAssumption ==
  /\ Main \notin Crashing /\ Daemons \subseteq Crashing
  /\ Teardowns \in Seq(Callbacks) /\ IsInjective(Teardowns)
  /\ Required \subseteq Callbacks /\ MaxSignals \in Nat /\ MaxNested \in Nat

VARIABLES
  published,  \* the kinds whose event is set
  requested,  \* the event that waiters and loops watch
  stack,      \* per thread, its calls of run_shutdown, the innermost last
  crashed,    \* threads whose fatal exception was raised
  drives,     \* _drive_counter
  confirms,   \* _confirm_counter
  hard,       \* _hard_interrupted
  released,   \* _drive_released
  valve,      \* the wait of the pass for it timed out
  joins,      \* _join_pass_at_exit is registered with atexit
  pass,       \* the pass thread: where it is
  turn,       \* and the callback whose turn it is
  fate,       \* what became of each callback
  clock,      \* 0; 1 once the fatal budget is spent; 2 once the graceful one is
  grace,      \* the grace after completion is over
  complete,   \* SHUTDOWN_COMPLETE
  waited,     \* something declared a tail by waiting on it
  nudged,     \* _exit_nudge_sent
  pending,    \* the nudge is on its way to the main thread
  sent,       \* operator's signals so far
  main        \* what the main thread does beneath its stack

signalVars == <<published, requested, drives, confirms, hard, nudged, pending, sent>>
passVars == <<released, valve, joins, pass, turn, fate, complete>>
timeVars == <<clock, grace>>
vars == <<signalVars, stack, crashed, passVars, timeVars, waited, main>>

Kind_GentlestFirst == IF "graceful" \in published THEN "graceful"
                      ELSE IF "fatal" \in published THEN "fatal"
                      ELSE IF "forced" \in published THEN "forced" ELSE "running"
Kind == IF "forced" \in published THEN "forced"
        ELSE IF "fatal" \in published THEN "fatal"
        ELSE IF "graceful" \in published THEN "graceful" ELSE "running"

BudgetSpent == CASE Kind = "forced" -> TRUE
                 [] Kind = "fatal" -> clock >= 1
                 [] OTHER -> clock >= 2

\* request() publishes its kind and only then sets the event that releases the
\* waiters, the first one with the byte of SHUTDOWN_WAKEUP.
Order_WakesFirst == <<"request", "publish", "count">>
Order == <<"publish", "request", "count">>
After(step) == Order[1 + CHOOSE i \in 1..2 : Order[i] = step]

Call(kind, at) == [at |-> at, kind |-> kind]
Asked(kind) == Call(kind, Order[1])
Push(t, call) == stack' = [stack EXCEPT ![t] = Append(@, call)]
Top(t) == Last(stack[t])
At(t, where) == stack[t] # <<>> /\ Top(t).at = where
GoTo(t, where) == stack' = [stack EXCEPT ![t][Len(stack[t])].at = where]
Return(t) == stack' = [stack EXCEPT ![t] = Front(@)]

Running == main # "exited"
MainAlive == main \in {"parked", "waiting", "tail"}

-----------------------------------------------------------------------------

Init ==
  /\ published = {} /\ requested = FALSE
  /\ stack = [t \in Threads |-> <<>>] /\ crashed = {}
  /\ drives = 0 /\ confirms = 0
  /\ hard = FALSE /\ nudged = FALSE /\ pending = FALSE /\ sent = 0
  /\ released = FALSE /\ valve = FALSE /\ joins = FALSE
  /\ pass = "none" /\ turn = 1
  /\ fate = [c \in Callbacks |-> "none"]
  /\ clock = 0 /\ grace = FALSE
  /\ complete = FALSE /\ waited = FALSE
  /\ main = "parked"

(* run_shutdown(kind), on any thread. *)

Publish(t) ==
  /\ At(t, "publish") /\ Running
  /\ published' = published \cup {Top(t).kind}
  /\ GoTo(t, After("publish"))
  /\ UNCHANGED <<requested, drives, confirms, hard, nudged, pending, sent,
                 crashed, passVars, timeVars, waited, main>>

Request(t) ==
  /\ At(t, "request") /\ Running
  /\ requested' = TRUE
  /\ GoTo(t, After("request"))
  /\ UNCHANGED <<published, drives, confirms, hard, nudged, pending, sent,
                 crashed, passVars, timeVars, waited, main>>

\* Only the first caller drives.
Drives_Always == TRUE
Drives == drives = 0
Count(t) ==
  /\ At(t, "count") /\ Running
  /\ drives' = drives + 1
  /\ IF Drives THEN GoTo(t, "arm") ELSE Return(t)
  /\ UNCHANGED <<published, requested, confirms, hard, nudged, pending, sent,
                 crashed, passVars, timeVars, waited, main>>

\* _run_interrupt_pass(): the arms run, whatever one of them raises.
Arm(t) ==
  /\ At(t, "arm") /\ Running
  /\ GoTo(t, "start")
  /\ UNCHANGED <<signalVars, crashed, passVars, timeVars, waited, main>>

StartPass(t) ==
  /\ At(t, "start") /\ Running
  /\ pass' = "pick" /\ turn' = 1
  /\ GoTo(t, "register")
  /\ UNCHANGED <<signalVars, crashed, released, valve, joins, fate, complete, timeVars, waited, main>>

\* CPython drops a hook that is registered while atexit runs.
RegisterJoin(t) ==
  /\ At(t, "register") /\ Running
  /\ joins' = (joins \/ main # "atexit")
  /\ GoTo(t, "release")
  /\ UNCHANGED <<signalVars, crashed, released, valve, pass, turn, fate, complete, timeVars, waited, main>>

Release(t) ==
  /\ At(t, "release") /\ Running
  /\ released' = TRUE
  /\ Return(t)
  /\ UNCHANGED <<signalVars, crashed, valve, joins, pass, turn, fate, complete, timeVars, waited, main>>

RunShutdown(t) ==
  \/ Publish(t) \/ Request(t) \/ Count(t)
  \/ Arm(t) \/ StartPass(t) \/ RegisterJoin(t) \/ Release(t)

-----------------------------------------------------------------------------
(* Fatal exceptions. *)

\* A thread's fatal exception is reported by a decorator, or by the crash
\* hook, which stays quiet once a shutdown was requested.  The report (log,
\* alert, trail) takes its time and may fail anywhere; run_shutdown(FATAL)
\* follows in a finally, so the step stands for the end of the report.
Crash(t) ==
  /\ t \in Crashing \ crashed
  /\ Running /\ (t \notin Daemons => main # "atexit")
  /\ crashed' = crashed \cup {t}
  /\ Push(t, Asked("fatal"))
  /\ UNCHANGED <<signalVars, passVars, timeVars, waited, main>>

\* The main thread's own uncaught exception, on its way out.
MainCrashes ==
  /\ main = "parked" /\ stack[Main] = <<>> /\ ~requested
  /\ main' = "returning"
  /\ Push(Main, Asked("fatal"))
  /\ UNCHANGED <<signalVars, crashed, passVars, timeVars, waited>>

-----------------------------------------------------------------------------
(* The signal handler, on the main thread. *)

\* A KeyboardInterrupt leaves every call on main's stack but those of an arm,
\* whose own caller catches it; beneath the stack main unwinds.
Swallowed == {i \in DOMAIN stack[Main] : stack[Main][i].at = "arm"}
Unwind ==
  IF Swallowed # {}
  THEN /\ \E i \in Swallowed :
            /\ \A j \in Swallowed : j <= i
            /\ stack' = [stack EXCEPT ![Main] = SubSeq(@, 1, i)]
       /\ UNCHANGED main
  ELSE \E finally \in IF main = "parked" THEN BOOLEAN ELSE {FALSE} :
         /\ stack' = [stack EXCEPT ![Main] =
                        IF finally THEN <<Asked("graceful")>> ELSE <<>>]
         /\ main' = CASE finally -> "waiting"
                      [] main = "returning" -> "atexit"
                      [] main = "atexit" -> "exited"
                      [] OTHER -> "returning"

\* What the handler is called for: an operator's signal, or the nudge.
Signalled == /\ Running /\ sent < MaxSignals /\ Len(stack[Main]) < MaxNested
             /\ sent' = sent + 1 /\ UNCHANGED pending

\* The exit nudge comes home, or a signal after it.
HandleNudge ==
  /\ nudged
  /\ Signalled \/ (Running /\ pending /\ pending' = FALSE /\ UNCHANGED sent)
  /\ Unwind
  /\ UNCHANGED <<published, requested, drives, confirms, hard, nudged,
                 crashed, passVars, timeVars, waited>>

\* First rung: start.  A shutdown first driven from inside atexit is left out:
\* nothing joins its pass, as _join_pass_at_exit says of itself.
HandleStart ==
  /\ Signalled /\ ~nudged /\ ~requested /\ main # "atexit"
  /\ Push(Main, Asked("graceful"))
  /\ UNCHANGED <<published, requested, drives, confirms, hard, nudged,
                 crashed, passVars, timeVars, waited, main>>

\* Second and third rung: warn, which rescues a request nobody drives; force.
HandleConfirm ==
  /\ Signalled /\ ~nudged /\ requested /\ confirms < 2
  /\ confirms' = confirms + 1
  /\ Push(Main, Asked(IF confirms = 0 THEN Kind ELSE "forced"))
  /\ UNCHANGED <<published, requested, drives, hard, nudged,
                 crashed, passVars, timeVars, waited, main>>

\* Last rung: the stock handler raises.
HandleHard ==
  /\ Signalled /\ ~nudged /\ requested /\ confirms = 2
  /\ hard' = TRUE
  /\ Unwind
  /\ UNCHANGED <<published, requested, drives, confirms, nudged,
                 crashed, passVars, timeVars, waited>>

Handler == HandleNudge \/ HandleStart \/ HandleConfirm \/ HandleHard

-----------------------------------------------------------------------------
(* The threaded pass. *)

Current == Teardowns[turn]
PassTo(where) == pass' = where /\ UNCHANGED <<released, valve, joins, complete>>

\* The budget is read again for every callback; a required one ignores it, an
\* owner that was collected has nothing to call.
Skips(c) == BudgetSpent /\ c \notin Required
Pick ==
  /\ pass = "pick" /\ Running
  /\ IF turn > Len(Teardowns)
     THEN PassTo("done") /\ UNCHANGED <<turn, fate>>
     ELSE \E collected \in BOOLEAN :
            IF collected \/ Skips(Current)
            THEN /\ fate' = [fate EXCEPT ![Current] = "skipped"]
                 /\ turn' = turn + 1
                 /\ PassTo("pick")
            ELSE /\ fate' = [fate EXCEPT ![Current] = "running"]
                 /\ PassTo("call") /\ UNCHANGED turn
  /\ UNCHANGED <<signalVars, stack, crashed, timeVars, waited, main>>

\* A callback returns or raises; what an abandoned one still does is its own.
CallbackEnds(c) ==
  /\ fate[c] = "running" /\ Running
  /\ fate' = [fate EXCEPT ![c] = "run"]
  /\ UNCHANGED <<signalVars, stack, crashed, released, valve, joins, pass, turn, complete,
                 timeVars, waited, main>>

\* The pass waits for a required callback without a bound, and for the worker
\* of an optional one while the budget, read again each tick, lasts.
Overruns_Unbounded == FALSE
Overruns == Current \notin Required /\ fate[Current] = "running" /\ BudgetSpent
Join ==
  /\ pass = "call" /\ Running
  /\ \/ fate[Current] = "run" /\ UNCHANGED fate
     \/ Overruns /\ fate' = [fate EXCEPT ![Current] = "abandoned"]
  /\ turn' = turn + 1
  /\ PassTo("pick")
  /\ UNCHANGED <<signalVars, stack, crashed, timeVars, waited, main>>

\* Completion waits for run_shutdown() to return, for five seconds: a driver
\* that was unwound never does, and one that is held up is outrun.
Released_Unawaited == TRUE
Released == released
Complete ==
  /\ pass = "done" /\ Running
  /\ \/ Released /\ UNCHANGED valve
     \/ ~released /\ valve' = TRUE
  /\ complete' = TRUE
  /\ pass' = "linger"
  /\ UNCHANGED <<signalVars, stack, crashed, released, joins, turn, fate, timeVars, waited, main>>

\* _attempt_early_exit(): a declared tail has what remains of the budget, and
\* never less than the grace; nobody waits for an undeclared one longer.
Deadline == IF waited THEN BudgetSpent /\ grace ELSE BudgetSpent \/ grace
Linger ==
  /\ pass = "linger" /\ Running
  /\ \/ ~MainAlive /\ PassTo("ended")
     \/ MainAlive /\ Deadline /\ PassTo("nudge")
  /\ UNCHANGED <<signalVars, stack, crashed, turn, fate, timeVars, waited, main>>

Nudge ==
  /\ pass = "nudge" /\ Running
  /\ nudged' = TRUE /\ pending' = TRUE
  /\ PassTo("ended")
  /\ UNCHANGED <<published, requested, drives, confirms, hard, sent,
                 stack, crashed, turn, fate, timeVars, waited, main>>

PassStep == Pick \/ Join \/ Complete \/ Linger \/ Nudge

\* The budgets run from the first drive and the grace from completion; the
\* clock moves while something reads it.
Tick ==
  /\ pass \in {"pick", "call", "linger"} /\ clock < 2 /\ Running
  /\ clock' = clock + 1
  /\ UNCHANGED <<signalVars, stack, crashed, passVars, grace, waited, main>>

GraceEnds ==
  /\ complete /\ ~grace /\ Running
  /\ grace' = TRUE
  /\ UNCHANGED <<signalVars, stack, crashed, passVars, clock, waited, main>>

-----------------------------------------------------------------------------
(* The main thread beneath its stack. *)

MainFree == stack[Main] = <<>>
MainGoes(from, to) == MainFree /\ main = from /\ main' = to

\* The program ends, by itself or because it saw the request.
ProgramReturns ==
  /\ MainGoes("parked", "returning")
  /\ UNCHANGED <<signalVars, stack, crashed, passVars, timeVars, waited>>

\* startup.main(): its wait on SHUTDOWN ends, and its finally drives.
ProgramCloses ==
  /\ main = "parked" /\ MainFree /\ requested
  /\ main' = "waiting"
  /\ Push(Main, Asked("graceful"))
  /\ UNCHANGED <<signalVars, crashed, passVars, timeVars, waited>>

AwaitComplete ==
  /\ main = "waiting" /\ MainFree /\ ~waited
  /\ waited' = TRUE
  /\ UNCHANGED <<signalVars, stack, crashed, passVars, timeVars, main>>

StartTail ==
  /\ MainGoes("waiting", "tail") /\ waited /\ complete
  /\ UNCHANGED <<signalVars, stack, crashed, passVars, timeVars, waited>>

EndTail ==
  /\ MainGoes("tail", "returning")
  /\ UNCHANGED <<signalVars, stack, crashed, passVars, timeVars, waited>>

\* The interpreter joins the threads that are not daemons, then runs atexit.
JoinThreads ==
  /\ MainGoes("returning", "atexit")
  /\ \A t \in Crashing \ Daemons : stack[t] = <<>>
  /\ UNCHANGED <<signalVars, stack, crashed, passVars, timeVars, waited>>

HeldAtExit_Daemon == FALSE
HeldAtExit == joins /\ ~hard
Exit ==
  /\ MainGoes("atexit", "exited")
  /\ HeldAtExit => pass = "ended"
  /\ UNCHANGED <<signalVars, stack, crashed, passVars, timeVars, waited>>

MainStep == ProgramReturns \/ ProgramCloses \/ AwaitComplete \/ StartTail
              \/ EndTail \/ JoinThreads \/ Exit

Next ==
  \/ \E t \in Threads : RunShutdown(t) \/ Crash(t)
  \/ MainCrashes \/ Handler
  \/ PassStep \/ (\E c \in Callbacks : CallbackEnds(c)) \/ Tick \/ GraceEnds
  \/ MainStep

\* Threads make progress, time passes, a signal is taken, a required callback
\* returns.  An optional callback, the program and its tail may hang; a main
\* that was unwound runs what is left of it.
Fairness ==
  /\ \A t \in Threads : WF_vars(RunShutdown(t))
  /\ WF_vars(PassStep) /\ WF_vars(Tick \/ GraceEnds) /\ WF_vars(pending /\ HandleNudge)
  /\ \A c \in Required : WF_vars(CallbackEnds(c))
  /\ WF_vars(AwaitComplete \/ StartTail \/ (nudged /\ EndTail) \/ JoinThreads \/ Exit)

Spec == Init /\ [][Next]_vars /\ Fairness

-----------------------------------------------------------------------------

Places == {"publish", "request", "count", "arm", "start", "register", "release"}
Driving == {"arm", "start", "register", "release"}
DriverUnderway == \E t \in Threads : \E i \in DOMAIN stack[t] :
                    stack[t][i].at \in {"register", "release"}

\* The values of every variable; one call at most drives, and the pass is its.
TypeOK ==
  /\ published \subseteq {"graceful", "fatal", "forced"} /\ requested \in BOOLEAN
  /\ \A t \in Threads : \A i \in DOMAIN stack[t] :
       stack[t][i] \in [at : Places, kind : {"running", "graceful", "fatal", "forced"}]
  /\ crashed \subseteq Crashing /\ drives \in Nat /\ confirms \in 0..2
  /\ {hard, released, valve, joins, grace, complete, waited, nudged} \subseteq BOOLEAN
  /\ pass \in {"none", "pick", "call", "done", "linger", "nudge", "ended"}
  /\ turn \in 1..(Len(Teardowns) + 1)
  /\ fate \in [Callbacks -> {"none", "running", "run", "skipped", "abandoned"}]
  /\ clock \in 0..2 /\ pending \in BOOLEAN /\ sent \in 0..MaxSignals
  /\ main \in {"parked", "waiting", "tail", "returning", "atexit", "exited"}
  /\ Cardinality({c \in Threads \X (1..(MaxSignals + 3)) :
                    c[2] \in DOMAIN stack[c[1]] /\ stack[c[1]][c[2]].at \in Driving})
       + (IF pass = "none" THEN 0 ELSE IF DriverUnderway THEN 0 ELSE 1) <= 1

\* Whoever sees the request sees its kind: no waiter, and no rung of the signal
\* ladder, which asks again for the kind in force, ever reads RUNNING during a
\* shutdown.
KindPublished ==
  /\ requested => Kind # "running"
  /\ \A t \in Threads : \A i \in DOMAIN stack[t] : stack[t][i].kind # "running"

\* A callback is only abandoned or left behind when the budget of the kind in
\* force is spent, and no later request, of a lower kind perhaps, takes that
\* back.
AbandonedPastBudget ==
  \A c \in Callbacks : fate[c] = "abandoned" => BudgetSpent

\* "The timeout is a safety valve, not an expected path": unless it elapsed,
\* the exit nudge unwinds no call of run_shutdown() that is still driving, and
\* when it did, only one that has started the pass.
NudgeSparesDriver ==
  nudged => \A i \in DOMAIN stack[Main] :
    stack[Main][i].at \in Driving => valve /\ stack[Main][i].at \in {"register", "release"}

\* "A main that returns early is held at interpreter exit until the pass
\* finishes": once a shutdown was requested the process does not exit before
\* every callback had its turn and the required ones returned, unless the
\* operator interrupted hard.
ExitHeldForPass ==
  (main = "exited" /\ requested /\ ~hard) =>
    /\ pass \in {"done", "linger", "nudge", "ended"}
    /\ \A c \in Required : fate[c] \in {"run", "skipped"}

\* A driven shutdown ends the process: whatever an optional callback, the
\* program or its tail hang on, completion, the nudge or the operator's last
\* signal gets main out.
DrivenShutdownEnds == drives > 0 ~> (main = "exited" \/ hard)
=============================================================================
