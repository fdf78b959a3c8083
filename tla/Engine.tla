------------------------------- MODULE Engine -------------------------------
(***************************************************************************)
(* main of engine/engine.c: startup, then the loop of debugger and ticks,  *)
(* until the processor makes no progress or the user quits.  The ticks of  *)
(* the components are the subject of other modules; here a tick may let a  *)
(* component report a change of state, and may be the last.                *)
(*                                                                         *)
(* `turn` is where the loop is: at "repl", its call of debugRepl; at       *)
(* "watch", after it; at "tick", the tick of the processor.  `changed` is  *)
(* no variable of the code: it remembers which components changed state in *)
(* the last tick, and nothing here reads it.                               *)
(***************************************************************************)
EXTENDS Startup, DebugRepl

CONSTANT MaxTicks   \* bound: ticks of a simulation

ASSUME TicksAssumption == MaxTicks \in Nat \ {0}

VARIABLES turn, dbgTickCount, changed

loopVars == <<turn, dbgTickCount, changed>>
vars == <<startupVars, debugVars, loopVars>>

Init ==
  /\ StartupInit
  /\ DebugInit
  /\ turn = "repl" /\ dbgTickCount = 0 /\ changed = {}

Start == StartupNext /\ UNCHANGED <<debugVars, loopVars>>

Repl ==
  /\ Started /\ turn = "repl" /\ ~prompting
  /\ debugRepl(dbgTickCount)
  /\ turn' = "watch"
  /\ UNCHANGED <<startupVars, dbgTickCount, changed>>

Command ==
  /\ Started
  /\ handleDbgReplCmd
  /\ UNCHANGED <<startupVars, loopVars>>

\* q: debugRepl returns 1 before it gets to handleDbgReplCmd, and main's
\* loop ends.
Quit ==
  /\ Started /\ prompting
  /\ Ends("halted")
  /\ UNCHANGED <<debugVars, loopVars>>

Watch ==
  /\ Started /\ turn = "watch" /\ ~prompting
  /\ WatchComponents
  /\ turn' = "tick"
  /\ UNCHANGED <<startupVars, dbgTickCount, changed>>

\* The processor's tick and debugCheckNotif.  Without a trace the first
\* request for an operation is a call through NULL.
Tick(reports, progress) ==
  /\ Started /\ turn = "tick"
  /\ "trace" \in ready
  /\ progress => dbgTickCount + 1 < MaxTicks
  /\ changed' = reports
  /\ notifyState' = Reported(reports)
  /\ debugCheckNotif(Reported(reports))
  /\ dbgTickCount' = dbgTickCount + 1
  /\ turn' = "repl"
  /\ IF progress THEN UNCHANGED startupVars ELSE Ends("finished")

TickCrashes ==
  /\ Started /\ turn = "tick"
  /\ "trace" \notin ready
  /\ Ends("crash")
  /\ UNCHANGED <<debugVars, loopVars>>

Next ==
  \/ Start
  \/ Repl \/ Command \/ Quit \/ Watch
  \/ \E reports \in SUBSET Reporters, progress \in BOOLEAN : Tick(reports, progress)
  \/ TickCrashes

Spec == Init /\ [][Next]_vars

-----------------------------------------------------------------------------
TypeOK ==
  /\ StartupTypeOK
  /\ DebugTypeOK
  /\ turn \in {"repl", "watch", "tick"}
  /\ dbgTickCount \in 0 .. MaxTicks
  /\ changed \subseteq Reporters

\* Although failures to load and to initialise go unnoticed, no tick is
\* simulated without every component: the loop is reached only when all but
\* the trace reader are there, and the trace reader by the first tick's end.
\* A component the user named never causes a crash by failing to load: the
\* program has returned before anything uses it.
RunsComplete ==
  /\ Started => Nameable \subseteq ready
  /\ dbgTickCount > 0 => Components \subseteq ready
  /\ outcome = "crash" =>
       /\ \A i \in 1 .. at - 1 :
            Steps[i].do = "load" /\ Steps[i].component \in named
              => Steps[i].component \in loaded
       /\ ~(Components \subseteq ready)

\* The promise of the debugger, of a debugger that is in the same mode.
Later(tick) == IF dbgTick > tick THEN dbgTick - tick ELSE 0

\* The ticks until the next prompt, of an engine that is to prompt.
Left ==
  IF prompting THEN 0
  ELSE IF dbgOn
    THEN IF turn # "repl" THEN stepTicks
         ELSE IF stepTicks <= 1 THEN 0 ELSE stepTicks - 1
    ELSE IF turn # "repl" /\ Later(dbgTickCount) = 0 THEN 1
         ELSE Later(dbgTickCount)

Mode ==
  CASE ~Started /\ ~Starting -> "over"
    [] outcome = "running" /\ (dbgExt \/ (~dbgOn /\ dbgTick < 0)) -> "off"
    [] outcome = "running" /\ ~dbgExt /\ dbgOn /\ notif -> "continuing"
    [] OTHER -> IF Left = 0 THEN "prompt" ELSE "stepping"

Promise == INSTANCE Debugger WITH
  mode <- Mode,
  left <- IF Mode = "stepping" THEN Left ELSE 0,
  watch <- wlist,
  armed <- dbgTick >= 0,
  ticks <- dbgTickCount,
  changed <- changed

\* The engine's debugger keeps its promise: the user is asked exactly when the
\* commands, the options and the reports say.  A continued execution goes on
\* through a tick in which no watched component reports, and ends with one in
\* which one does: debugCheckNotif does not miss the report, and takes no flag
\* that an earlier tick has cleared for one.
IsDebugger == Promise!Spec
=============================================================================
