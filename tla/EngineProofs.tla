---------------------------- MODULE EngineProofs ----------------------------
(***************************************************************************)
(* Proofs about Engine: for any components to watch and to report, any     *)
(* step counts and delays.  StartupInv is what main has established when   *)
(* it gets to a step, PromptInv relates the debugger's globals, and with   *)
(* them every step of the engine is one that Debugger promises.            *)
(***************************************************************************)
EXTENDS Engine, SequenceTheorems, TLAPS

-----------------------------------------------------------------------------
(***************************************************************************)
(* The inductive invariant.                                                *)
(***************************************************************************)

\* A component that was named has been loaded when its step is past, and
\* debugInitEnv, the last step, has written into all it writes into.
StartupInv ==
  /\ \A i \in 1 .. at - 1 :
       Steps[i].do = "load" /\ Steps[i].component \in named
         => Steps[i].component \in loaded
  /\ at > Len(Steps) => Nameable \subseteq ready
  /\ outcome = "crash" => ~(Components \subseteq ready)

\* The last tick has not been simulated, and none without a trace.
TickInv ==
  /\ outcome = "running" => dbgTickCount < MaxTicks
  /\ dbgTickCount > 0 => Components \subseteq ready

\* Steps are left only in single-step mode; the user is asked only between
\* debugRepl and the watching of components, and not while steps are left or
\* the execution continues; components watch what the user has said last, and
\* in a continued execution their flags are set again before each tick.
PromptInv ==
  /\ ~dbgOn \/ notif \/ prompting => stepTicks = 0
  /\ notif => dbgOn
  /\ prompting => dbgOn /\ turn = "watch" /\ ~notif /\ ~dbgExt
  /\ dbgOn /\ dbgTick >= 0 => dbgTick <= dbgTickCount
  /\ turn # "repl" /\ dbgOn /\ ~dbgExt /\ ~notif /\ ~prompting
       => stepTicks >= 1
  /\ turn = "tick" => watched = wlist
  /\ turn = "tick" /\ notif => \A c \in watched : notifyState[c]

EngineInv ==
  /\ TypeOK
  /\ StartupInv
  /\ TickInv
  /\ PromptInv

-----------------------------------------------------------------------------
(***************************************************************************)
(* Startup.                                                                *)
(***************************************************************************)

\* main's steps: each concerns a component, and the last one all of them.
LEMMA StepsOfMain ==
  /\ Len(Steps) = 16
  /\ \A i \in 1 .. 16 :
       /\ Steps[i].component \in Components
       /\ i = 16 <=> Steps[i].do = "environment"
<1>1. Len(Steps) = 16
  BY DEF Steps
<1>2. ASSUME NEW i \in 1 .. 16
      PROVE  /\ Steps[i].component \in Components
             /\ i = 16 <=> Steps[i].do = "environment"
  BY DEF Steps, Step, Components
<1> QED
  BY <1>1, <1>2

\* A step of main's first half.
LEMMA StartKeeps ==
  ASSUME StartupTypeOK, StartupInv, StartupNext
  PROVE  /\ StartupTypeOK' /\ StartupInv'
         /\ ready \subseteq ready' /\ outcome = "running"
<1> USE StepsOfMain
<1>1. CASE Load
  BY <1>1 DEF Load, Goes, Starting, StartupTypeOK, StartupInv
<1>2. CASE LoadFails
  <2>1. CASE Steps[at].component \in named
    BY <1>2, <2>1 DEF LoadFails, Ends, Starting, StartupTypeOK, StartupInv,
                      Outcomes
  <2>2. CASE Steps[at].component \notin named
    BY <1>2, <2>2 DEF LoadFails, Goes, Starting, StartupTypeOK, StartupInv
  <2> QED
    BY <2>1, <2>2
<1>3. CASE OpenSettings
  BY <1>3 DEF OpenSettings, Goes, Ends, Starting, StartupTypeOK, StartupInv,
              Outcomes
<1>4. CASE InitComponent
  BY <1>4 DEF InitComponent, Goes, Starting, StartupTypeOK, StartupInv
<1>5. CASE InitReturnsNull
  BY <1>5 DEF InitReturnsNull, Goes, Ends, Starting, StartupTypeOK, StartupInv,
              Outcomes
<1>6. CASE InitCrashes
  <2>1. ~(Components \subseteq ready)
    <3>1. Steps[at].component \in Components
      BY <1>6 DEF InitCrashes, Starting, StartupTypeOK
    <3>2. Uses(Steps[at].component) \subseteq Components
      BY DEF Uses, Components
    <3> QED
      BY <1>6, <3>1, <3>2 DEF InitCrashes, StartupTypeOK
  <2> QED
    BY <1>6, <2>1 DEF InitCrashes, Ends, Starting, StartupTypeOK, StartupInv,
                      Outcomes
<1>7. CASE Environment
  BY <1>7 DEF Environment, Goes, Ends, Starting, StartupTypeOK, StartupInv,
              Outcomes, Nameable
<1> QED
  BY <1>1, <1>2, <1>3, <1>4, <1>5, <1>6, <1>7 DEF StartupNext

-----------------------------------------------------------------------------
(***************************************************************************)
(* The loop.                                                               *)
(***************************************************************************)

\* The invariant holds at the start.
LEMMA InitEngine == Init => EngineInv
<1> SUFFICES ASSUME Init PROVE EngineInv
  OBVIOUS
<1>1. StartupTypeOK /\ StartupInv
  BY StepsOfMain DEF Init, StartupInit, StartupTypeOK, StartupInv, Outcomes
<1>3. DebugTypeOK
  <2>1. dbgTick \in -1 .. MaxDelay /\ stepTicks \in 0 .. MaxSteps
    BY StepsAssumption DEF Init, DebugInit
  <2> QED
    BY <2>1 DEF Init, DebugInit, DebugTypeOK
<1>2. TickInv /\ PromptInv /\ TypeOK
  BY <1>1, <1>3, TicksAssumption
  DEF Init, StartupInit, DebugInit, TypeOK, TickInv, PromptInv
<1> QED
  BY <1>1, <1>2 DEF EngineInv

\* Every step keeps the invariant.
LEMMA NextEngine ==
  ASSUME EngineInv, [Next]_vars
  PROVE  EngineInv'
<1> USE DEF EngineInv, TypeOK
<1>1. CASE Start
  <2>1. StartupTypeOK' /\ StartupInv' /\ ready \subseteq ready'
        /\ outcome = "running"
    BY <1>1, StartKeeps DEF Start
  <2> QED
    BY <1>1, <2>1
    DEF Start, loopVars, debugVars, DebugTypeOK, TickInv, PromptInv
<1>2. CASE Repl
  <2>1. StartupTypeOK' /\ StartupInv' /\ TickInv' /\ turn' = "watch"
    BY <1>2 DEF Repl, startupVars, StartupTypeOK, StartupInv, TickInv
  <2>2. /\ dbgOn' \in BOOLEAN /\ prompting' \in BOOLEAN
        /\ stepTicks' \in 0 .. MaxSteps
    BY <1>2, StepsAssumption DEF Repl, debugRepl, On, DebugTypeOK
  <2>3. DebugTypeOK'
    BY <1>2, <2>2 DEF Repl, debugRepl, optionVars, envVars, DebugTypeOK
  <2>4. PromptInv'
    BY <1>2, StepsAssumption
    DEF Repl, debugRepl, On, optionVars, envVars, DebugTypeOK, PromptInv
  <2> QED
    BY <1>2, <2>1, <2>3, <2>4 DEF Repl
<1>3. CASE Command
  <2>1. StartupTypeOK' /\ StartupInv' /\ TickInv'
        /\ UNCHANGED <<turn, dbgTickCount, changed>>
    BY <1>3 DEF Command, startupVars, loopVars, StartupTypeOK, StartupInv,
                TickInv
  <2>2. ASSUME NEW k \in -1 .. MaxSteps, Next_n(k)
        PROVE  DebugTypeOK' /\ PromptInv'
    <3>1. stepTicks' \in 1 .. MaxSteps
      BY <2>2, StepsAssumption DEF Next_n
    <3>2. DebugTypeOK'
      <4>1. /\ UNCHANGED <<dbgOn, dbgTick, dbgExt, wlist, watched, notifyState>>
            /\ prompting' = FALSE /\ notif' = FALSE
        BY <2>2 DEF Next_n, optionVars, envVars
      <4>2. stepTicks' \in 0 .. MaxSteps
        BY <3>1
      <4> QED
        BY <4>1, <4>2 DEF DebugTypeOK
    <3>3. PromptInv'
      BY <2>1, <2>2, <3>1 DEF Next_n, optionVars, envVars, PromptInv
    <3> QED
      BY <3>2, <3>3
  <2>3. CASE Exit_e
    BY <2>1, <2>3 DEF Exit_e, optionVars, envVars, DebugTypeOK, PromptInv
  <2>4. CASE Continue_c
    BY <2>1, <2>4 DEF Continue_c, optionVars, envVars, DebugTypeOK, PromptInv
  <2>5. ASSUME NEW letters \in SUBSET Watchable,
               Watch_w(letters) \/ Ignore_i(letters)
        PROVE  DebugTypeOK' /\ PromptInv'
    <3>1. wlist' \subseteq Watchable
      BY <2>5 DEF Watch_w, Ignore_i, DebugTypeOK
    <3>2. /\ prompting /\ notif' = FALSE
          /\ UNCHANGED <<dbgOn, optionVars, stepTicks, prompting, envVars>>
      BY <2>5 DEF Watch_w, Ignore_i
    <3> QED
      BY <2>1, <3>1, <3>2 DEF optionVars, envVars, DebugTypeOK, PromptInv
  <2> QED
    BY <1>3, <2>1, <2>2, <2>3, <2>4, <2>5 DEF Command, handleDbgReplCmd
<1>4. CASE Quit
  BY <1>4
  DEF Quit, Ends, debugVars, loopVars, StartupTypeOK, DebugTypeOK, StartupInv,
      TickInv, PromptInv, Outcomes
<1>5. CASE Watch
  BY <1>5
  DEF Watch, WatchComponents, startupVars, optionVars, StartupTypeOK,
      DebugTypeOK, StartupInv, TickInv, PromptInv
<1>6. ASSUME NEW reports \in SUBSET Reporters, NEW progress \in BOOLEAN,
             Tick(reports, progress)
      PROVE  EngineInv'
  <2>1. StartupTypeOK' /\ StartupInv' /\ TickInv'
        /\ dbgTickCount' \in 0 .. MaxTicks
    <3>1. Components \subseteq ready
      BY <1>6 DEF Tick, Started, StartupInv, StartupTypeOK, Nameable
    <3>2. /\ UNCHANGED <<named, loaded, ready, at>>
          /\ outcome' \in {outcome, "finished"} /\ outcome = "running"
          /\ outcome' = "running" => dbgTickCount + 1 < MaxTicks
          /\ dbgTickCount' = dbgTickCount + 1
      BY <1>6 DEF Tick, Started, Ends, startupVars
    <3> QED
      BY <3>1, <3>2, TicksAssumption
      DEF StartupTypeOK, StartupInv, TickInv, Outcomes
  <2>2. DebugTypeOK' /\ PromptInv'
    BY <1>6
    DEF Tick, debugCheckNotif, Reported, optionVars, DebugTypeOK, PromptInv
  <2>3. changed' \subseteq Reporters
    BY <1>6 DEF Tick
  <2> QED
    BY <1>6, <2>1, <2>2, <2>3 DEF Tick
<1>7. CASE TickCrashes
  BY <1>7
  DEF TickCrashes, Started, Ends, debugVars, loopVars, StartupTypeOK,
      DebugTypeOK, StartupInv, TickInv, PromptInv, Outcomes, Components
<1>8. CASE UNCHANGED vars
  BY <1>8
  DEF vars, startupVars, debugVars, loopVars, StartupTypeOK, DebugTypeOK,
      StartupInv, TickInv, PromptInv
<1> QED
  BY <1>1, <1>2, <1>3, <1>4, <1>5, <1>6, <1>7, <1>8 DEF Next

\* The engine stays within the invariant.
THEOREM StaysInvariant == Spec => []EngineInv
BY InitEngine, NextEngine, PTL DEF Spec

\* Every variable keeps its type: no command, option or report makes a step
\* count, a watch-list or a tick other than the loop expects.
THEOREM TypeCorrect == Spec => []TypeOK
<1>1. EngineInv => TypeOK
  BY DEF EngineInv
<1> QED
  BY <1>1, StaysInvariant, PTL

\* main ticks only with all components, and ends in a crash only where one
\* is missing that the user had not named.
THEOREM StartsComplete == Spec => []RunsComplete
<1>1. EngineInv => RunsComplete
  BY StepsOfMain
  DEF EngineInv, RunsComplete, StartupInv, TickInv, Started
<1> QED
  BY <1>1, StaysInvariant, PTL

-----------------------------------------------------------------------------
(***************************************************************************)
(* The debugger's promise.                                                 *)
(***************************************************************************)

\* The ticks until the next prompt are a natural number.
LEMMA LeftCounts ==
  ASSUME DebugTypeOK, dbgTickCount \in Nat
  PROVE  Left \in Nat
BY StepsAssumption DEF Left, Later, DebugTypeOK

\* The engine starts as the options say.
LEMMA InitPromises == Init => Promise!Init
<1> SUFFICES ASSUME Init PROVE Promise!Init
  OBVIOUS
<1>1. /\ wlist = {} /\ dbgTickCount = 0 /\ turn = "repl" /\ ~prompting
      /\ changed = {} /\ outcome = "running" /\ ~notif /\ stepTicks = 0
      /\ dbgTick \in -1 .. MaxDelay
      /\ (dbgTick >= 0) \in BOOLEAN
  BY StepsAssumption DEF Init, DebugInit, StartupInit
<1>2. Started \/ Starting
  BY <1>1, StepsOfMain DEF Init, StartupInit, Started, Starting
<1>3. CASE dbgOn = FALSE /\ dbgExt = FALSE /\ dbgTick > 0
  <2>1. Left = dbgTick
    BY <1>1, <1>3 DEF Left, Later
  <2>2. Mode = "stepping"
    BY <1>1, <1>2, <1>3, <2>1 DEF Mode
  <2> QED
    BY <1>1, <1>3, <2>1, <2>2 DEF Promise!Init
<1>4. CASE ~(dbgOn = FALSE /\ dbgExt = FALSE /\ dbgTick > 0)
  <2>1. Left = 0
    BY <1>1, <1>4, StepsAssumption DEF Left, Later, Init, DebugInit
  <2>2. Mode \in {"off", "prompt"}
    BY <1>1, <1>2, <1>4, <2>1 DEF Mode, Init, DebugInit
  <2> QED
    BY <1>1, <2>1, <2>2 DEF Promise!Init
<1> QED
  BY <1>3, <1>4

\* The values of Mode, one by one.
ModeFacts ==
  /\ outcome # "running" => Mode = "over"
  /\ outcome = "running" /\ dbgExt => Mode = "off"
  /\ outcome = "running" /\ ~dbgExt /\ ~dbgOn /\ dbgTick < 0 => Mode = "off"
  /\ outcome = "running" /\ ~dbgExt /\ dbgOn /\ notif => Mode = "continuing"
  /\ /\ outcome = "running" /\ ~dbgExt
     /\ IF dbgOn THEN ~notif ELSE ~(dbgTick < 0)
     => Mode = IF Left = 0 THEN "prompt" ELSE "stepping"

\* They hold in every state, whatever the order in which Mode's cases are
\* looked at.
LEMMA ModeIs == TypeOK => ModeFacts
<1> SUFFICES ASSUME TypeOK PROVE ModeFacts
  OBVIOUS
<1>1. outcome = "running" <=> Started \/ Starting
  BY StepsOfMain DEF Started, Starting, TypeOK, StartupTypeOK
<1>2. CASE outcome # "running"
  BY <1>1, <1>2 DEF Mode, ModeFacts
<1>3. CASE outcome = "running"
  <2>1. dbgOn \in BOOLEAN /\ dbgExt \in BOOLEAN /\ notif \in BOOLEAN
    BY DEF TypeOK, DebugTypeOK
  <2>2. CASE dbgExt \/ (~dbgOn /\ dbgTick < 0)
    BY <1>1, <1>3, <2>2 DEF Mode, ModeFacts
  <2>3. CASE ~dbgExt /\ dbgOn /\ notif
    BY <1>1, <1>3, <2>3 DEF Mode, ModeFacts
  <2>4. CASE ~dbgExt /\ IF dbgOn THEN ~notif ELSE ~(dbgTick < 0)
    BY <1>1, <1>3, <2>1, <2>4 DEF Mode, ModeFacts
  <2> QED
    BY <2>1, <2>2, <2>3, <2>4
<1> QED
  BY <1>2, <1>3

\* The same in the next state.
LEMMA ModeIsNext == TypeOK' => ModeFacts'
BY ModeIs, PTL

\* The variables of the promise.
PromiseVars ==
  <<Mode, IF Mode = "stepping" THEN Left ELSE 0, wlist, dbgTick >= 0,
    dbgTickCount, changed>>

\* A step that ends the program is the promise's end.
LEMMA EndPromises ==
  ASSUME TypeOK', outcome' # "running", UNCHANGED <<wlist, dbgTick>>,
         \/ UNCHANGED <<dbgTickCount, changed>>
         \/ /\ Mode # "prompt" /\ dbgTickCount' = dbgTickCount + 1
            /\ changed' \in SUBSET Reporters
  PROVE  Promise!End
<1>1. Mode' = "over"
  BY ModeIsNext DEF ModeFacts
<1> QED
  BY <1>1 DEF Promise!End

\* debugRepl asks in the ticks in which the promise is to prompt.
LEMMA ReplPromises ==
  ASSUME EngineInv, EngineInv', Repl
  PROVE  UNCHANGED PromiseVars
<1> USE DEF EngineInv, TypeOK
<1>1. /\ outcome = "running" /\ outcome' = "running"
      /\ turn = "repl" /\ turn' = "watch" /\ ~prompting
      /\ UNCHANGED <<dbgTick, dbgExt, notif, wlist, dbgTickCount, changed>>
  BY DEF Repl, Started, startupVars, debugRepl, optionVars
<1>2. ModeFacts /\ ModeFacts'
  BY ModeIs, ModeIsNext
<1>3. /\ dbgOn' = (dbgOn \/ On(dbgTickCount))
      /\ stepTicks' = IF On(dbgTickCount) /\ ~notif /\ stepTicks > 0
                        THEN stepTicks - 1 ELSE stepTicks
      /\ prompting' = (On(dbgTickCount) /\ ~notif /\ stepTicks <= 1)
  BY DEF Repl, debugRepl
<1>4. CASE dbgExt
  BY <1>1, <1>2, <1>4 DEF ModeFacts, PromiseVars
<1>5. CASE ~dbgExt /\ ~dbgOn /\ dbgTick < 0
  BY <1>1, <1>2, <1>3, <1>5 DEF On, ModeFacts, PromiseVars, DebugTypeOK
<1>6. CASE ~dbgExt /\ dbgOn /\ notif
  <2>1. dbgOn' /\ notif' /\ ~dbgExt'
    BY <1>1, <1>3, <1>6
  <2>2. Mode = "continuing" /\ Mode' = "continuing"
    BY <1>1, <1>2, <1>6, <2>1 DEF ModeFacts
  <2> QED
    BY <1>1, <2>2 DEF PromiseVars
<1>7. CASE ~dbgExt /\ IF dbgOn THEN ~notif ELSE ~(dbgTick < 0)
  <2>1. Left' = Left
    <3>1. dbgTick \in Int /\ stepTicks \in Nat /\ dbgTickCount \in Nat
      BY StepsAssumption, TicksAssumption DEF DebugTypeOK
    <3>2. CASE dbgOn /\ ~notif
      <4>1. On(dbgTickCount)
        BY <1>7, <3>2 DEF On
      <4>2. /\ dbgOn' /\ (prompting' <=> stepTicks <= 1)
            /\ stepTicks' = IF stepTicks > 0 THEN stepTicks - 1 ELSE stepTicks
        BY <1>3, <3>2, <4>1
      <4> QED
        BY <1>1, <3>1, <3>2, <4>2 DEF Left
    <3>3. CASE ~dbgOn /\ dbgTick >= 0 /\ dbgTickCount >= dbgTick
      <4>1. On(dbgTickCount) /\ ~notif /\ stepTicks = 0
        BY <1>7, <3>3 DEF On, PromptInv
      <4>2. prompting'
        <5>1. stepTicks <= 1
          BY <4>1
        <5> QED
          BY <1>3, <4>1, <5>1, Zenon
      <4> QED
        BY <1>1, <3>1, <3>3, <4>2 DEF Left, Later
    <3>4. CASE ~dbgOn /\ dbgTickCount < dbgTick
      <4>1. ~On(dbgTickCount)
        BY <3>1, <3>4 DEF On
      <4>2. ~dbgOn' /\ ~prompting'
        BY <1>3, <3>4, <4>1
      <4>3. Left = dbgTick - dbgTickCount
        BY <1>1, <3>1, <3>4 DEF Left, Later
      <4> QED
        BY <1>1, <3>1, <3>4, <4>2, <4>3 DEF Left, Later
    <3> QED
      BY <1>7, <3>1, <3>2, <3>3, <3>4
  <2>2. IF dbgOn' THEN ~notif' ELSE ~(dbgTick' < 0)
    BY <1>1, <1>3, <1>7 DEF PromptInv, DebugTypeOK
  <2>3. Mode' = Mode
    BY <1>1, <1>2, <1>7, <2>1, <2>2 DEF ModeFacts
  <2> QED
    BY <1>1, <2>1, <2>3 DEF PromiseVars
<1> QED
  BY <1>4, <1>5, <1>6, <1>7 DEF DebugTypeOK

\* A command does what its help text says.
LEMMA CommandPromises ==
  ASSUME EngineInv, EngineInv', Command
  PROVE  Promise!Next
<1> USE DEF EngineInv, TypeOK
<1>1. /\ outcome = "running" /\ outcome' = "running"
      /\ prompting /\ dbgOn /\ ~notif /\ ~dbgExt /\ turn = "watch"
      /\ stepTicks = 0
      /\ UNCHANGED <<turn, dbgTick, dbgExt, dbgTickCount, changed>>
  BY DEF Command, Started, startupVars, loopVars, handleDbgReplCmd, Next_n,
         Exit_e, Continue_c, Watch_w, Ignore_i, optionVars, PromptInv
<1>2. ModeFacts /\ ModeFacts'
  BY ModeIs, ModeIsNext
<1>3. Mode = "prompt"
  BY <1>1, <1>2 DEF ModeFacts, Left
<1>4. ASSUME NEW k \in -1 .. MaxSteps, Next_n(k)
      PROVE  \E n \in 1 .. MaxSteps : Promise!Advance(n)
  <2>1. /\ stepTicks' \in 1 .. MaxSteps
        /\ dbgOn' = dbgOn /\ ~prompting' /\ ~notif' /\ wlist' = wlist
    BY <1>4, StepsAssumption DEF Next_n
  <2>2. Left' = stepTicks'
    BY <1>1, <2>1 DEF Left
  <2>3. Mode' = "stepping"
    BY <1>1, <1>2, <2>1, <2>2 DEF ModeFacts
  <2> QED
    BY <2>1, <2>2, <2>3 DEF Promise!Advance
<1>5. ASSUME Exit_e PROVE Promise!Exit
  <2>1. ~dbgOn' /\ ~prompting' /\ wlist' = {} /\ ~notif'
    BY <1>5 DEF Exit_e
  <2>2. CASE dbgTick >= 0
    <3>1. Left' = 1
      <4>1. dbgTick <= dbgTickCount /\ dbgTick \in Int /\ dbgTickCount \in Int
        BY <1>1, <2>2, StepsAssumption, TicksAssumption
        DEF PromptInv, DebugTypeOK
      <4> QED
        BY <1>1, <2>1, <4>1 DEF Left, Later
    <3>2. Mode' = "stepping"
      BY <1>1, <1>2, <2>1, <2>2, <3>1 DEF ModeFacts, DebugTypeOK
    <3> QED
      BY <2>1, <2>2, <3>1, <3>2 DEF Promise!Exit
  <2>3. CASE ~(dbgTick >= 0)
    <3>1. Mode' = "off"
      BY <1>1, <1>2, <2>1, <2>3 DEF ModeFacts, DebugTypeOK
    <3> QED
      BY <2>1, <2>3, <3>1 DEF Promise!Exit
  <2> QED
    BY <2>2, <2>3
<1>6. ASSUME Continue_c PROVE Promise!Continue
  <2>1. dbgOn' /\ notif' /\ wlist' = wlist
    BY <1>1, <1>6 DEF Continue_c
  <2>2. Mode' = "continuing"
    BY <1>1, <1>2, <2>1 DEF ModeFacts
  <2> QED
    BY <2>1, <2>2 DEF Promise!Continue
<1>7. ASSUME NEW letters \in SUBSET Watchable,
             Watch_w(letters) \/ Ignore_i(letters)
      PROVE  Promise!Watch
  <2>1. dbgOn' /\ prompting' /\ ~notif' /\ wlist' \in SUBSET Watchable
    <3>1. dbgOn' = dbgOn /\ prompting' = prompting /\ ~notif'
      BY <1>7 DEF Watch_w, Ignore_i
    <3>2. wlist' \in SUBSET Watchable
      BY DEF DebugTypeOK
    <3> QED
      BY <1>1, <3>1, <3>2
  <2>2. Mode' = "prompt"
    BY <1>1, <1>2, <2>1 DEF ModeFacts, Left
  <2> QED
    BY <1>3, <2>1, <2>2 DEF Promise!Watch
<1> QED
  BY <1>1, <1>3, <1>4, <1>5, <1>6, <1>7
  DEF Command, handleDbgReplCmd, Promise!Next, Promise!Command

\* A tick counts, and the report of a watched component, nothing else, ends a
\* "c".
LEMMA TickPromises ==
  ASSUME EngineInv, EngineInv', NEW reports \in SUBSET Reporters,
         NEW progress \in BOOLEAN, Tick(reports, progress)
  PROVE  Promise!Next
<1> USE DEF EngineInv, TypeOK
<1>1. /\ outcome = "running" /\ turn = "tick" /\ turn' = "repl"
      /\ ~prompting /\ watched = wlist
      /\ UNCHANGED <<dbgOn, dbgTick, dbgExt, wlist, stepTicks, prompting>>
      /\ notif' = (notif /\ \A c \in watched : Reported(reports)[c])
      /\ dbgTickCount' = dbgTickCount + 1
      /\ changed' = reports /\ changed' \in SUBSET Reporters
      /\ wlist \subseteq Watchable
  BY DEF Tick, Started, debugCheckNotif, optionVars, PromptInv, DebugTypeOK
<1>2. ModeFacts /\ ModeFacts'
  BY ModeIs, ModeIsNext
<1>3. Left > 0 \/ dbgExt \/ notif
  BY <1>1 DEF Left, Later, PromptInv, DebugTypeOK
<1>4. Mode # "prompt"
  BY <1>1, <1>2, <1>3 DEF ModeFacts, PromptInv, DebugTypeOK
<1>5. CASE ~progress
  <2>1. outcome' # "running"
    BY <1>5 DEF Tick, Ends
  <2> QED
    BY <1>1, <1>4, <2>1, EndPromises DEF Promise!Next
<1>6. ASSUME progress PROVE Promise!Tick
  <2>1. outcome' = "running"
    BY <1>1, <1>6 DEF Tick, startupVars
  <2>2. CASE dbgExt \/ (~dbgOn /\ dbgTick < 0)
    <3>1. Mode = "off" /\ Mode' = "off"
      BY <1>1, <1>2, <2>1, <2>2 DEF ModeFacts, DebugTypeOK
    <3> QED
      BY <1>1, <3>1 DEF Promise!Tick
  <2>3. CASE ~dbgExt /\ dbgOn /\ notif /\ notif'
    <3>1. Mode = "continuing" /\ Mode' = "continuing"
      BY <1>1, <1>2, <2>1, <2>3 DEF ModeFacts
    <3>2. changed' \cap wlist = {}
      <4>1. \A c \in wlist : Reported(reports)[c]
        BY <1>1, <2>3
      <4>2. \A c \in wlist : c \notin reports
        BY <1>1, <4>1 DEF Reported
      <4> QED
        BY <1>1, <4>2
    <3> QED
      BY <1>1, <3>1, <3>2 DEF Promise!Tick
  <2>4. CASE ~dbgExt /\ dbgOn /\ notif /\ ~notif'
    <3>1. changed' \cap wlist # {}
      <4>1. PICK c \in wlist : ~Reported(reports)[c]
        BY <1>1, <2>4
      <4>2. notifyState[c]
        BY <1>1, <2>4 DEF PromptInv
      <4>3. c \in reports
        BY <1>1, <4>1, <4>2 DEF Reported
      <4> QED
        BY <1>1, <4>3
    <3>2. Left' = 0
      BY <1>1, <2>4 DEF Left, PromptInv
    <3>3. Mode = "continuing" /\ Mode' = "prompt"
      BY <1>1, <1>2, <2>1, <2>4, <3>2 DEF ModeFacts
    <3> QED
      BY <1>1, <3>1, <3>3 DEF Promise!Tick
  <2>5. CASE ~dbgExt /\ IF dbgOn THEN ~notif ELSE ~(dbgTick < 0)
    <3>1. Left > 0 /\ Left' = Left - 1
      BY <1>1, <2>5 DEF Left, Later, PromptInv, DebugTypeOK
    <3>2. IF dbgOn' THEN ~notif' ELSE ~(dbgTick' < 0)
      BY <1>1, <2>5
    <3>3. /\ Mode = "stepping"
          /\ Mode' = IF Left' = 0 THEN "prompt" ELSE "stepping"
      BY <1>1, <1>2, <2>1, <2>5, <3>1, <3>2 DEF ModeFacts
    <3>4. Left \in Nat
      BY LeftCounts
    <3> QED
      BY <1>1, <3>1, <3>3, <3>4 DEF Promise!Tick
  <2> QED
    BY <1>1, <2>2, <2>3, <2>4, <2>5 DEF DebugTypeOK, PromptInv
<1> QED
  BY <1>5, <1>6 DEF Promise!Next

\* Every step of the engine is one of the promise or leaves it alone.
LEMMA NextPromises ==
  ASSUME EngineInv, EngineInv', [Next]_vars
  PROVE  [Promise!Next]_PromiseVars
<1> USE DEF EngineInv, TypeOK
<1>1. CASE Start
  <2>1. UNCHANGED <<debugVars, loopVars>> /\ outcome = "running"
    BY <1>1, StartKeeps DEF Start
  <2>2. UNCHANGED <<wlist, dbgTick, dbgTickCount, changed, Left>>
    BY <2>1 DEF debugVars, loopVars, Left, Later
  <2>3. CASE outcome' = "running"
    <3>1. Mode' = Mode
      BY <2>1, <2>2, <2>3, ModeIs, ModeIsNext
      DEF ModeFacts, debugVars, DebugTypeOK
    <3> QED
      BY <2>2, <3>1 DEF PromiseVars
  <2>4. CASE outcome' # "running"
    BY <2>2, <2>4, EndPromises DEF Promise!Next
  <2> QED
    BY <2>3, <2>4
<1>2. CASE Repl
  BY <1>2, ReplPromises
<1>3. CASE Command
  BY <1>3, CommandPromises
<1>4. CASE Quit \/ TickCrashes
  <2>1. /\ UNCHANGED <<wlist, dbgTick, dbgTickCount, changed>>
        /\ outcome' # "running"
    BY <1>4 DEF Quit, TickCrashes, Ends, debugVars, loopVars
  <2> QED
    BY <2>1, EndPromises DEF Promise!Next
<1>5. CASE Watch
  <2>1. /\ UNCHANGED <<dbgOn, dbgTick, dbgExt, notif, wlist, stepTicks,
                       prompting, dbgTickCount, changed, outcome>>
        /\ turn = "watch" /\ turn' = "tick" /\ outcome = "running"
    BY <1>5 DEF Watch, Started, WatchComponents, startupVars, optionVars
  <2>2. Left' = Left
    BY <2>1 DEF Left, Later
  <2>3. Mode' = Mode
    BY <2>1, <2>2, ModeIs, ModeIsNext DEF ModeFacts, DebugTypeOK
  <2> QED
    BY <2>1, <2>2, <2>3 DEF PromiseVars
<1>6. ASSUME NEW reports \in SUBSET Reporters, NEW progress \in BOOLEAN,
             Tick(reports, progress)
      PROVE  Promise!Next
  BY <1>6, TickPromises
<1>7. CASE UNCHANGED vars
  BY <1>7
  DEF vars, startupVars, debugVars, loopVars, PromiseVars, Mode, Left, Later,
      Started, Starting
<1> QED
  BY <1>1, <1>2, <1>3, <1>4, <1>5, <1>6, <1>7 DEF Next

\* The debugger keeps its promise, for any components to watch, any counts
\* of steps and any delay: debugRepl, the commands of handleDbgReplCmd and
\* debugCheckNotif prompt exactly where the help text and the options say, and
\* in a continued execution exactly behind the ticks in which a watched
\* component reported.
THEOREM KeepsItsPromise == Spec => IsDebugger
<1>1. Init => Promise!Init
  BY InitPromises
<1>2. EngineInv /\ EngineInv' /\ [Next]_vars => [Promise!Next]_PromiseVars
  BY NextPromises
<1>3. Spec => []EngineInv
  BY StaysInvariant
<1> QED
  BY <1>1, <1>2, <1>3, PTL DEF Spec, IsDebugger, Promise!Spec, PromiseVars

=============================================================================
