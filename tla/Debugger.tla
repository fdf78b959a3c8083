------------------------------ MODULE Debugger ------------------------------
(***************************************************************************)
(* What the debugger promises its user, from its help text (debug.c) and   *)
(* the engine's options (printHelp): a prompt, commands, and ticks of the  *)
(* simulation between two prompts.  `left` counts the ticks until the next *)
(* prompt and `ticks` those of the simulation, `watch` is the watch-list,  *)
(* `changed` are the components that changed state in the last tick, and   *)
(* `armed` says that the engine was started with -d <tick>.                *)
(***************************************************************************)
EXTENDS Naturals

CONSTANTS Watchable,
          Reporters,    \* the components whose changes of state are seen
          MaxSteps, MaxDelay

VARIABLES mode, left, watch, armed, ticks, changed

Modes == {"off", "stepping", "continuing", "prompt", "over"}

\* Nothing, -d, -d <tick> ("waits for <tick> cycles to elapse"), or an engine
\* that never gets as far as a prompt.
Init ==
  /\ watch = {} /\ ticks = 0 /\ changed = {}
  /\ \/ mode \in {"off", "prompt", "over"} /\ left = 0 /\ armed \in BOOLEAN
     \/ mode = "stepping" /\ left \in 1 .. MaxDelay /\ armed = TRUE

\* "n [arg]: advance simulation by arg ticks."
Advance(k) == mode' = "stepping" /\ left' = k /\ UNCHANGED watch

\* "c: continue execution until state change."
Continue == mode' = "continuing" /\ left' = 0 /\ UNCHANGED watch

\* "e: exit from debug REPL."  An armed debugger is back in the next tick.
Exit ==
  /\ watch' = {}
  /\ IF armed THEN mode' = "stepping" /\ left' = 1
     ELSE mode' = "off" /\ left' = 0

\* "q: quit (exit and halt) the simulation."
Quit == mode' = "over" /\ left' = 0 /\ UNCHANGED watch

\* "w, i: add component(s) to, or remove them from, the watch-list."
Watch == watch' \in SUBSET Watchable /\ UNCHANGED <<mode, left>>

Command ==
  /\ mode = "prompt"
  /\ (\E k \in 1 .. MaxSteps : Advance(k)) \/ Continue \/ Exit \/ Quit \/ Watch
  /\ UNCHANGED <<armed, ticks, changed>>

\* A tick of the simulation.  A "c" ends with the first tick in which a watched
\* component changes state, and with no other.
Tick ==
  /\ changed' \in SUBSET Reporters
  /\ \/ mode = "off" /\ UNCHANGED <<mode, left>>
     \/ mode = "stepping" /\ left > 1 /\ left' = left - 1 /\ UNCHANGED mode
     \/ mode = "stepping" /\ left = 1 /\ left' = 0 /\ mode' = "prompt"
     \/ mode = "continuing" /\ changed' \cap watch = {} /\ UNCHANGED <<mode, left>>
     \/ mode = "continuing" /\ changed' \cap watch # {}
        /\ mode' = "prompt" /\ left' = 0
  /\ ticks' = ticks + 1
  /\ UNCHANGED <<watch, armed>>

\* The simulation ends with a tick, or does not get to one.
End ==
  /\ mode' = "over" /\ left' = 0
  /\ \/ UNCHANGED <<ticks, changed>>
     \/ mode # "prompt" /\ ticks' = ticks + 1 /\ changed' \in SUBSET Reporters
  /\ UNCHANGED <<watch, armed>>

Next == Command \/ Tick \/ End

Spec == Init /\ [][Next]_<<mode, left, watch, armed, ticks, changed>>
=============================================================================
