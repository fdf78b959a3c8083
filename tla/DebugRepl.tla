----------------------------- MODULE DebugRepl -----------------------------
(***************************************************************************)
(* The engine's debugger: debug.c and the three debug functions of         *)
(* engine.c.  A variable that ends in Mode, Tick or State has the value of *)
(* the global CADSS_DBG_...; `watched` and `notifyState` are in the        *)
(* environment of each component (debug_env_vars).  A step count of zero   *)
(* or less is 0 here: nothing tells those values apart.                    *)
(***************************************************************************)
EXTENDS Integers

CONSTANTS Watchable,    \* the components a command may name
          Reporters,    \* those that clear notifyState on a state change
          MaxSteps,     \* bound: argument of the command n
          MaxDelay      \* bound: argument of the option -d

ASSUME ReportersAssumption == Reporters \subseteq Watchable
ASSUME StepsAssumption == MaxSteps \in Nat \ {0} /\ MaxDelay \in Nat

VARIABLES dbgOn, dbgTick, dbgExt, notif, wlist, stepTicks, prompting,
          watched, notifyState

debugVars == <<dbgOn, dbgTick, dbgExt, notif, wlist, stepTicks, prompting,
               watched, notifyState>>

optionVars == <<dbgTick, dbgExt>>
envVars == <<watched, notifyState>>

DebugTypeOK ==
  /\ dbgOn \in BOOLEAN /\ dbgExt \in BOOLEAN
  /\ dbgTick \in -1 .. MaxDelay
  /\ notif \in BOOLEAN
  /\ wlist \subseteq Watchable
  /\ stepTicks \in 0 .. MaxSteps
  /\ prompting \in BOOLEAN
  /\ watched \subseteq Watchable
  /\ notifyState \in [Watchable -> BOOLEAN]

\* The options: none, -d as the last argument, or -d <tick>; and whether an
\* external debugger traces the engine, which counts for the first -d only.
DebugInit ==
  /\ \/ dbgOn = FALSE /\ dbgTick \in -1 .. MaxDelay /\ dbgExt = FALSE
     \/ dbgOn = TRUE /\ dbgTick = -1 /\ dbgExt \in BOOLEAN
  /\ notif = FALSE /\ wlist = {} /\ stepTicks = 0
  /\ prompting = FALSE
  /\ watched = {} /\ notifyState = [c \in Watchable |-> FALSE]

\* debugRepl, up to its loop: whether the user is asked in this tick.  The
\* steps are counted only in a tick that gets as far.
On(tickCount) == ~dbgExt /\ (dbgOn \/ (dbgTick >= 0 /\ tickCount >= dbgTick))

debugRepl(tickCount) ==
  /\ dbgOn' = (dbgOn \/ On(tickCount))
  /\ stepTicks' = IF On(tickCount) /\ ~notif /\ stepTicks > 0
                    THEN stepTicks - 1 ELSE stepTicks
  /\ prompting' = (On(tickCount) /\ ~notif /\ stepTicks <= 1)
  /\ UNCHANGED <<optionVars, notif, wlist, envVars>>

\* Mutant of Next_n: the argument is taken as it is.
Next_n_Unchecked(k) ==
  /\ prompting /\ prompting' = FALSE
  /\ stepTicks' = k /\ notif' = FALSE
  /\ UNCHANGED <<dbgOn, optionVars, wlist, envVars>>

\* n: an argument that is no positive number counts as one.
Next_n(k) ==
  /\ prompting /\ prompting' = FALSE
  /\ stepTicks' = IF k <= 0 THEN 1 ELSE k
  /\ notif' = FALSE
  /\ UNCHANGED <<dbgOn, optionVars, wlist, envVars>>

Exit_e ==
  /\ prompting /\ prompting' = FALSE
  /\ dbgOn' = FALSE /\ wlist' = {} /\ notif' = FALSE
  /\ UNCHANGED <<optionVars, stepTicks, envVars>>

Continue_c ==
  /\ prompting /\ prompting' = FALSE
  /\ notif' = TRUE
  /\ UNCHANGED <<dbgOn, optionVars, wlist, stepTicks, envVars>>

\* w and i, and any other line, leave the user at the prompt.
Watch_w(letters) ==
  /\ prompting
  /\ wlist' = wlist \cup letters /\ notif' = FALSE
  /\ UNCHANGED <<dbgOn, optionVars, stepTicks, prompting, envVars>>

Ignore_i(letters) ==
  /\ prompting
  /\ wlist' = wlist \ letters /\ notif' = FALSE
  /\ UNCHANGED <<dbgOn, optionVars, stepTicks, prompting, envVars>>

\* handleDbgReplCmd, for every command but q.
handleDbgReplCmd ==
  \/ \E k \in -1 .. MaxSteps : Next_n(k)
  \/ Exit_e
  \/ Continue_c
  \/ \E letters \in SUBSET Watchable : Watch_w(letters) \/ Ignore_i(letters)

\* Mutant of WatchComponents: the flag is set only when the watching begins.
WatchComponents_OnlyNew ==
  /\ watched' = wlist
  /\ notifyState' = [c \in Watchable |-> IF c \in wlist \ watched THEN notif
                                         ELSE notifyState[c]]
  /\ UNCHANGED <<dbgOn, optionVars, notif, wlist, stepTicks, prompting>>

\* debugWatchComponent, for all components.
WatchComponents ==
  /\ watched' = wlist
  /\ notifyState' = [c \in Watchable |-> IF c \in wlist THEN notif
                                         ELSE notifyState[c]]
  /\ UNCHANGED <<dbgOn, optionVars, notif, wlist, stepTicks, prompting>>

\* debugCheckNotif, for all components: one that has cleared its flag ends
\* the continued execution.
debugCheckNotif(state) ==
  /\ notif' = (notif /\ \A c \in watched : state[c])
  /\ UNCHANGED <<dbgOn, optionVars, wlist, stepTicks, prompting, watched>>

\* A component on the watch-list clears its flag (interconnNotifyState).
Reported(reports) ==
  [c \in Watchable |-> notifyState[c] /\ ~(c \in reports /\ c \in watched)]
=============================================================================
