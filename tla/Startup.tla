------------------------------ MODULE Startup ------------------------------
(***************************************************************************)
(* The first half of main (engine/engine.c): every component is a shared   *)
(* object that is loaded, from the directory an option names or from its   *)
(* default, and then initialised with the components it calls.  Only some  *)
(* failures are looked at; the others leave a NULL behind, and the program *)
(* ends where that is first used.                                          *)
(***************************************************************************)
EXTENDS Integers, Sequences

Components == {"trace", "interconnect", "coherence", "cache", "processor",
               "branch", "memory"}

\* The components a -p, -c, -b, -o, -i or -m can name.
Nameable == Components \ {"trace"}

\* The steps of main, in order.
Step(do, component) == [do |-> do, component |-> component]

Steps ==
  <<Step("load", "trace"), Step("init", "trace"), Step("settings", "trace"),
    Step("load", "interconnect"), Step("load", "coherence"),
    Step("load", "cache"), Step("load", "processor"), Step("load", "branch"),
    Step("load", "memory"),
    Step("init", "memory"), Step("init", "interconnect"),
    Step("init", "coherence"), Step("init", "cache"), Step("init", "branch"),
    Step("init", "processor"), Step("environment", "processor")>>

\* The component whose function an init calls.
Uses(c) == CASE c = "interconnect" -> {"memory"}
             [] c = "coherence" -> {"interconnect"}
             [] c = "cache" -> {"coherence"}
             [] OTHER -> {}

\* An init that may return NULL: no trace file, a bad number of processors,
\* a cache's options, or a component whose source is not at hand.
MayReturnNull == {"trace", "coherence", "cache", "processor"}

VARIABLES named,     \* the components named by an option
          loaded,    \* those that loadSim has returned
          ready,     \* those that init has returned
          at,        \* the next of Steps
          outcome    \* how the program ended: "exit" is an early return 0

startupVars == <<named, loaded, ready, at, outcome>>

Outcomes == {"running", "exit", "crash", "abort", "halted", "finished"}

StartupTypeOK ==
  /\ named \subseteq Nameable
  /\ loaded \subseteq Components /\ ready \subseteq loaded
  /\ at \in 1 .. Len(Steps) + 1
  /\ outcome \in Outcomes

StartupInit ==
  /\ named \in SUBSET Nameable
  /\ loaded = {} /\ ready = {}
  /\ at = 1 /\ outcome = "running"

Starting == outcome = "running" /\ at <= Len(Steps)

Started == outcome = "running" /\ at > Len(Steps)

Ends(how) == outcome' = how /\ UNCHANGED <<named, loaded, ready, at>>

Goes == at' = at + 1 /\ UNCHANGED <<named, outcome>>

\* Mutant of LoadFails: a named component that fails is gone without, too.
LoadFails_Always ==
  /\ Starting /\ Steps[at].do = "load"
  /\ Goes /\ UNCHANGED <<loaded, ready>>

\* loadSim returns NULL: the end for a component that was named.
LoadFails ==
  /\ Starting /\ Steps[at].do = "load"
  /\ IF Steps[at].component \in named THEN Ends("exit")
     ELSE Goes /\ UNCHANGED <<loaded, ready>>

Load ==
  /\ Starting /\ Steps[at].do = "load"
  /\ loaded' = loaded \cup {Steps[at].component}
  /\ Goes /\ UNCHANGED ready

OpenSettings ==
  /\ Starting /\ Steps[at].do = "settings"
  /\ \/ Goes /\ UNCHANGED <<loaded, ready>>
     \/ Ends("exit")

\* init, called through the pointer that loadSim has returned.
InitComponent ==
  LET c == Steps[at].component
  IN /\ Starting /\ Steps[at].do = "init"
     /\ c \in loaded /\ Uses(c) \subseteq ready
     /\ ready' = ready \cup {c}
     /\ Goes /\ UNCHANGED loaded

\* init returns NULL, which main looks at for the processor only.
InitReturnsNull ==
  LET c == Steps[at].component
  IN /\ Starting /\ Steps[at].do = "init"
     /\ c \in loaded \cap MayReturnNull
     /\ Uses(c) \subseteq ready \/ c = "cache"
     /\ IF c = "processor" THEN Ends("abort")
        ELSE Goes /\ UNCHANGED <<loaded, ready>>

\* A NULL is called through; a cache may look at its coherence first.
InitCrashes ==
  LET c == Steps[at].component
  IN /\ Starting /\ Steps[at].do = "init"
     /\ c \notin loaded \/ ~(Uses(c) \subseteq ready)
     /\ Ends("crash")

\* debugInitEnv writes into every component but the trace reader.
Environment ==
  /\ Starting /\ Steps[at].do = "environment"
  /\ IF Nameable \subseteq ready THEN Goes /\ UNCHANGED <<loaded, ready>>
     ELSE Ends("crash")

StartupNext ==
  \/ Load \/ LoadFails \/ OpenSettings
  \/ InitComponent \/ InitReturnsNull \/ InitCrashes \/ Environment
=============================================================================
