------------------------------ MODULE Processor ------------------------------
(***************************************************************************)
(* processor.c: cores that run their traces in order, one operation at a   *)
(* time.  tick visits the cores 0, 1, ... after the branch predictor and   *)
(* the cache have ticked; `visiting` is the core it is at.  What it returns *)
(* is `progress`, and the engine ticks again only if that is set.          *)
(*                                                                         *)
(* The processor does not look at an operation's operands.                 *)
(***************************************************************************)
EXTENDS TraceReader

CONSTANT Mispredicts   \* {FALSE} for branch.c, which is always right

ASSUME MispredictsAssumption == Mispredicts \subseteq BOOLEAN
\* A tag has eight bits for the core.
ASSUME TagAssumption == ProcessorCount <= 256

VARIABLES core,      \* memOpTag, pendingMem and pendingBranch of each core
          visiting,  \* the loop of tick
          progress

coreVars == <<core, readerVars>>
processorVars == <<coreVars, visiting, progress>>

ProcessorTypeOK ==
  /\ core \in [Procs -> [memOpTag : Nat, pendingMem : BOOLEAN,
                         pendingBranch : {0, 1}]]
  /\ ReaderTypeOK
  /\ visiting \in 0 .. ProcessorCount
  /\ progress \in BOOLEAN

ProcessorInit ==
  /\ core = [p \in Procs |->
               [memOpTag |-> 0, pendingMem |-> FALSE, pendingBranch |-> 0]]
  /\ ReaderInit
  /\ visiting = 0
  /\ progress = FALSE

makeTag(p, baseTag) == p + 256 * baseTag
BaseTag(tag) == tag \div 256

\* memOpCallback: only the operation that is pending completes.
memOpCallback(cores, p, tag) ==
  IF BaseTag(tag) = cores[p].memOpTag
    THEN [cores EXCEPT ![p].memOpTag = @ + 1, ![p].pendingMem = FALSE]
    ELSE cores

Advance == visiting' = visiting + 1

\* Mutant of MemoryPending: a core that waits for memory makes no progress.
MemoryPending_NoProgress(p) ==
  /\ core[p].pendingMem
  /\ UNCHANGED <<coreVars, progress>>

\* The core waits for its memory operation.
MemoryPending(p) ==
  /\ core[p].pendingMem
  /\ progress' = TRUE
  /\ UNCHANGED coreVars

\* Mutant of BranchPending: the wait is not seen to be over.
BranchPending_Unguarded(p) ==
  /\ ~core[p].pendingMem
  /\ core' = [core EXCEPT ![p].pendingBranch = @ - 1]
  /\ progress' = TRUE
  /\ UNCHANGED readerVars

\* The core waits out a mispredicted branch.
BranchPending(p) ==
  /\ ~core[p].pendingMem
  /\ core[p].pendingBranch > 0
  /\ core' = [core EXCEPT ![p].pendingBranch = @ - 1]
  /\ progress' = TRUE
  /\ UNCHANGED readerVars

\* Mutant of Ready: an operation is fetched while memory is awaited.
Ready_IgnoresMemory(p) == core[p].pendingBranch = 0

Ready(p) == ~core[p].pendingMem /\ core[p].pendingBranch = 0

\* getNextOp has no operation for this core.
TraceOver(p) ==
  /\ Ready(p)
  /\ getNextOp(p, NULL)
  /\ UNCHANGED <<core, progress>>

Fetches(p, op) ==
  /\ Ready(p)
  /\ getNextOp(p, op)
  /\ progress' = TRUE

\* MEM_LOAD and MEM_STORE; memoryRequest is called with the tag.
FetchesMemOp(p) ==
  /\ Fetches(p, "memory")
  /\ core' = [core EXCEPT ![p].pendingMem = TRUE]

FetchesBranch(p, mispredicted) ==
  /\ Fetches(p, "branch")
  /\ core' = [core EXCEPT ![p].pendingBranch = IF mispredicted THEN 1 ELSE 0]

\* ALU and ALU_LONG.
FetchesAlu(p) ==
  /\ Fetches(p, "alu")
  /\ UNCHANGED core
=============================================================================
