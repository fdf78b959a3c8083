----------------------------- MODULE TraceReader -----------------------------
(***************************************************************************)
(* trace.c and the task graphs of trace/taskLib: what getNextOp returns to *)
(* the processor.  init opens one of                                       *)
(*   "file"       a file of text, or stdin: the trace of processor 0       *)
(*   "directory"  of files p<i>.trace, opened when processor i first asks  *)
(*   "taskgraph"  a binary file with a context of tasks for each processor *)
(* A text is a number of items, each of them an operation or, unless it is *)
(* clean, white space or a letter that is no operation.  A context is a    *)
(* number of tasks, each of a type that counts (basic blocks) or not, and  *)
(* with actions.  What an item or a task is, is chosen when it is read.    *)
(* The assertion that a context exists for every processor is taken to     *)
(* hold: -n says no more processors than the graph has contexts.           *)
(***************************************************************************)
EXTENDS BusTypes, SequencesExt

CONSTANTS TraceLength,  \* bound: items of a text, tasks of a context
          TaskLength    \* bound: actions of a task

ASSUME TraceLengthAssumption == TraceLength \in Nat
ASSUME TaskLengthAssumption == TaskLength \in Nat
\* No operation is the null pointer.
ASSUME NoOpAssumption == NULL \notin {"memory", "branch", "alu"}

VARIABLES input,  \* what init found; it never changes
          trace   \* what is left of it for each processor

readerVars == <<input, trace>>

Formats == {"file", "directory", "taskgraph"}

\* An action is a memory operation or another: a basic block, an allocation.
Actions == {"memOp", "other"}

Reader ==
  [open : BOOLEAN,                           \* traceFile[p] # NULL
   left : 0 .. TraceLength,
   t : BOOLEAN,                              \* t # NULL
   actions : BoundedSeq(Actions, TaskLength),  \* from mit to met
   isComplete : BOOLEAN]

ReaderTypeOK ==
  /\ input \in [format : Formats, found : SUBSET Procs, clean : BOOLEAN]
  /\ trace \in [Procs -> Reader]

\* init.  Only in a directory is there a file to be found later.
ReaderInit ==
  /\ input \in [format : Formats, found : SUBSET Procs, clean : BOOLEAN]
  /\ input.format # "directory" => input.found = {}
  /\ input.format = "taskgraph" => input.clean
  /\ \E lengths \in [Procs -> 0 .. TraceLength] :
       trace = [p \in Procs |->
                  [open |-> input.format = "file" /\ p = 0,
                   left |-> lengths[p],
                   t |-> FALSE, actions |-> <<>>, isComplete |-> FALSE]]
  /\ \A p \in Procs :
       \/ input.format = "taskgraph" \/ trace[p].open \/ p \in input.found
       \/ trace[p].left = 0

-----------------------------------------------------------------------------
\* openat fails for a processor without a file, each time it asks.
NoFile(p) ==
  /\ ~trace[p].open /\ p \notin input.found
  /\ UNCHANGED trace

\* At the end of the file opType stays 0.
EndOfFile(p) ==
  /\ trace[p].open \/ p \in input.found
  /\ trace[p].left = 0
  /\ trace' = [trace EXCEPT ![p].open = TRUE]

\* fscanf has read an item, which is gone even if it is no operation.
ReadsItem(p) ==
  /\ trace[p].open \/ p \in input.found
  /\ trace[p].left > 0
  /\ trace' = [trace EXCEPT ![p].open = TRUE, ![p].left = @ - 1]

textNextOp(p, op) ==
  \/ op = NULL /\ (NoFile(p) \/ EndOfFile(p))
  \/ (op # NULL \/ ~input.clean) /\ ReadsItem(p)

-----------------------------------------------------------------------------
\* The actions that a task with any may have.
TaskActions == BoundedSeq(Actions, TaskLength) \ {<<>>}

\* The index has the task of the next identifier no longer: whatever is left
\* of the context when that is noticed stays unread.
ContextEnds(c) ==
  [c EXCEPT !.t = FALSE, !.actions = <<>>, !.isComplete = TRUE]

\* Tasks that are no basic blocks, or have no action.
Passes(c, n) == [c EXCEPT !.left = @ - n]

TaskStarts(c, actions) ==
  [c EXCEPT !.left = @ - 1, !.t = TRUE, !.actions = actions]

\* updateContext goes on to the next task of basic blocks with an action, if
\* there is one, past `skipped` tasks.  A task that the index does not have is
\* the end of the context.
updateContext(c) ==
  {ContextEnds(Passes(c, c.left))}
  \cup {TaskStarts(Passes(c, skipped), actions) :
          skipped \in 0 .. (c.left - 1), actions \in TaskActions}

\* The iterator's ++ goes on to the next memory operation.  The first action
\* of a task is not looked at: begin() is where the actions begin.
NextMemOp(actions) ==
  LET next == SelectInSeq(Tail(actions), LAMBDA a : a = "memOp")
  IN IF next = 0 THEN <<>> ELSE SubSeq(Tail(actions), next, Len(actions) - 1)

\* getNextOp of TaskGraphAPI.cpp.  Every action is returned as a load or a
\* store.
graphNextOp(p, op) ==
  \/ /\ op = NULL
     /\ trace[p].isComplete
     /\ UNCHANGED trace
  \/ /\ ~trace[p].isComplete
     /\ \E c \in IF ~trace[p].t \/ trace[p].actions = <<>>
                   THEN updateContext(trace[p]) ELSE {trace[p]} :
          /\ op = IF c.isComplete THEN NULL ELSE "memory"
          /\ trace' = [trace EXCEPT ![p] =
                         IF c.isComplete THEN c
                         ELSE [c EXCEPT !.actions = NextMemOp(c.actions)]]

\* getNextOp of trace.c: op is "memory", "branch", "alu" or NULL.
getNextOp(p, op) ==
  /\ IF input.format = "taskgraph" THEN graphNextOp(p, op) ELSE textNextOp(p, op)
  /\ UNCHANGED input

\* All there is to read for a processor has been read.
ReadToTheEnd(p) ==
  /\ trace[p].left = 0 /\ trace[p].actions = <<>>
  /\ trace[p].isComplete = (input.format = "taskgraph")
=============================================================================
