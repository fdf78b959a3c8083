# A formal model of the CADSS cache simulator

CADSS is a discrete-time simulator of a multiprocessor's memory hierarchy, put
together at run time from shared objects: an engine, a trace reader, a
processor, a branch predictor, a cache (one of three), coherence, a snooping
bus and a memory. This directory models it in TLA+, checks it with TLC and
proves its central properties with TLAPS.

## 1. The system

### Components

| component | state | operations | what makes it correct |
|---|---|---|---|
| engine (`engine/engine.c`) | the components | load and initialise components, `do { proc.tick() } while (progress)` | no tick without every component; ticks until all processors are done |
| debugger (`engine/debug.c`, `engine.c`) | flags, a step count, a watch-list; two flags in each component | the prompt and its commands, the look at the components before and after a tick | prompts exactly when commands and options say; a continued execution ends exactly with a report of a watched component |
| settings parser (`engine/config.c`) | the text, a position, a list of components with their arguments | `openSettings`, `getSettings` | comments are skipped, arguments go to the component they follow, a list grows before an argument has no room, parsing ends |
| trace reader (`trace/trace.c`) | a file per processor, opened when first asked for, or a task graph | `getNextOp(p)` | the operations of a processor in the order of its trace, until the trace ends |
| task graph reader (`trace/taskLib`) | per context: a task, an iterator over its actions, whether it is complete | `getNextOp(p)` | passes every task, stops at the end of the context |
| processor (`processor/processor.c`) | `pendingMem`, `pendingBranch`, `memOpTag` per processor | `tick`, `memOpCallback(tag)` | one memory operation at a time per processor; every operation completes once |
| branch (`branch/branch.c`) | none | `branchRequest` | (always predicts right) |
| sample cache (`cache/cache.c`) | one pending request, `countDown` | `memoryRequest`, `tick`, `coherCallback` | a starting point for students |
| simpleCache (`simpleCache/cache.c`) | lists of pending and ready requests | the same | never evicts; every request completes |
| teamCache (`teamCache/`) | sets of lines, request queue, blocks of the current request, its completion count, a one-entry write buffer | `memoryRequest`, `tick`, `coherCallback` | lines valid only with coherence's permission; requests complete in order, once; replacement picks the right line |
| state tree (`coherence/stree.c`) | a splay tree of keys and records | insert, find, find nearest, remove | a map, whatever the order of calls |
| coherence (`coherence/coherence.c`, `protocol.c`) | a state per processor and block (a splay tree, `stree.c`) | `permReq`, `invlReq` from the caches, `busReq` from the bus, `tick` | one holder per block; every cache is told of what it gains and loses |
| interconnect (`interconnect/interconnect.c`) | `pendingRequest`, a queue per processor, `countDown`, `lastProc` | `busReq`, `busReqCacheTransfer`, `memReqCallback`, `tick` | one transaction at a time, none lost, an answer goes to the request it is for |
| memory (`memory/memory.c`) | one request, `countDown` | `busReq`, `tick` | answers after its delay, unless a cache answers first |

The code is one thread. What is hard in it is not parallelism but re-entry and
time: the engine's tick runs down through processor, cache, coherence and bus
to memory, callbacks run up again inside it, and a callback may call down once
more while the bus is still busy with the transaction it reports.

```
 engine --tick--> processor --tick--> cache --tick--> coherence --tick--> interconnect --tick--> memory
                     ^ memOpCallback   ^ coherCallback   ^ coherence.busReq  ^ memReqCallback
 processor --memoryRequest--> cache --permReq, invlReq--> coherence --busReq--> interconnect --busReq--> memory
```

A transaction on the bus waits `CACHE_DELAY` ticks, then memory is asked and
the other processors snoop it; if one of them owns the block it answers with
DATA in place of memory (a cache-to-cache transfer), and memory, which has
begun to count, must notice that and squelch its request. The bus and memory
count separately. DATA also is what a cache puts on the bus to write a block
back, and only the state of the bus tells the two uses apart. These are the
behaviours that `MemorySystem` is about. Above it, a cache spreads one request
over many ticks and callbacks, and what it learnt in one of them may no longer
be so in the next: that is what `TeamCache` is about.

### Hazards

`PROJECT.json` lists what is hard to test in this code, each at its line, with
the properties that would catch it. The main ones: a grant while another cache
still holds the block; write-back DATA taken for an answer or the reverse; a
late memory answer taken for a later request; the two countdowns out of step; a
write-back or request that gets lost in a merge; starvation at the bus; in
teamCache, lookups that are stale when a request resumes after the write
buffer, and the two orders in which the buffered store is acknowledged and
filled; a pointer that a rotation of the state tree loses; settings whose
comments or slashes are read in an unexpected way; components that failed to
load and are used all the same; and a debugger whose step count, watch-list and
start tick meet in one tick.

## 2. Modules

| module | models | state |
|---|---|---|
| `BusTypes` | processors (`0 .. processorCount - 1`), block addresses, bus request types | |
| `Memory` | `memory/memory.c` | `memRequest` (`pendingRequest`), `memCountDown` |
| `Interconnect` | data and operations of `interconnect/interconnect.c` | `pendingRequest`, `queuedRequests`, `busCountDown`, `lastProc` |
| `Coherence` | `coherence/protocol.c` (MI) and the state map of `coherence.c` | `coherStates` |
| `MemorySystem` | the three together, as one `coherence.tick` runs them, and `permReq`, `invlReq` | `phase` |
| `CoherencePort` | abstract specification: what the memory system promises the caches | `waiting`, `flushing`, `held` |
| `BusSystem` | `MemorySystem` with the caches as its clients; properties; fairness; `CoherencePort` as refinement | the client's view and `tracing` |
| `BusInvariants` | the inductive invariants | |
| `BusSystemProofs`, `BusAccountProofs` | theorems and proofs: types, lockstep and grants; accounts and the refinement of `CoherencePort` | |
| `MCBusSystem` | instances for TLC | |
| `Replacement` | `teamCache/replacement.c`: LRU and RRIP | operators only |
| `Split` | `teamCache/split.c`: the bytes of a request, block by block | operators only |
| `TeamCache` | the entry points of `teamCache` (`access.c`, `split.c`, `lookup.c`, `eviction.c`, `request_queue.c`, `write_buffer.c`) | operators on a `cache_state` |
| `TeamCacheSystem` | a processor, teamCache and `MemorySystem` | `cache`, `event`, `turn`, `issued`, `memOpTag` |
| `SplitProofs`, `TeamCacheProofs` | theorems and proofs | |
| `MCTeamCache` | instances for TLC | |
| `TraceReader` | `trace/trace.c` and what `trace/taskLib` does for `getNextOp` | `input`, `trace` |
| `Processor` | `processor/processor.c` | `core`, `visiting`, `progress` |
| `SimpleCache` | `simpleCache/cache.c` | `pendReq`, `readyReq`, `aborted` |
| `SimpleCacheSystem` | any number of cores with their traces, simpleCache and `MemorySystem`, to the end of main's loop | `turn` |
| `SimpleCacheProofs` | theorems and proofs | |
| `MCSimpleCache` | an instance for TLC | |
| `KeyedMap` | abstract specification: what `stree.h` promises | `map`, `result` |
| `SplayTree` | `coherence/stree.c`, and `KeyedMap` as refinement | `tree`, `nodes`, `record`, `node_count`, `op`, `x`, `result` |
| `SplayTreeProofs` | theorems and proofs | |
| `MCSplayTree` | an instance for TLC | |
| `Settings` | `engine/config.c` | `configContents`, `pos`, `inComment`, `inMultiComment`, `ended`, `componentList`, `argSize` |
| `SettingsProofs` | theorems and proofs | |
| `MCSettings` | the texts for TLC | |
| `Startup` | the first half of `main` in `engine/engine.c` | `named`, `loaded`, `ready`, `at`, `outcome` |
| `DebugRepl` | `engine/debug.c` and the debug functions of `engine.c` | the flags, `stepTicks`, `wlist`, `prompting`, and `watched`, `notifyState` of the components |
| `Debugger` | abstract specification: what the help texts promise of the debugger | `mode`, `left`, `watch`, `armed`, `ticks`, `changed` |
| `Engine` | `main`: `Startup`, then the loop with `DebugRepl`; `Debugger` as refinement | `turn`, `dbgTickCount`, `changed` (history) |
| `EngineProofs` | theorems and proofs | |
| `MCEngine` | an instance for TLC | |

The memory system is composed three times: with every cache there could be
(`BusSystem`), with teamCache and with simpleCache. The last two are shown to
be instances of the first (`KeepsToInterface`, proved), so that what is proved
of `BusSystem` holds in them, and is what their own proofs begin with.

### How actions correspond to code

A call that runs to its end without calling into code outside the memory system
is one action: `Access` is a cache's `permReq` with all that coherence and the
bus do for it, `Evict` is `invlReq` in the same way. A tick of coherence is two
or three actions, because caches observe its middle:

1. `MemoryTick`: `memory.tick`, with the bus consulted for a cache transfer and
   told of the answer (`memReqCallback`).
2. One of `BusCounts`, `BusIssues`, `BusDelivers` or `BusArbitrates`: the rest
   of `interconnect.tick`, up to the requester's callback.
3. After `BusDelivers`, the requester's cache runs (`phase = "callback"`) and
   may call `permReq` or `invlReq` with `pendingRequest` still set, as
   teamCache does; `BusReleases` then clears the bus.

Snoop callbacks to other caches happen inside `BusIssues`. No cache in the
repository calls back from one of them: simpleCache returns, and what a snoop
tells teamCache for a block that it is not evicting (`NO_ACTION`) it ignores.

`Running(p)` says when a cache may call: between ticks, any cache; during a
callback, the cache that is told.

The states SHARED and EXCLUSIVE, `sendBusRd` and `indicateShared` have no
callers under MI, the only protocol with code, and are left out. So are
allocation failures and debug output. A block's data is not modelled because
the simulator has none.

### The client

A cache is what the interface lets it know: the blocks it waits for, writes
back and holds. `Access` and `Evict` are enabled in every state that any of the
three caches could call in, under two obligations which the bus relies on and
which the code of the caches meets: a cache does not ask for a block whose
write-back is still in flight, and does not give up a block it is waiting for.
(A cache that broke the first would take the end of its write-back for a
grant.) `KeepsToInterface` discharges both, for teamCache and for simpleCache,
which never gives a block up. When teamCache has ended the program, nothing uses
the cache any more and the client is left as coherence has it. The model of a cache does not read coherence's state, except for the
value its call returns.

### teamCache

The code changes `cache_state` in place, with functions that call one another.
Each is an operator from a state to a state, under its own name, and each of
the three entry points (`cache_access_request`, `cache_access_event`,
`cache_access_tick`) is applied by one action of `TeamCacheSystem`. Within an
entry, `call` is the call that it makes to coherence, `notified` the request
whose callback it calls, and `exited` says that it called `fail()`, which ends
the program. That `NULL` stands for nothing is `TeamNullAssumption`: it is no number,
request, call or event. A tick of the engine takes the turns "cache", "coherence" and
"processor"; `event` is a callback of coherence that has yet to run.

`Window` 1 is `processor.c`, which waits for each request. With 2 the request
queue is used, as by a pipelined processor. A request is an address of a byte
and a size. `Split` makes the pieces, one for each block, with the code's
arithmetic, which must not go past `AddressMax` (`UINT64_MAX`); the cache and
everything below deal in block numbers. Its loop is the recursive function `Rest`.
The accesses of an instance are given by `Accesses`, addresses with sizes in `Nat`
that the code does not refuse.
The cache is modelled for one processor. Lines have no owner, so with two
each would take a hit on the other's block, with or without permission.

### simpleCache

Turns again: "coherence" for the tick of coherence and the callbacks in it,
"ready" for the requests completed in this tick, "cores" for the loop over the
processors, which `visiting` counts, and "ended" after main's loop. Both lists
are pushed at the head and are sequences. A false `assert` sets `aborted`, after
which nothing happens. A branch may be predicted wrong (`Mispredicts`),
although `branch.c` never is, because `processor.c` has code for that and
`branchCPP` does it.

### Traces

`input` is what `init` found: a text for processor 0, a directory in which some
processors have a file, or a task graph. `trace` is what each processor's
reader still has before it. What an item of a text or a task of a graph is, is
chosen when it is read; the operands are not modelled, for nothing reads them
but the cache, whose address the system chooses. Two things that look alike to
the processor are kept apart: NULL because the trace has ended, which every
later call repeats, and NULL because an item was no operation, behind which the
next call goes on. The iterator of a task begins at the first action, whatever
it is, because the code that would skip to the first memory operation is
commented out (`Task.cpp:207`, against `Task.hpp:118`).

### The state tree

Nodes are named by their keys. A call is one action up to `splay`, one for each
turn of splay's loop, and one for the rest, so that the properties are seen
between the rotations. The pointers are functions, and following NULL is an
application outside of the domain, which TLC reports: no run meets one.

### Settings, startup and debugger

`Settings` is the loop of `parseSettings`, one turn an action, over classes of
characters, each element of a text being one character; a name begins with two
underscores. `room` of a list is what was last allocated for it, and `null` the
slot into which the NULL behind its last entry was written. What `config.h` says of a text is stated apart
from the loop: the text is a sequence of items (`Items`), and each item does
something to the list of components (`Take`).

`Startup` goes through the steps of `main` in order. A component's load or init
may fail wherever the code can, and what the failure leads to is what `main`
does next: an early return for a component that an option named, `assert(0)` for
the processor, or a NULL that a later step calls through or hands on.

`Engine` adds the loop. `turn` says where it is between `debugRepl`, the look at
the components and the tick, and `prompting` that the user is asked, once for
each command. In a tick any of `Reporters` may change its state, and clears its
flag then if it is watched, as `interconnNotifyState` does; the tick may be the
last. `changed` remembers who did. No code has it: it is what `Debugger` speaks of
when it says that a continued execution ends with the first tick in which a watched
component changes state. The engine has to find that out through two flags in each
component and one of its own, copied before the tick and combined after it.

## 3. What is checked

Bounds of the memory system's runs. Two or three processors, two blocks, delays 3, 2 and 2 for the code's
90, 10 and 10. Three processors are the least at which a requester, an owner
and a bystander (or two queued processors and an owner) exist. Two blocks are
the least at which a transaction for one block is on the bus while another is
queued, evicted or granted. The delays keep what matters about the code's: a
transaction spends several ticks in each state, memory is slower than a
transfer, and memory's countdown is still running when a transfer begins.
`MaxOutstanding` bounds the calls a cache has unanswered, and with it the
queues. Without it queues are unbounded in the model (in the code, traces
bound them).

teamCache: three blocks of four bytes, which are all the addresses there are,
and one set of two lines, so that a third block evicts a line that may be asked
for again at once. Four requests let a store be buffered while its eviction is
on its way, a second request hit the victim and a third one wait for the
buffer. Two are outstanding, so that a split request is followed by another
one. The five accesses are each block alone and each pair of neighbours; one
ends at the last address. One configuration is LRU without the buffer, the
other RRIP with it; `stale_miss` and `lost_store` are LRU with the buffer.
`access_sequence` ends at `SequenceMax`: 6 in `team_cache`, so that LRU runs out of
access numbers, which the code answers with `fail()`, and does so after requests of
every kind have completed; in the other two runs it is out of reach.

simpleCache: three cores and two blocks; up to two items in each text, or two
tasks of up to two actions, so that a core can lose a block to a second one and
ask for it again while a third one is queued, a task can be skipped, and an
item that is no operation can come first or last. Three items a text
(3.9 million states) show nothing new and take three minutes.

State tree: five keys are the least with which a removed node has a successor
that is not its child and has a subtree, below a root that is splayed. Two
records tell an update from what was there.

Settings: texts of three parts, alone or before a component's name, or of four
behind a name, over all classes and all pairs that open or close a comment; and
six words, so that with lists that grow by two a list grows twice and a new
component follows.

Engine: every set of named components and every failure; two components to
watch, one of which reports; steps up to three, a start tick up to two, six
ticks: an interrupted step count, a start tick in the middle of stepping, and
a continued execution that is reported, all fit.

| run | instance | shows |
|---|---|---|
| `shared` | 3 processors, all evict, 1 call outstanding | types; the assertions of memory and bus; one holder per block; caches and coherence agree; each wait has exactly one transaction; countdowns in step; no transaction leaves the bus unanswered, or takes memory's answer to an earlier one for its own; the two inductive invariants of the proofs; the whole system implements `CoherencePort` |
| `served` | 2 processors, one evicts, 2 calls outstanding, fair | no write-back is lost; every request is granted and every write-back completes |
| `round_robin` | 2 processors, none evicts | violated: a new request overtakes queued ones |
| `flush_lost` | 2 processors, both evict | violated: a write-back merged into another's is never completed |
| `team_cache` | LRU without, RRIP with write buffer, fair | without the buffer the cache does not fail while access numbers are left, and writes nothing into a line whose write-back has been sent; in both, up to an exit: requests are split exactly, complete once and in order; lines are valid with permission only; stamps are sound; the buffered store is acknowledged before its data comes; the interface is kept; every request completes unless the program exits |
| `stale_miss` | write buffer, LRU, one outstanding | violated: the cache fails |
| `lost_store` | the same | violated: a store is lost in a line being evicted |
| `simple_cache` | 3 cores, 3 kinds of traces, mispredictions, fair | no assertion of simpleCache fails; each waiting core has its one request, with the tag that completes it; the interface is kept; every simulation ends, with nothing under way and the traces read |
| `splay_tree` | 5 keys, fair | the tree is a search tree of its nodes, also within a splay; each turn of splay climbs, and drops no other node by more than two; every call ends; the tree is a map |
| `settings` | texts as above, fair | texts without the named oddities are read as `config.h` says; the name and the arguments of a list fit its allocation, and the NULL behind them, which the code does not make room for, is at most one slot past it; the parser ends or stays at a lone slash |
| `settings_comment` | one closed comment behind a name | violated: what is in a comment is read as arguments |
| `engine` | as above | no tick without every component, and a component that was named is never missing in a crash; the user is prompted exactly when commands and options say, and a continued execution ends exactly when a watched component reports |

Deadlock is checked where the system cannot stop: the bus can always tick. It is
not in the runs in which it can: with the write buffer `fail()` may end the
program, `simple_cache` and `engine` end when main does, and `settings` when the
text does.

### Fairness

`FairSpec` asserts weak fairness of `Tick` and of `TracesEnd`. The first is the
engine's loop, which ticks for as long as a processor made progress, and a
processor with an unanswered request does. The second is the finiteness of
traces. It is needed: a processor whose requests keep finding the bus free
overtakes a queued one without end (finding 1), so only when the traces run
out is the queue sure to be served. No fairness is asserted of `Access` or
`Evict`.

`Ticking` (teamCache) and `Looping` (simpleCache) are the engine's loop once
more: nothing in one thread interrupts it, so each turn comes again. They are
weak fairness of the next step, stated by the turns that recur. In
`simple_cache` the loop ends by the code's own rule, when no core made progress,
and that it does is the property. `SplayTree` and `Settings` assert weak fairness
of the loop of a call that has begun: nothing interrupts it. Nothing is fair in
`Engine`, where the user may never answer; its properties are about steps.

### Findings

1. **Arbitration is not round robin** (`round_robin`). `busReq` gives a free bus
   to whoever asks (`interconnect.c:173`), whatever is queued. `lastProc` and the
   scan, "for round robin arbitration" (`interconnect.c:151`), decide only among
   the queued. A processor whose next miss is issued in the callback or in the
   tick that frees the bus goes first each time. With simpleCache and two traces, one
   processor's only load is served after all 40 misses of the other.
2. **A write-back may never complete** (`flush_lost`). DATA for the block of a
   transaction in WAITING_MEMORY is taken as the answer to it
   (`interconnect.c:194`), also when that transaction is itself the write-back
   of the block by a previous holder, whose transfer then is the only one. The
   second evictor was told to wait (`cache/cache.c:115`) and waits for ever. It
   needs two processors that evict; teamCache, the only cache here that does,
   works with one.
3. **A resumed miss does not look again** (`stale_miss`). A request that misses
   while the write buffer is occupied waits, and is resumed without a second
   lookup (`access.c:208`). If the buffered store was to its block, coherence
   grants the block at once and teamCache ends the program, saying "lookup miss
   but coherence already grants permission" (`access.c:37`). With `-w 1` the
   trace `S 100,4`, `L 100,4` does it.
4. **A store into a line being evicted is lost** (`lost_store`). While the
   buffered store's eviction is on its way the victim stays valid
   (`eviction.c:12`), the next store hits it and sets `dirty`, and the line is
   dropped when the write-back sent earlier completes (`access.c:92`). The
   simulator has no data, so what is wrong is its counts: a hit that should be a
   miss, and a Dirty Evict that is missing. `-E 2 -s 0 -w 1` with
   `L 10, L 20, S 30, S 10, L 40, L 10` shows it.
5. **Comments of the settings file end early** (`settings_comment`). The end of a
   block comment is tested with two `!=` joined by `&&` (`config.c:77`), so the
   scan stops at any star and before any slash, drops two characters and reads
   the rest as arguments, where `config.h:10` promises to skip the comment.

Other differences met while modelling, which no run states because the code has
them in every case and no document speaks of them, or because they concern code
that is left out:

- `config.c:109`: a token that begins with a slash that opens no comment is
  looked at again and again; the parser never ends. `EndsUnlessSlash` says that
  it is the only way not to end.
- `config.c:222`: an argument list grows only when the next argument has no slot
  (`config.c:215`), and the NULL behind the last one is written all the same. With a
  name and 15 arguments, which fill the 16 slots, it goes one slot past the
  allocation. The model writes it there, too: the room of a list is checked for its
  entries, not for the NULL, of which `EntriesFit` says only that it follows the last
  entry, and so is never further off than one slot. That it is within the list
  (`null <= room`) is false, as any list that is full shows.
- A quoted argument without text and a name at the very end of the file are
  dropped; text before the first name ends the parsing. `Documented` and the
  oddities of `ReadsPlain` say so.
- `config.c:163`: before the first name a comment is skipped only where a turn
  begins. Behind white space it is taken for text that belongs to no component
  and the parsing ends, so a file that begins with two lines of `//` comments, as
  `config.h:10` allows, is ignored as a whole. `OddStart` names it; without it
  `PlainIsRead` (below) is false.
- `engine.c:121`: after `-d <tick>`, the command `e` leaves the debugger for one
  tick only (`armed` in `Debugger`).
- `engine.c:148`: at the end of its input the prompt repeats for ever.
- `Task.cpp:209`: the first action of a task is returned as a memory operation,
  whatever it is.
- `simpleCache/stree.c`: the copy of the state tree refuses to insert an existing
  key, against the comment in `stree.h:37`; nothing calls it.

## 4. What is proved

The theorems hold for every value of the constants that the named assumptions
allow; the modules that declare the constants state them.

| theorem | statement |
|---|---|
| **`BusSystem`**: any number of processors, any blocks, all positive delays, any evictors, any bound on outstanding calls | |
| `BusSystemProofs!TypeCorrect` | `Spec => []TypeOK` |
| `StaysInStep` | `Spec => [](TypeOK /\ Lockstep)` |
| `CountdownsStayInStep` | `Spec => []CountdownsInStep` |
| `AssertionsAlwaysHold` | `Spec => []AssertionsHold` |
| `GrantsAreSound` | `Spec => []GrantInv` |
| `OneHolder` | `Spec => []SingleHolder` |
| `CachesAlwaysAgree` | `Spec => []CachesAgree` |
| `RequestsAccounted` | `Spec => []RequestAccounted` |
| `FlushesAccounted` | `Spec => []FlushAccounted`, if at most one processor evicts |
| `BusReleasesAnswered` | `Spec => ReleasedAnswered` |
| `ImplementsPort` | `Spec => PortSpec` |
| **`SimpleCacheSystem`**: any number of cores up to 256, any traces, blocks and delays | |
| `SimpleCacheProofs!TypeCorrect` | `Spec => []TypeOK` |
| `AssertsHold` | `Spec => []NeverAborts` |
| `EachWaitsForOne` | `Spec => []OneRequestPerCore` |
| `QuietAtTheEnd` | `Spec => []EndsQuiet` |
| `UsesTheBusAsAllowed` | `Spec => KeepsToInterface` |
| `OneHolder` | `Spec => []BusProofs!SingleHolder` |
| `RequestsAccounted` | `Spec => []BusProofs!RequestAccounted` |
| `ImplementsPort` | `Spec => BusProofs!PortSpec` |
| **`Split`**: any block size, any end of the addresses | |
| `SplitsAll` | `~Refused(address, size) => SplitsExactly(address, size)` |
| **`TeamCacheSystem`**: any sets, lines, block size, RRIP bits, access numbers, window and requests; either policy, with or without the buffer | |
| `TeamCacheProofs!TypeCorrect` | `Spec => []TypeOK` |
| `UnbufferedNeverFails` | `Spec => []NeverFailsUnbuffered` |
| `CompletesInOrder` | `Spec => []InOrderOnce` |
| `LinesArePermitted` | `Spec => []Inclusive` |
| `CacheAssertionsHold` | `Spec => []CacheAssertions` |
| `HeardBeforeData` | `Spec => []ToldBeforeData` |
| `StampsStaySound` | `Spec => []StampsSound` |
| `SplitsRequests` | `Spec => []SplitExact` |
| `UnbufferedLinesStay` | `Spec => UnbufferedStays` |
| `UsesTheBusAsAllowed` | `Spec => KeepsToInterface` |
| `RequestsAccounted` | `Spec => []BusProofs!RequestAccounted` |
| `FlushesAccounted` | `Spec => []BusProofs!FlushAccounted` |
| `ImplementsPort` | `Spec => BusProofs!PortSpec` |
| **`SplayTree`**: any set of integer keys, any records | |
| `SplayTreeProofs!StaysSearchTree` | `Spec => []SearchTree` |
| `SplayAlwaysClimbs` | `Spec => SplayClimbs` |
| `ImplementsMap` | `Spec => IsMap` |
| **`Engine`**: any components to watch, any bounds of steps and ticks | |
| `EngineProofs!TypeCorrect` | `Spec => []TypeOK` |
| `StartsComplete` | `Spec => []RunsComplete` |
| `KeepsItsPromise` | `Spec => IsDebugger` |
| **`Settings`**: any texts, any chunk of at least two slots | |
| `SettingsProofs!TypeCorrect` | `Spec => []TypeOK` |
| `EntriesHaveRoom` | `Spec => []EntriesFit` |
| `PlainIsRead` | `Spec => []ReadsPlain` |

Each module also has the theorem that its inductive invariant holds
(`StaysInStep`, `GrantsAreSound`, `StaysSimple`, `StaysInvariant`, `Invariant`,
`ReadsInvariant`).

### The memory system

*Lockstep.* That memory answers the right request at the right tick depends on
nothing but the bus's own state. `Lockstep` says, for each place in the tick
(`phase`) and each state of the transaction, what memory is doing: idle
(WAITING_CACHE), counting the same request with the same count, or one ahead
within a tick (WAITING_MEMORY), or about to squelch (TRANSFERING_CACHE). With
`TypeOK` it is inductive, and `CountdownsInStep` and `AssertionsHold` are read
off it. So is the part of `ReleasedAnswered` about memory's answers, which
`memReqCallback` matches by processor and block only: memory accepts a request from
the transaction that goes on from WAITING_CACHE, when it is idle (`MemoryIsAsked`),
and answers only a transaction in WAITING_MEMORY, which is the one that asked, because
memory is working in that state for no other (`AnswersAreOwn`).

*Grants.* `SingleHolder` is not inductive: a grant must find the block free,
which was arranged a whole transaction earlier by the snoop. `GrantInv` carries
this over: after the snoop and until the grant nobody has the block MODIFIED
(`SnoopedClear`); this survives everything that may happen meanwhile because
only a delivered transaction makes a cache MODIFIED, one transaction is on the
bus at a time, and a delivery grants only to a cache that waits. That a
delivered DATA is a grant exactly when its processor waits needs the account of
what is on the bus and in the queues (`PendingSound`, `QueuesSound`) and that a
cache that writes back is INVALID (`FlushingInvalid`).

*Refinement.* With `GrantInv` each step of `BusSystem` is one of
`CoherencePort`'s or changes nothing that the caches see. Two steps need the
invariant. The snoop (`BusIssues`) takes the block from at most one cache, for
one that waits: it invalidates whoever is MODIFIED, which is a holder
(`CachesAgree`), and there is one (`SingleHolder`). The delivery (`BusDelivers`)
is a grant or the end of a write-back by what the requester's state says, and a
grant finds no holder (`SnoopedClear`).

*Accounts.* `GrantInv` says that what is on the bus or queued belongs to someone
who waits, and that there is one such transaction per processor and block. The
accounts need the converse: whoever waits has something on the bus or queued
(`WaitersPlaced`). A step keeps every transaction in its place (`PlacesKept`)
except the one it delivers. The same for write-backs (`FlushersPlaced`) is
inductive only if a write-back is never merged into another's, and a merge finds
the owner of the pending transaction waiting for the block, not writing it back,
when there is one evictor. With two the theorem is false, and finding 2 is the
counterexample.

### The caches on the bus

`SimpleCacheProofs` and `TeamCacheProofs` instantiate `BusAccountProofs` with the
cache's own state for what the interface knows of it: the blocks in its lists or
requests are what waits, and so on. A step of the system is shown to be a step
of that `BusSystem` or none, given the invariant; so `NextLockstep` and `NextGrant`
give the bus's invariants again (`BusInv`), and `KeepsToInterface` comes with it.
Nothing about the bus is proved a second time: that there is one holder per block, that
every request has its transaction, and that the whole implements `CoherencePort` are
instances of the theorems about `BusSystem` (`OnTheBus`). teamCache, which works with
one processor, also has the account of the write-backs.

*simpleCache.* `SimpleInv` adds to `TypeOK` and `BusInv` that no assertion has
failed; `RequestInv`: the cores that wait are those with a request pending or ready,
each with one, and with the tag that its core expects, and there are as many of
them as requests; `ReaderInv`: what can be left of a trace; and `TurnInv`: in the
loop over the cores, as long as none made progress, those that were visited have
nothing under way and, with clean traces, nothing left. The assertion that a callback
finds its request follows from `GrantInv`: what is delivered was waited for, and
what waits is in the list. At the end of main's loop the
visited cores are all cores, and `EndsQuiet` is `TurnInv`.

*teamCache.* The three entries are operators that call one another, and so are the
lemmas: each says what its operator returns from a state in the invariant, from the
choice of a victim (`TargetFound`) up to the entries. What an entry leaves behind is
one predicate, `Leaves`: the cache asks coherence for nothing, for one block that no
line has, or for the end of one line; or the program has ended. The invariant is
`IInv == BusInv /\ SystemTypeOK /\ TeamCacheInv`. The parts of `TeamCacheInv` are

- `LinesSound`, `Stamped`: a block is in one line of its set; the stamps are ordered;
- `CountInv`: the completion entry counts exactly the blocks of the request in work,
  the buffered store that the processor has not heard of included;
- `BufferInv`, `PlaceInv`: who waits for what, and that a request that waits for
  coherence and a buffered store that does are never there at once;
- `EvictionsAimed`, `FetchesAimed`: a request's target is the line of its victim until
  the write-back is over, then an invalid line, and its block is in no line;
- `OrderInv`: the tags in the cache are those from `memOpTag` to `issued`, in order;
- `RequestsFit`, `ExitInv`, `EventInv`, `TurnInv`.

`PlaceInv` and `FetchesAimed` are stated until the exit only: finding 3 is a state in
which they fail, in the entry that ends the program. `NeverFailsUnbuffered` needs
`EvictionsAimed`'s last conjunct, that without the buffer the missing block is still
missing when the write-back is over, and has an exception that the code has too: with
LRU the access numbers may run out (`replacement.c:24`), which `ExitInv` keeps.
`ToldBeforeData` rests on `TurnInv`: in the tick in which a store is buffered, the
transaction on the bus has just begun. `Inclusive` is `CachesAgree` of the bus, through
the mapping of the cache's state. `UnbufferedStays` looks at each entry: without the
buffer, while a write-back is on its way its request is the active one, so nothing hits
a line and nothing is filled.

*The split.* `SplitsAll` is about a loop, whose state after `n` turns the model gives as
a recursive function, `Rest`. That there is such a function is proved
(`IterationExists`) from `LeastOf`: a set of natural numbers that is not empty has a
least element, which gives induction over a set of numbers (`Induction`) without an
operator for parameter. Then the loop's invariant says where each piece begins, that
only the first begins inside a block, and that only the last may end inside one; the
top of the address space is in it as the bound that the last byte has.

### Engine and settings

`EngineInv` adds to `TypeOK` what the steps of `Startup` behind the program counter have
achieved (`StartupInv`), that nothing ticks unless all is ready (`TickInv`), and what the
flags can be at each turn of the loop (`PromptInv`). `IsDebugger` is a refinement step by
step: the mode of `Debugger` is a function of the flags (`ModeFacts`), and `PromptInv`
excludes the combinations for which a step would change it differently. That a
continued execution ends with the reports of its last tick, and of no earlier one,
needs that `WatchComponents` sets the flag of every watched component again in each
turn of the loop, and that who is watched in a tick is the watch-list (`PromptInv`).

`SettingsInv` says that the parser's `argSize` is the room of the last list, that each
NULL follows the last entry, and that a turn begins inside the text or at its end. A turn is analysed by where its scans stop.

*What is read.* `ReadInv` compares the parser with the items of the text. There is a
number `k` such that the component list is what the first `k` items stand for, and the
items from `Cursor` on are the others (`ReadSoFar`); `Cursor` is the position, or that of
the comment that has been opened and not yet skipped (`CommentOpened`). Each turn takes
one item (`OneItem`) or none (`SameItems`). That the items of a text exist, and what
they are at each position, is an induction from the end of the text to its beginning
(`Downwards`, `ItemsFromIs`), and what the first items stand for is one upwards
(`Upwards`, `ReadingIs`): both are statements about sets of numbers and need no operator
for parameter. Without the exceptions in `Plain` the invariant is not kept, in
`SkipMultiComment`, `NameCutOff` and `NoComponent`: these are the three ways in which the
parser reads a text as something else.

### The state tree

`SearchTree` speaks of the subtree of a node. `Shape(t, N, S)` characterises it without
recursion: `S` gives each node of `N` a set that has the node itself and the sets of its
children, and these are apart. A tree has one such `S` (`SubtreesAre`), and it is what
`Subtrees` computes, so every operation can be treated by giving the `S` of the tree it
leaves. A rotation changes the sets of two nodes, and those only. For `SplayClimbs`,
`DepthIs` says that the depth of a node is the number of sets that it is in besides
its own: a turn of splay's loop is one rotation or two, so the node being splayed
comes one or two levels nearer to the root, and no other node goes down more than two.
A removal joins what is left with the successor, the lowest key of the right
subtree; a search goes down into the one set that may have the key, and ends for the
same reason as the recursion that defines it.

The inductive invariant `Inv` adds to the shape what a call may rely on between two
turns: that the node being splayed is in the tree, that `node_count` lags behind by
the node that is being inserted and by nothing else, and that a key has a record just
when it has a node. `IsMap` follows with `ShownIs`: the map that can be read off the
tree is the records of its nodes, so that an insertion or a removal is one step of
`KeyedMap`, in the action that stores or clears the record, and every turn of splay
is a stutter.

### Model-checked only

- Liveness (`RequestsServed`, `RequestsComplete`, `SimulationEnds`,
  `Completes`, `EndsUnlessSlash`) and what is said with ENABLED: out of the prover's reach.
- That the code violates the five statements of the findings: TLC's counterexamples.

## 5. Plan

Done: the memory system, its refinement of `CoherencePort`; teamCache with its split and
replacement; simpleCache with the processor and the traces; the state tree; the
settings; startup, main's loop and the debugger; and the proofs of all safety
properties and refinements that the runs check. Next:

1. The sample cache, if only to state which obligation of the interface it breaks.

## 6. Not modelled

- The reference components (`refCache` and others) are binaries without source.
- `trace/taskLib` beyond what `getNextOp` runs: the compressed file format, its
  index and the functions that build, order and write task graphs. It is I/O and
  data, and nothing in this repository calls the rest.
- The operands of text traces, and `branchCPP`, which shows how to link a C++
  predictor that answers every branch with 1.
- The sample cache (`cache/cache.c`), a skeleton for students: it ignores what
  `permReq` returns and completes on any callback.
- Coherence schemes other than MI, which are empty cases in `coherence.c`.
- The option strings of the components and the dimensions derived from them
  (`teamCache/lifecycle.c`), allocation failures, freeing, printing and statistics.
- `isProcTracedExt`, which asks the operating system; its answer is a choice.

## 7. Running

```
tlc -config MCShared.cfg MCBusSystem.tla        # also MCServed, MCRoundRobin, MCFlushLost
tlc -config MCTeamCache.cfg MCTeamCache.tla     # also MCStaleMiss, MCLostStore
tlc -config MCSimpleCache.cfg MCSimpleCache.tla
tlc -config MCSplayTree.cfg MCSplayTree.tla
tlc -config MCSettings.cfg MCSettings.tla       # also MCSettingsComment
tlc -config MCEngine.cfg MCEngine.tla
tlapm BusSystemProofs.tla                       # also BusAccountProofs
tlapm SimpleCacheProofs.tla
tlapm SplitProofs.tla
tlapm TeamCacheProofs.tla
tlapm SplayTreeProofs.tla
tlapm EngineProofs.tla                          # also SettingsProofs
```

`team_cache` takes about a minute and a half with two workers, `TeamCacheProofs` several
minutes; every other run or proof takes about three at most.
