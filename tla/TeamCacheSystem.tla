-------------------------- MODULE TeamCacheSystem --------------------------
(***************************************************************************)
(* One processor, teamCache, coherence, the bus and memory, as the engine  *)
(* runs them.  A tick of the engine goes through three turns:              *)
(*   "cache"      cache_access_tick, up to its call of coherence's tick    *)
(*   "coherence"  that call: memory, the bus, and the cache's callback     *)
(*   "processor"  the processor may issue requests                         *)
(* `event` is the callback that coherence makes, until it has run.         *)
(*                                                                         *)
(* processor.c issues a request when the one before it has completed; the  *)
(* cache takes requests from a processor that has several outstanding, so  *)
(* Window is a parameter (1 for processor.c).  The processor numbers its   *)
(* requests and takes a completion only for the number it expects.         *)
(***************************************************************************)
EXTENDS TeamCache

CONSTANTS Window,       \* requests the processor has outstanding at most
          MaxRequests,  \* bound: length of the trace
          Accesses,     \* the memory requests of traces, <<address, size>>
          Configurations   \* <<policy, write_buffer_mode>> the options may say

ASSUME WindowAssumption == Window \in Nat \ {0}
ASSUME MaxRequestsAssumption == MaxRequests \in Nat
ASSUME AccessesAssumption ==
  \A access \in Accesses : /\ access[1] \in 0 .. AddressMax
                           /\ access[2] \in Nat
                           /\ ~Refused(access[1], access[2])
ASSUME ConfigurationsAssumption ==
  Configurations \subseteq CachePolicies \X {0, 1}

VARIABLES cache, event, turn, issued, memOpTag

cacheVars == <<cache, issued, memOpTag>>
vars == <<systemVars, cacheVars, event, turn>>

Ops == {"LOAD", "STORE"}

Init ==
  /\ SystemInit
  /\ \E options \in Configurations :
       cache = cache_storage_init(options[1], options[2])
  /\ event = NULL
  /\ turn = "processor"
  /\ issued = 0 /\ memOpTag = 0

\* memOpCallback: a completion counts only for the request expected next.
memOpCallback(tag) ==
  memOpTag' = IF tag = memOpTag THEN memOpTag + 1 ELSE memOpTag

\* What an entry of the cache leaves behind: its state, its call to
\* coherence and its callback.
Runs(c) ==
  /\ cache' = [c EXCEPT !.call = NULL, !.notified = NULL]
  /\ CASE c.call = NULL -> UNCHANGED systemVars
       [] c.call # NULL /\ c.call.op = "permReq" -> permReq(Proc, c.call.addr)
       [] c.call # NULL /\ c.call.op = "invlReq" -> invlReq(Proc, c.call.addr)
  /\ memOpCallback(c.notified)
  /\ UNCHANGED issued

CacheTick ==
  /\ turn = "cache"
  /\ Runs(cache_access_tick(cache))
  /\ turn' = "coherence"
  /\ UNCHANGED event

\* The tick of coherence up to the callback, or to its end.
CoherenceTick ==
  /\ turn = "coherence"
  /\ \/ MemoryTick /\ UNCHANGED turn
     \/ (BusCounts \/ BusIssues \/ BusArbitrates) /\ turn' = "processor"
  /\ UNCHANGED <<cacheVars, event>>

CallsBack ==
  /\ turn = "coherence"
  /\ BusDelivers
  /\ event' = [type |-> Delivery.ca, addr |-> pendingRequest.addr]
  /\ UNCHANGED <<cacheVars, turn>>

CacheEvent ==
  /\ event # NULL
  /\ Runs(cache_access_event(cache, event.type, event.addr))
  /\ event' = NULL
  /\ UNCHANGED turn

CallbackReturns ==
  /\ turn = "coherence"
  /\ event = NULL
  /\ BusReleases
  /\ turn' = "processor"
  /\ UNCHANGED <<cacheVars, event>>

Issue(op, address, size) ==
  /\ turn = "processor"
  /\ issued < MaxRequests
  /\ issued - memOpTag < Window
  /\ cache' = cache_access_request(cache, [tag |-> issued, op |-> op,
                                           memAddress |-> address,
                                           size |-> size])
  /\ issued' = issued + 1
  /\ UNCHANGED <<systemVars, memOpTag, event, turn>>

NextTick ==
  /\ turn = "processor"
  /\ turn' = "cache"
  /\ UNCHANGED <<systemVars, cacheVars, event>>

Tick ==
  /\ ~cache.exited
  /\ CacheTick \/ CoherenceTick \/ CallsBack \/ CacheEvent
     \/ CallbackReturns \/ NextTick

Next ==
  \/ Tick
  \/ /\ ~cache.exited
     /\ \E op \in Ops, access \in Accesses : Issue(op, access[1], access[2])

Spec == Init /\ [][Next]_vars

(***************************************************************************)
(* The engine ticks for as long as the processor waits for a request: no   *)
(* turn is the last.  As every turn can be taken, this is WF_vars(Tick),   *)
(* stated without ENABLED, which TLC is slow to evaluate for these actions.*)
(***************************************************************************)
Ticking ==
  /\ []<>(turn = "cache" \/ cache.exited)
  /\ []<>(turn = "processor" \/ cache.exited)

FairSpec == Spec /\ Ticking

-----------------------------------------------------------------------------
Line == [valid : BOOLEAN, tag : Addrs \cup {NULL}, dirty : BOOLEAN,
         time_stamp : Nat]

Request == [tag : Nat, op : Ops, block : Addrs, block_index : Nat,
            status : Statuses, target : Ways \cup {NULL},
            victim_address : Addrs \cup {NULL}]

Completion == [tag : Nat, total : Nat, completed : Nat]

Original == [tag : Nat, op : Ops, memAddress : 0 .. AddressMax, size : Nat]

WriteBuffer == [request : Request, processor_notified : BOOLEAN,
                data_complete : BOOLEAN]

Call == [op : {"permReq", "invlReq"}, addr : Addrs]

Cache == [policy : CachePolicies, write_buffer_mode : {0, 1},
          sets : [SetIndices -> [Ways -> Line]],
          active : Request \cup {NULL}, queue : Seq(Request),
          completion : Completion \cup {NULL}, request_queue : Seq(Original),
          write_buffer : WriteBuffer \cup {NULL},
          access_sequence : 0 .. SequenceMax,
          call : Call \cup {NULL}, notified : Nat \cup {NULL},
          exited : BOOLEAN]

Event == [type : {"NO_ACTION", "DATA_RECV", "INVALIDATE", "FLUSH_COMPLETE"},
          addr : Addrs]

ASSUME TeamNullAssumption ==
  /\ NULL \notin Nat
  /\ NULL \notin Request /\ NULL \notin Completion /\ NULL \notin WriteBuffer
  /\ NULL \notin Call /\ NULL \notin Event

TypeOK ==
  /\ SystemTypeOK
  /\ cache \in Cache
  /\ <<cache.policy, cache.write_buffer_mode>> \in Configurations
  /\ cache.call = NULL /\ cache.notified = NULL
  /\ event \in Event \cup {NULL}
  /\ turn \in {"cache", "coherence", "processor"}
  /\ memOpTag \in 0 .. issued /\ issued \in 0 .. MaxRequests

\* No call of fail(): no event comes for a request that does not wait for
\* it, and coherence never grants at once what the cache has not.
NeverFails == ~cache.exited

\* So it is without the write buffer, until the access numbers are used up.
NeverFailsUnbuffered ==
  cache.write_buffer_mode = 0
  /\ ~Exhausted(cache.policy, cache.access_sequence) => NeverFails

\* The requests of the cache that have not been acknowledged, in the order
\* in which they will be.
Unacknowledged ==
  (IF cache.completion = NULL THEN <<>> ELSE <<cache.completion.tag>>)
  \o [i \in 1 .. Len(cache.request_queue) |-> cache.request_queue[i].tag]

\* Requests complete in the order in which they were made, each exactly
\* once: at any time the cache has the requests that the processor has not
\* seen completed, and no others, in order.
InOrderOnce ==
  Unacknowledged = [i \in 1 .. issued - memOpTag |-> memOpTag + i - 1]

\* Whatever is requested, up to the last byte of the address space, the cache
\* works through its bytes, each of them once.
SplitExact ==
  \A i \in DOMAIN cache.request_queue :
    SplitsExactly(cache.request_queue[i].memAddress,
                  cache.request_queue[i].size)

\* Stamps are what the policy takes them for.  Under LRU they order the
\* accesses to the valid lines, so no two are the same or later than the last
\* access; under RRIP they are predictions within k bits, so that the aging
\* of a set ends.
Stamped(c) ==
  LET Valid(s, w) == c.sets[s][w].valid
      Stamp(s, w) == c.sets[s][w].time_stamp
  IN /\ c.policy = "LRU" =>
          \A s, t \in SetIndices, v, w \in Ways :
            /\ Valid(s, v) => Stamp(s, v) \in 1 .. c.access_sequence
            /\ Valid(s, v) /\ Valid(t, w) /\ Stamp(s, v) = Stamp(t, w)
                 => s = t /\ v = w
     /\ c.policy = "RRIP" =>
          \A s \in SetIndices, w \in Ways : Stamp(s, w) <= RripMax

StampsSound == Stamped(cache)

\* What the requests of the cache wait for: blocks, and the write-backs of
\* blocks.
Awaiting(c, status) ==
  {who \in Places : Present(c, who) /\ RequestAt(c, who).status = status}

DataAwaited(c) ==
  {RequestAt(c, who).block : who \in Awaiting(c, "WAITING_DATA")}

FlushAwaited(c) ==
  {RequestAt(c, who).victim_address : who \in Awaiting(c, "WAITING_EVICTION")}

\* A line that is being evicted, for either place.
Evicting(c, s, w) ==
  \E who \in Awaiting(c, "WAITING_EVICTION") :
    RequestAt(c, who).target = w /\ SetIndex(RequestAt(c, who).block) = s

\* The blocks the cache may use: in valid lines that no write-back empties.
Usable(c) ==
  {a \in Addrs : \E s \in SetIndices, w \in Ways :
     c.sets[s][w].valid /\ c.sets[s][w].tag = a /\ ~Evicting(c, s, w)}

\* The block of the callback that is about to run, if it is of that type.
Told(type) == IF event # NULL /\ event.type = type THEN {event.addr} ELSE {}

\* Lines and permissions agree: the cache uses exactly the blocks that
\* coherence lets it modify, a callback that is about to run aside.
Inclusive ==
  ~cache.exited =>
    \A a \in Addrs :
      (coherStates[Proc][a] = "MODIFIED")
        <=> (a \in Usable(cache) \cup Told("DATA_RECV"))

\* The assertions of split.c and eviction.c, where they are about to be
\* evaluated: the count is that of the request, its blocks come in order,
\* and an evicted line is valid until it is given up.
CacheAssertions ==
  /\ cache.active # NULL =>
       /\ cache.completion # NULL
       /\ cache.completion.tag = cache.active.tag
       /\ cache.completion.completed = cache.active.block_index
       /\ cache.completion.completed + 1 + Len(cache.queue)
            = cache.completion.total
  /\ cache.write_buffer # NULL /\ ~cache.write_buffer.processor_notified =>
       /\ cache.completion # NULL
       /\ cache.completion.tag = cache.write_buffer.request.tag
       /\ cache.completion.total = 1 /\ cache.completion.completed = 0
       /\ cache.queue = <<>>
  /\ \A s \in SetIndices, w \in Ways :
       Evicting(cache, s, w) => cache.sets[s][w].valid

\* The buffered store's two ends come in one order: the processor is told
\* in the tick after the store was buffered, before the bus can deliver.
ToldBeforeData ==
  cache.write_buffer # NULL /\ cache.write_buffer.data_complete
    => cache.write_buffer.processor_notified

\* A line whose write-back is on its way is not modified any more: `dirty`
\* is "Modified in cache and not yet written back" (cache_internal.h), and
\* what is written into the line now will never be written back.
WrittenBackStays ==
  [][ \A s \in SetIndices, w \in Ways :
        Evicting(cache, s, w) /\ cache'.sets[s][w].valid
          => /\ cache'.sets[s][w].tag = cache.sets[s][w].tag
             /\ cache'.sets[s][w].dirty = cache.sets[s][w].dirty ]_vars

\* So it is without the write buffer, and nothing hits the line either.
UnbufferedStays ==
  [][ \A s \in SetIndices, w \in Ways :
        cache.write_buffer_mode = 0 /\ Evicting(cache, s, w) /\ cache'.sets[s][w].valid
          => cache'.sets[s][w] = cache.sets[s][w] ]_vars

\* Every request completes, unless the program exits.
RequestsComplete ==
  \A tag \in 0 .. (MaxRequests - 1) :
    issued > tag ~> (memOpTag > tag \/ cache.exited)

-----------------------------------------------------------------------------
(***************************************************************************)
(* The cache keeps to the interface: with its state in place of the        *)
(* client's, the system is one of those BusSystem describes, and has one   *)
(* call outstanding at a time.  When the program is over nothing uses the  *)
(* cache, and the client is left as coherence has it.                      *)
(***************************************************************************)
InState(state) == {a \in Addrs : coherStates[Proc][a] = state}

WaitingBlocks == IF cache.exited THEN InState("INVALID_MODIFIED")
                 ELSE DataAwaited(cache) \ Told("DATA_RECV")

FlushingBlocks == FlushAwaited(cache) \ Told("FLUSH_COMPLETE")

HeldBlocks == IF cache.exited THEN InState("MODIFIED")
              ELSE Usable(cache) \cup Told("DATA_RECV")

Bus == INSTANCE BusSystem WITH
  waiting <- {Proc} \X WaitingBlocks,
  flushing <- {Proc} \X FlushingBlocks,
  held <- {Proc} \X HeldBlocks,
  tracing <- TRUE,
  Evictors <- {Proc},
  MaxOutstanding <- 1

\* teamCache uses permReq and invlReq as BusSystem lets a cache use them.
KeepsToInterface == Bus!Spec
=============================================================================
