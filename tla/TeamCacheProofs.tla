-------------------------- MODULE TeamCacheProofs --------------------------
(***************************************************************************)
(* What holds of teamCache throughout, and why.                            *)
(*                                                                         *)
(* The cache's entries are operators from a state to a state, one inside   *)
(* the other, and so are the lemmas: for each operator what it returns and *)
(* keeps, from the choice of a victim up to the three entries.  What an    *)
(* entry leaves behind is said by Leaves: nothing for coherence, one call  *)
(* that coherence will have to answer, or the end of the program.          *)
(*                                                                         *)
(* The system is one that BusSystem describes, with the blocks the cache   *)
(* uses and awaits for held, waiting and flushing.  Each of its steps is a *)
(* step of that system or leaves it alone (StepOfBus), so that the bus     *)
(* keeps the invariant proved for all such systems, BusInv; from this      *)
(* follows which callback can come, and when.                              *)
(***************************************************************************)
EXTENDS TeamCacheSystem, SplitProofs, FiniteSetTheorems, SequenceTheorems, TLAPS

\* The bus with teamCache for its client, and what is proved of it.
BusProofs == INSTANCE BusAccountProofs WITH
  waiting <- {Proc} \X WaitingBlocks,
  flushing <- {Proc} \X FlushingBlocks,
  held <- {Proc} \X HeldBlocks,
  tracing <- TRUE,
  Evictors <- {Proc},
  MaxOutstanding <- 1

\* The invariant of the bus.
BusInv == BusProofs!TypeOK /\ BusProofs!Lockstep /\ BusProofs!GrantInv

\* A line's tag is the block it is for, in its set and in no other line.
LinesSound(c) ==
  \A s \in SetIndices, w \in Ways :
    c.sets[s][w].valid =>
      /\ c.sets[s][w].tag \in Addrs
      /\ SetIndex(c.sets[s][w].tag) = s
      /\ \A v \in Ways :
           c.sets[s][v].valid /\ c.sets[s][v].tag = c.sets[s][w].tag => v = w

\* The processor has not been told of the buffered store.
Unnotified(c) == c.write_buffer # NULL /\ ~c.write_buffer.processor_notified

\* The count of the request in work, with the blocks yet to come.
Counted(c) ==
  /\ \A i \in 1 .. Len(c.queue) :
       /\ c.queue[i].tag = c.completion.tag
       /\ c.queue[i].block_index = c.completion.completed + i
  /\ c.completion.completed + 1 + Len(c.queue) = c.completion.total

\* A request is counted while the cache works on it, block after block.  A
\* buffered store that the processor has not been told of is a request of one
\* block, which is the only one in work.
CountInv(c) ==
  /\ c.completion = NULL => c.active = NULL /\ c.queue = <<>>
  /\ c.completion # NULL => Counted(c) /\ (c.active # NULL \/ Unnotified(c))
  /\ c.active # NULL => /\ c.active.tag = c.completion.tag
                        /\ c.active.block_index = c.completion.completed
  /\ Unnotified(c) => /\ c.completion # NULL /\ c.active = NULL
                      /\ c.completion.tag = c.write_buffer.request.tag
                      /\ c.completion.total = 1

\* The write buffer is used only with its option.  Its store waits for
\* coherence, whose data has not come before the processor is told.
BufferInv(c) ==
  c.write_buffer # NULL =>
    /\ c.write_buffer_mode = 1
    /\ ~c.write_buffer.data_complete
    /\ c.write_buffer.request.status \in {"WAITING_EVICTION", "WAITING_DATA"}

\* The active request waits for the buffer only if there is a buffered store,
\* and for coherence only if there is none.
PlaceInv(c) ==
  c.active # NULL =>
    CASE c.active.status = "WAITING_BUFFER" -> c.write_buffer # NULL
      [] c.active.status \in {"WAITING_EVICTION", "WAITING_DATA"} ->
           c.write_buffer = NULL
      [] OTHER -> c.active.status = "READY"

\* The line that a request is to fill.
TargetOf(c, who) ==
  c.sets[SetIndex(RequestAt(c, who).block)][RequestAt(c, who).target]

\* A request that awaits a write-back has a valid line of its set for target,
\* with the victim.  Without the buffer its own block is in no line.
EvictionsAimed(c) ==
  \A who \in Awaiting(c, "WAITING_EVICTION") :
    /\ RequestAt(c, who).target \in Ways
    /\ TargetOf(c, who).valid
    /\ TargetOf(c, who).tag = RequestAt(c, who).victim_address
    /\ c.write_buffer_mode = 0 => HitWays(c, RequestAt(c, who).block) = {}

\* A request that awaits its block has an invalid line for target, and the
\* block is in no line.
FetchesAimed(c) ==
  \A who \in Awaiting(c, "WAITING_DATA") :
    /\ RequestAt(c, who).target \in Ways
    /\ ~TargetOf(c, who).valid
    /\ HitWays(c, RequestAt(c, who).block) = {}

\* From the request that completes next to the last that was made, the cache
\* has them all in order: in work, then in the queue.
OrderInv(c, next, last) ==
  IF c.completion = NULL
    THEN /\ Len(c.request_queue) = last - next
         /\ \A i \in 1 .. Len(c.request_queue) :
              c.request_queue[i].tag = next + i - 1
    ELSE /\ c.completion.tag = next
         /\ Len(c.request_queue) + 1 = last - next
         /\ \A i \in 1 .. Len(c.request_queue) :
              c.request_queue[i].tag = next + i

\* No request in the queue will be refused.
RequestsFit(c) ==
  \A i \in 1 .. Len(c.request_queue) :
    ~Refused(c.request_queue[i].memAddress, c.request_queue[i].size)

\* Without the buffer only the last access number ends the program.
ExitInv(c) ==
  c.exited /\ c.write_buffer_mode = 0
    => Exhausted(c.policy, c.access_sequence)

\* The cache's own invariant.  Where fail() is called a request may be left
\* waiting for a block that a line has: the last two hold until then.
CacheInv(c) ==
  /\ c \in Cache
  /\ LinesSound(c) /\ Stamped(c) /\ CountInv(c) /\ BufferInv(c)
  /\ EvictionsAimed(c) /\ RequestsFit(c) /\ ExitInv(c)
  /\ ~c.exited => PlaceInv(c) /\ FetchesAimed(c)

\* A callback about to run is one that the cache awaits, and the processor
\* has been told of the buffered store by then.
EventInv ==
  event # NULL =>
    /\ turn = "coherence" /\ phase = "callback" /\ ~cache.exited
    /\ ~Unnotified(cache)
    /\ \/ event.type = "DATA_RECV" /\ event.addr \in DataAwaited(cache)
       \/ event.type = "FLUSH_COMPLETE" /\ event.addr \in FlushAwaited(cache)

\* In the tick in which a store is buffered, the bus has nothing to deliver:
\* the transaction on it, if there is one, has just begun.
TurnInv ==
  /\ turn # "coherence" => phase = "calls"
  /\ turn = "coherence" /\ phase # "callback" /\ ~cache.exited
     /\ Unnotified(cache) /\ pendingRequest # NULL
       => pendingRequest.currentState = "WAITING_CACHE"

\* The cache's own invariant, the processor's count and the turns.
TeamCacheInv ==
  /\ CacheInv(cache) /\ cache.call = NULL /\ cache.notified = NULL
  /\ <<cache.policy, cache.write_buffer_mode>> \in Configurations
  /\ event \in Event \cup {NULL}
  /\ turn \in {"cache", "coherence", "processor"}
  /\ issued \in 0 .. MaxRequests /\ memOpTag \in 0 .. issued
  /\ OrderInv(cache, memOpTag, issued)
  /\ EventInv /\ TurnInv

\* The inductive invariant.
IInv == BusInv /\ SystemTypeOK /\ TeamCacheInv

-----------------------------------------------------------------------------
(***************************************************************************)
(* Replacement.                                                            *)
(***************************************************************************)

\* The first of some ways is one of them.
LEMMA FirstWayIn ==
  ASSUME NEW ways \in SUBSET Ways, ways # {}
  PROVE  FirstWay(ways) \in ways
<1>1. ways \in SUBSET Nat
  BY LinesAssumption DEF Ways
<1>2. \E w \in ways : \A v \in ways : w <= v
  BY <1>1, LeastOf
<1> QED
  BY <1>2 DEF FirstWay

\* Some line is the least recently used.
LEMMA LruVictim ==
  ASSUME NEW lines \in [Ways -> Line]
  PROVE  lru_victim(lines) \in Ways
<1> DEFINE stamps == {lines[w].time_stamp : w \in Ways}
           last == {w \in Ways :
                      \A v \in Ways :
                        lines[w].time_stamp <= lines[v].time_stamp}
<1>1. \A w \in Ways : lines[w].time_stamp \in Nat
  BY DEF Line
<1>2. 0 \in Ways
  BY LinesAssumption DEF Ways
<1>3. stamps \in SUBSET Nat /\ stamps # {}
  BY <1>1, <1>2
<1>4. PICK n \in stamps : \A i \in stamps : n <= i
  <2> HIDE DEF stamps
  <2> QED
    BY <1>3, LeastOf
<1>5. last # {} /\ last \in SUBSET Ways
  BY <1>4
<1> HIDE DEF last
<1>6. FirstWay(last) \in Ways
  BY <1>5, FirstWayIn
<1> QED
  BY <1>6 DEF lru_victim, last

\* The aging of a set ends: with the predictions of its lines up to RripMax,
\* the farthest of them reaches it, and none gets past it.
LEMMA RripVictim ==
  ASSUME NEW lines \in [Ways -> Line],
         \A w \in Ways : lines[w].time_stamp <= RripMax
  PROVE  LET found == rrip_victim(lines)
         IN /\ found.way \in Ways
            /\ found.lines \in [Ways -> Line]
            /\ \A w \in Ways : /\ found.lines[w].valid = lines[w].valid
                               /\ found.lines[w].tag = lines[w].tag
                               /\ found.lines[w].time_stamp <= RripMax
<1> DEFINE stamp(w) == lines[w].time_stamp
           ages == {n \in 0 .. RripMax : Far(Aged(lines, n)) # {}}
           years == Years(lines)
           aged == Aged(lines, years)
<1>1. /\ \A w \in Ways : stamp(w) \in Nat /\ stamp(w) <= RripMax
      /\ RripMax \in Nat /\ 0 \in Ways
  BY RripAssumption, LinesAssumption DEF Line, Ways
<1>2. ASSUME NEW n \in Nat
      PROVE  /\ Aged(lines, n) \in [Ways -> Line]
             /\ \A w \in Ways :
                  /\ Aged(lines, n)[w].valid = lines[w].valid
                  /\ Aged(lines, n)[w].tag = lines[w].tag
                  /\ Aged(lines, n)[w].time_stamp = stamp(w) + n
             /\ Far(Aged(lines, n)) = {w \in Ways : stamp(w) + n = RripMax}
  <2>1. ASSUME NEW w \in Ways
        PROVE  LET line == [lines[w] EXCEPT !.time_stamp = @ + n]
               IN /\ line \in Line /\ line.valid = lines[w].valid
                  /\ line.tag = lines[w].tag /\ line.time_stamp = stamp(w) + n
    <3>1. lines[w] \in Line /\ stamp(w) + n \in Nat
      BY <1>1
    <3> QED
      BY <3>1 DEF Line
  <2>2. /\ Aged(lines, n) \in [Ways -> Line]
        /\ \A w \in Ways : /\ Aged(lines, n)[w].valid = lines[w].valid
                           /\ Aged(lines, n)[w].tag = lines[w].tag
                           /\ Aged(lines, n)[w].time_stamp = stamp(w) + n
    BY <2>1 DEF Aged
  <2> QED
    BY <2>2 DEF Far
<1> HIDE DEF stamp
<1>3. RripMax - stamp(0) \in ages
  <2>1. RripMax - stamp(0) \in 0 .. RripMax /\ RripMax - stamp(0) \in Nat
    BY <1>1
  <2>2. 0 \in Far(Aged(lines, RripMax - stamp(0)))
    BY <1>1, <1>2, <2>1
  <2> QED
    BY <2>1, <2>2
<1>4. PICK n \in ages : \A i \in ages : n <= i
  <2>1. ages \in SUBSET Nat /\ ages # {}
    BY <1>3
  <2> HIDE DEF ages
  <2> QED
    BY <2>1, LeastOf
<1>5. /\ n \in 0 .. RripMax /\ Far(Aged(lines, n)) # {}
      /\ \A m \in 0 .. n - 1 : Far(Aged(lines, m)) = {}
  <2>1. ASSUME NEW m \in 0 .. n - 1 PROVE Far(Aged(lines, m)) = {}
    <3>1. m \in 0 .. RripMax /\ ~(n <= m)
      BY <1>1, <1>4
    <3> QED
      BY <1>4, <3>1
  <2> QED
    BY <1>4, <2>1
<1>6. /\ years \in 0 .. RripMax /\ Far(aged) # {}
      /\ \A m \in 0 .. years - 1 : Far(Aged(lines, m)) = {}
  BY <1>5, Zenon DEF Years
<1> HIDE DEF years
<1>7. years \in Nat /\ aged \in [Ways -> Line]
  BY <1>1, <1>2, <1>6
<1>8. ASSUME NEW w \in Ways PROVE aged[w].time_stamp <= RripMax
  <2>1. SUFFICES ASSUME stamp(w) + years > RripMax PROVE FALSE
    BY <1>1, <1>2, <1>7
  <2>2. RripMax - stamp(w) \in 0 .. years - 1 /\ RripMax - stamp(w) \in Nat
    BY <1>1, <1>7, <2>1
  <2>3. w \in Far(Aged(lines, RripMax - stamp(w)))
    BY <1>1, <1>2, <2>2
  <2> QED
    BY <1>6, <2>2, <2>3
<1>9. FirstWay(Far(aged)) \in Ways
  <2>1. Far(aged) \in SUBSET Ways
    BY DEF Far
  <2> QED
    BY <1>6, <2>1, FirstWayIn
<1>10. /\ rrip_victim(lines).way = FirstWay(Far(aged))
       /\ rrip_victim(lines).lines = aged
  BY DEF rrip_victim, years
<1> QED
  BY <1>2, <1>7, <1>8, <1>9, <1>10

\* A line is found, invalid if there is such a line, and the search changes
\* nothing but stamps.
LEMMA TargetFound ==
  ASSUME NEW policy \in CachePolicies, NEW lines \in [Ways -> Line],
         policy = "RRIP" => \A w \in Ways : lines[w].time_stamp <= RripMax
  PROVE  LET found == cache_replacement_target(policy, lines)
         IN /\ found.way \in Ways
            /\ found.lines \in [Ways -> Line]
            /\ \A w \in Ways : /\ found.lines[w].valid = lines[w].valid
                               /\ found.lines[w].tag = lines[w].tag
            /\ policy = "LRU" => found.lines = lines
            /\ policy = "RRIP" =>
                 \A w \in Ways : found.lines[w].time_stamp <= RripMax
<1> DEFINE invalid == {w \in Ways : ~lines[w].valid}
           found == cache_replacement_target(policy, lines)
<1>1. CASE invalid # {}
  <2>1. found = [way |-> FirstWay(invalid), lines |-> lines]
    BY <1>1 DEF cache_replacement_target
  <2>2. FirstWay(invalid) \in Ways
    BY <1>1, FirstWayIn
  <2> QED
    BY <2>1, <2>2
<1>2. CASE invalid = {} /\ policy = "LRU"
  <2>1. found = [way |-> lru_victim(lines), lines |-> lines]
    BY <1>2 DEF cache_replacement_target
  <2> QED
    BY <1>2, <2>1, LruVictim
<1>3. CASE invalid = {} /\ policy = "RRIP"
  <2>1. found = rrip_victim(lines)
    BY <1>3 DEF cache_replacement_target
  <2> QED
    BY <1>3, <2>1, RripVictim
<1> QED
  BY <1>1, <1>2, <1>3 DEF CachePolicies

-----------------------------------------------------------------------------
(***************************************************************************)
(* The state of a cache.                                                   *)
(***************************************************************************)

\* The blocks in valid lines.
Cached(c) == {a \in Addrs : HitWays(c, a) # {}}

\* A block has its set.
LEMMA SetIndexIn ==
  ASSUME NEW a \in Addrs PROVE SetIndex(a) \in SetIndices /\ a \in Nat
<1>1. a \in Nat
  BY BlocksAssumption
<1>2. a % S \in 0 .. S - 1
  BY <1>1, SetsAssumption
<1> QED
  BY <1>1, <1>2 DEF SetIndex, SetIndices

\* A request put in its place, field by field.
LEMMA RequestPut ==
  ASSUME NEW c \in Cache, NEW who \in Places, Present(c, who),
         NEW r \in Request
  PROVE  LET d == PutRequest(c, who, r)
         IN /\ d \in Cache
            /\ RequestAt(d, who) = r /\ Present(d, who)
            /\ d.policy = c.policy /\ d.write_buffer_mode = c.write_buffer_mode
            /\ d.sets = c.sets /\ d.queue = c.queue
            /\ d.completion = c.completion /\ d.request_queue = c.request_queue
            /\ d.access_sequence = c.access_sequence
            /\ d.call = c.call /\ d.notified = c.notified
            /\ d.exited = c.exited
            /\ who = "active" => d.write_buffer = c.write_buffer
            /\ who = "write_buffer" =>
                 /\ d.active = c.active
                 /\ d.write_buffer.processor_notified
                      = c.write_buffer.processor_notified
                 /\ d.write_buffer.data_complete = c.write_buffer.data_complete
<1> DEFINE d == PutRequest(c, who, r)
<1>1. CASE who = "active"
  <2>1. d = [c EXCEPT !.active = r]
    BY <1>1 DEF PutRequest
  <2>2. r # NULL
    BY TeamNullAssumption
  <2>3. [c EXCEPT !.active = r] \in Cache
    BY DEF Cache
  <2> QED
    BY <1>1, <2>1, <2>2, <2>3 DEF RequestAt, Present, Cache
<1>2. CASE who = "write_buffer"
  <2> DEFINE buffer == [c.write_buffer EXCEPT !.request = r]
  <2>1. c.write_buffer \in WriteBuffer
    BY <1>2 DEF Present, Cache
  <2>2. /\ buffer \in WriteBuffer /\ buffer.request = r
        /\ buffer.processor_notified = c.write_buffer.processor_notified
        /\ buffer.data_complete = c.write_buffer.data_complete
    BY <2>1 DEF WriteBuffer
  <2>3. d = [c EXCEPT !.write_buffer = buffer]
    BY <1>2, <2>1 DEF PutRequest, Cache
  <2> HIDE DEF buffer
  <2>4. buffer # NULL
    BY <2>2, TeamNullAssumption
  <2>5. [c EXCEPT !.write_buffer = buffer] \in Cache
    BY <2>2 DEF Cache
  <2> QED
    BY <1>2, <2>2, <2>3, <2>4, <2>5 DEF RequestAt, Present, Cache
<1> QED
  BY <1>1, <1>2 DEF Places

\* A block is cached if a line has it: the line is in the block's set.
LEMMA CachedIs ==
  ASSUME NEW c \in Cache, LinesSound(c), NEW a \in Addrs
  PROVE  a \in Cached(c) <=> \E s \in SetIndices, w \in Ways :
                               c.sets[s][w].valid /\ c.sets[s][w].tag = a
<1>1. SetIndex(a) \in SetIndices
  BY SetIndexIn
<1> QED
  BY <1>1 DEF Cached, HitWays, LinesSound

\* While no line is evicted every cached block may be used.
LEMMA NoneEvicted ==
  ASSUME NEW c \in Cache, LinesSound(c), Awaiting(c, "WAITING_EVICTION") = {}
  PROVE  Usable(c) = Cached(c)
<1>1. \A s \in SetIndices, w \in Ways : ~Evicting(c, s, w)
  BY DEF Evicting
<1>2. ASSUME NEW a \in Addrs PROVE a \in Usable(c) <=> a \in Cached(c)
  BY <1>1, CachedIs DEF Usable
<1> QED
  BY <1>2 DEF Usable, Cached

\* The line that an eviction is about.
LEMMA OneEvicted ==
  ASSUME NEW c \in Cache, LinesSound(c), NEW who \in Places,
         Awaiting(c, "WAITING_EVICTION") = {who},
         RequestAt(c, who).block \in Addrs,
         RequestAt(c, who).target \in Ways,
         TargetOf(c, who).valid,
         TargetOf(c, who).tag = RequestAt(c, who).victim_address
  PROVE  LET victim == RequestAt(c, who).victim_address
         IN /\ victim \in Cached(c)
            /\ Usable(c) = Cached(c) \ {victim}
            /\ FlushAwaited(c) = {victim}
<1> DEFINE victim == RequestAt(c, who).victim_address
           set == SetIndex(RequestAt(c, who).block)
           way == RequestAt(c, who).target
<1>1. set \in SetIndices /\ way \in Ways
  BY SetIndexIn
<1>2. c.sets[set][way].valid /\ c.sets[set][way].tag = victim
  BY DEF TargetOf
<1>3. \A s \in SetIndices, w \in Ways : Evicting(c, s, w) <=> w = way /\ s = set
  BY DEF Evicting
<1>4. FlushAwaited(c) = {victim}
  BY DEF FlushAwaited
<1> HIDE DEF victim, set, way
<1>5. victim \in Cached(c)
  <2>1. victim \in Addrs
    BY <1>1, <1>2 DEF LinesSound
  <2> QED
    BY <1>1, <1>2, <2>1, CachedIs
<1>6. ASSUME NEW a \in Addrs
      PROVE  a \in Usable(c) <=> a \in Cached(c) /\ a # victim
  <2>1. CASE a = victim
    <3>1. ASSUME NEW s \in SetIndices, NEW w \in Ways, c.sets[s][w].valid,
                 c.sets[s][w].tag = a
          PROVE  s = set /\ w = way
      BY <1>1, <1>2, <2>1, <3>1 DEF LinesSound
    <3> QED
      BY <1>3, <2>1, <3>1 DEF Usable
  <2>2. CASE a # victim
    BY <1>1, <1>2, <1>3, <2>2, CachedIs DEF Usable
  <2> QED
    BY <2>1, <2>2
<1>7. Usable(c) = Cached(c) \ {victim}
  BY <1>6 DEF Usable, Cached
<1> QED
  BY <1>4, <1>5, <1>7 DEF victim

\* What lines have is a matter of their valid tags.
LEMMA SameLines ==
  ASSUME NEW c \in Cache, NEW d \in Cache,
         \A s \in SetIndices, w \in Ways :
           /\ d.sets[s][w].valid <=> c.sets[s][w].valid
           /\ d.sets[s][w].valid => d.sets[s][w].tag = c.sets[s][w].tag
  PROVE  /\ LinesSound(c) => LinesSound(d)
         /\ \A a \in Addrs : HitWays(d, a) = HitWays(c, a)
         /\ Cached(d) = Cached(c)
<1>1. ASSUME NEW a \in Addrs PROVE HitWays(d, a) = HitWays(c, a)
  <2>1. SetIndex(a) \in SetIndices
    BY SetIndexIn
  <2> QED
    BY <2>1 DEF HitWays
<1>2. LinesSound(c) => LinesSound(d)
  BY DEF LinesSound
<1> QED
  BY <1>1, <1>2 DEF Cached

\* A line is given up: its block is not cached any more.
LEMMA LineGone ==
  ASSUME NEW c \in Cache, NEW d \in Cache, LinesSound(c),
         NEW set \in SetIndices, NEW way \in Ways, c.sets[set][way].valid,
         ~d.sets[set][way].valid,
         \A s \in SetIndices, w \in Ways : s # set \/ w # way =>
           /\ d.sets[s][w].valid <=> c.sets[s][w].valid
           /\ d.sets[s][w].tag = c.sets[s][w].tag
  PROVE  /\ LinesSound(d)
         /\ Cached(d) = Cached(c) \ {c.sets[set][way].tag}
<1>1. LinesSound(d)
  BY DEF LinesSound
<1>2. ASSUME NEW a \in Addrs
      PROVE  a \in Cached(d) <=> a \in Cached(c) /\ a # c.sets[set][way].tag
  <2>1. CASE a = c.sets[set][way].tag
    <3>1. ASSUME NEW s \in SetIndices, NEW w \in Ways, d.sets[s][w].valid,
                 d.sets[s][w].tag = a
          PROVE  FALSE
      <4>1. s # set \/ w # way
        BY <3>1
      <4>2. c.sets[s][w].valid /\ c.sets[s][w].tag = a
        BY <3>1, <4>1
      <4> QED
        BY <2>1, <4>1, <4>2 DEF LinesSound
    <3> QED
      BY <1>1, <2>1, <3>1, CachedIs
  <2>2. CASE a # c.sets[set][way].tag
    BY <1>1, <2>2, CachedIs
  <2> QED
    BY <2>1, <2>2
<1> QED
  BY <1>1, <1>2 DEF Cached

\* An invalid line is filled with a block that no line has.
LEMMA LineFilled ==
  ASSUME NEW c \in Cache, NEW d \in Cache, LinesSound(c),
         NEW a \in Addrs, NEW way \in Ways,
         ~c.sets[SetIndex(a)][way].valid, HitWays(c, a) = {},
         d.sets[SetIndex(a)][way].valid, d.sets[SetIndex(a)][way].tag = a,
         \A s \in SetIndices, w \in Ways : s # SetIndex(a) \/ w # way =>
           /\ d.sets[s][w].valid <=> c.sets[s][w].valid
           /\ d.sets[s][w].tag = c.sets[s][w].tag
  PROVE  /\ LinesSound(d)
         /\ Cached(d) = Cached(c) \cup {a}
<1> DEFINE set == SetIndex(a)
<1>1. set \in SetIndices
  BY SetIndexIn
<1>2. \A w \in Ways : c.sets[set][w].valid => c.sets[set][w].tag # a
  BY DEF HitWays
<1>3. LinesSound(d)
  <2>1. ASSUME NEW s \in SetIndices, NEW w \in Ways, d.sets[s][w].valid
        PROVE  d.sets[s][w].tag \in Addrs /\ SetIndex(d.sets[s][w].tag) = s
    BY <2>1 DEF LinesSound
  <2>2. ASSUME NEW s \in SetIndices, NEW w \in Ways, NEW v \in Ways,
               d.sets[s][w].valid, d.sets[s][v].valid,
               d.sets[s][v].tag = d.sets[s][w].tag
        PROVE  v = w
    <3> HIDE DEF set
    <3>1. CASE s = set /\ (w = way \/ v = way)
      BY <1>1, <1>2, <2>2, <3>1 DEF set
    <3>2. CASE s # set \/ (w # way /\ v # way)
      BY <2>2, <3>2 DEF LinesSound, set
    <3> QED
      BY <3>1, <3>2
  <2> QED
    BY <2>1, <2>2 DEF LinesSound
<1>4. ASSUME NEW b \in Addrs PROVE b \in Cached(d) <=> b \in Cached(c) \/ b = a
  <2>1. CASE b = a
    BY <1>1, <1>3, <2>1, CachedIs
  <2>2. CASE b # a
    BY <1>1, <1>3, <2>2, CachedIs
  <2> QED
    BY <2>1, <2>2
<1> QED
  BY <1>3, <1>4 DEF Cached

\* Giving lines up and aging them leaves the stamps sound.
LEMMA StampsKept ==
  ASSUME NEW c \in Cache, NEW d \in Cache, Stamped(c),
         d.policy = c.policy, d.access_sequence = c.access_sequence,
         \A s \in SetIndices, w \in Ways :
           /\ d.sets[s][w].valid => c.sets[s][w].valid
           /\ c.policy = "LRU" =>
                d.sets[s][w].time_stamp = c.sets[s][w].time_stamp
           /\ c.policy = "RRIP" => d.sets[s][w].time_stamp <= RripMax
  PROVE  Stamped(d)
<1>1. c.policy \in {"LRU", "RRIP"}
  BY DEF Cache, CachePolicies
<1>2. CASE c.policy = "LRU"
  BY <1>2 DEF Stamped
<1>3. CASE c.policy = "RRIP"
  <2>1. \A s \in SetIndices, w \in Ways : d.sets[s][w].time_stamp <= RripMax
    BY <1>3
  <2> QED
    BY <1>3, <2>1 DEF Stamped
<1> QED
  BY <1>1, <1>2, <1>3

\* So does an access to a line, whether it hit or filled it.
LEMMA StampRenewed ==
  ASSUME NEW c \in Cache, NEW d \in Cache, Stamped(c),
         ~Exhausted(c.policy, c.access_sequence),
         d.policy = c.policy,
         d.access_sequence = NextSequence(c.policy, c.access_sequence),
         NEW set \in SetIndices, NEW way \in Ways,
         d.sets[set][way].time_stamp \in
           {HitStamp(c.policy, c.access_sequence),
            FillStamp(c.policy, c.access_sequence)},
         \A s \in SetIndices, w \in Ways : s # set \/ w # way =>
           /\ d.sets[s][w].valid => c.sets[s][w].valid
           /\ d.sets[s][w].time_stamp = c.sets[s][w].time_stamp
  PROVE  Stamped(d)
<1>1. /\ c.policy \in {"LRU", "RRIP"} /\ c.access_sequence \in Nat
      /\ d.access_sequence \in Nat /\ RripMax \in Nat \ {0}
  BY SequenceAssumption, RripAssumption DEF Cache, CachePolicies
<1>2. CASE c.policy = "LRU"
  <2>1. /\ d.access_sequence = c.access_sequence + 1
        /\ d.sets[set][way].time_stamp = c.access_sequence + 1
    BY <1>2 DEF NextSequence, HitStamp, FillStamp
  <2>2. ASSUME NEW s \in SetIndices, NEW w \in Ways, d.sets[s][w].valid
        PROVE  IF s = set /\ w = way
                 THEN d.sets[s][w].time_stamp = c.access_sequence + 1
                 ELSE /\ c.sets[s][w].valid
                      /\ d.sets[s][w].time_stamp = c.sets[s][w].time_stamp
                      /\ c.sets[s][w].time_stamp \in 1 .. c.access_sequence
    BY <1>2, <2>1, <2>2 DEF Stamped
  <2>3. ASSUME NEW s \in SetIndices, NEW t \in SetIndices,
               NEW v \in Ways, NEW w \in Ways,
               d.sets[s][v].valid, d.sets[t][w].valid,
               d.sets[s][v].time_stamp = d.sets[t][w].time_stamp
        PROVE  s = t /\ v = w
    BY <1>1, <1>2, <2>2, <2>3 DEF Stamped
  <2>4. ASSUME NEW s \in SetIndices, NEW w \in Ways, d.sets[s][w].valid
        PROVE  d.sets[s][w].time_stamp \in 1 .. d.access_sequence
    BY <1>1, <2>1, <2>2, <2>4
  <2> QED
    BY <1>2, <2>3, <2>4 DEF Stamped
<1>3. CASE c.policy = "RRIP"
  <2>1. d.sets[set][way].time_stamp <= RripMax
    BY <1>1, <1>3 DEF HitStamp, FillStamp
  <2>2. ASSUME NEW s \in SetIndices, NEW w \in Ways
        PROVE  d.sets[s][w].time_stamp <= RripMax
    <3>1. c.sets[s][w].time_stamp <= RripMax
      BY <1>3 DEF Stamped
    <3> QED
      BY <2>1, <3>1
  <2> QED
    BY <1>3, <2>2 DEF Stamped
<1> QED
  BY <1>1, <1>2, <1>3

\* The lines of a cache with one or more of them changed.
LEMMA LinesPut ==
  ASSUME NEW c \in Cache, NEW set \in SetIndices, NEW lines \in [Ways -> Line]
  PROVE  LET d == [c EXCEPT !.sets[set] = lines]
         IN /\ d \in Cache
            /\ d = [c EXCEPT !.sets = d.sets]
            /\ d.sets[set] = lines
            /\ \A s \in SetIndices \ {set} : d.sets[s] = c.sets[s]
<1> DEFINE sets == [c.sets EXCEPT ![set] = lines]
<1>1. sets \in [SetIndices -> [Ways -> Line]]
  BY DEF Cache
<1>2. sets[set] = lines /\ \A s \in SetIndices \ {set} : sets[s] = c.sets[s]
  BY DEF Cache
<1>3. [c EXCEPT !.sets[set] = lines] = [c EXCEPT !.sets = sets]
  BY DEF Cache
<1> HIDE DEF sets
<1>4. [c EXCEPT !.sets = sets] \in Cache /\ [c EXCEPT !.sets = sets].sets = sets
  BY <1>1 DEF Cache
<1> QED
  BY <1>2, <1>3, <1>4

\* Touch renews one line's stamp.
LEMMA Touched ==
  ASSUME NEW c \in Cache, NEW set \in SetIndices, NEW way \in Ways,
         NEW stamp \in Nat, NEW dirty \in BOOLEAN,
         ~Exhausted(c.policy, c.access_sequence)
  PROVE  LET d == Touch(c, set, way, stamp, dirty)
         IN /\ d \in Cache
            /\ d.policy = c.policy /\ d.write_buffer_mode = c.write_buffer_mode
            /\ d.active = c.active /\ d.queue = c.queue
            /\ d.completion = c.completion /\ d.request_queue = c.request_queue
            /\ d.write_buffer = c.write_buffer
            /\ d.access_sequence = NextSequence(c.policy, c.access_sequence)
            /\ d.call = c.call /\ d.notified = c.notified
            /\ d.exited = c.exited
            /\ d.sets[set][way].time_stamp = stamp
            /\ \A s \in SetIndices, w \in Ways :
                 /\ d.sets[s][w].valid = c.sets[s][w].valid
                 /\ d.sets[s][w].tag = c.sets[s][w].tag
                 /\ s # set \/ w # way => d.sets[s][w] = c.sets[s][w]
<1> DEFINE line == [c.sets[set][way] EXCEPT !.time_stamp = stamp,
                                            !.dirty = dirty]
           sets == [c.sets EXCEPT ![set][way] = line]
           next == NextSequence(c.policy, c.access_sequence)
<1>1. c.sets[set][way] \in Line
  BY DEF Cache
<1>2. /\ line \in Line /\ line.time_stamp = stamp
      /\ line.valid = c.sets[set][way].valid /\ line.tag = c.sets[set][way].tag
  BY <1>1 DEF Line
<1>3. next \in 0 .. SequenceMax
  BY SequenceAssumption DEF NextSequence, Exhausted, Cache
<1>4. Touch(c, set, way, stamp, dirty)
        = [c EXCEPT !.sets = sets, !.access_sequence = next]
  BY ZenonT(40) DEF Touch, Cache
<1> HIDE DEF line, next
<1>5. sets \in [SetIndices -> [Ways -> Line]]
  BY <1>2 DEF Cache
<1>6. /\ sets[set][way] = line
      /\ \A s \in SetIndices, w \in Ways :
           s # set \/ w # way => sets[s][w] = c.sets[s][w]
  BY DEF Cache
<1> HIDE DEF sets
<1> DEFINE d == [c EXCEPT !.sets = sets, !.access_sequence = next]
<1>7. /\ d \in Cache /\ d.sets = sets /\ d.access_sequence = next
      /\ d.policy = c.policy /\ d.write_buffer_mode = c.write_buffer_mode
      /\ d.active = c.active /\ d.queue = c.queue
      /\ d.completion = c.completion /\ d.request_queue = c.request_queue
      /\ d.write_buffer = c.write_buffer
      /\ d.call = c.call /\ d.notified = c.notified
      /\ d.exited = c.exited
  BY <1>3, <1>5 DEF Cache
<1> HIDE DEF d
<1>8. \A s \in SetIndices, w \in Ways :
        /\ sets[s][w].valid = c.sets[s][w].valid
        /\ sets[s][w].tag = c.sets[s][w].tag
  BY <1>2, <1>6
<1> QED
  BY <1>2, <1>4, <1>6, <1>7, <1>8 DEF d, next

-----------------------------------------------------------------------------
(***************************************************************************)
(* A miss.                                                                 *)
(***************************************************************************)

\* What finding a line for a request leaves alone.
SameWork(c, d) ==
  /\ d.policy = c.policy /\ d.write_buffer_mode = c.write_buffer_mode
  /\ d.queue = c.queue /\ d.completion = c.completion
  /\ d.request_queue = c.request_queue
  /\ d.access_sequence = c.access_sequence
  /\ d.notified = c.notified

\* The options are not changed.
SameOptions(c, d) ==
  d.policy = c.policy /\ d.write_buffer_mode = c.write_buffer_mode

\* A request moves on, in its place, and the other place is left alone.
SameRequest(r, q) ==
  /\ q.tag = r.tag /\ q.op = r.op
  /\ q.block = r.block /\ q.block_index = r.block_index

\* One request may have moved on; the other place is as it was.
SamePlaces(c, d, who) ==
  /\ Present(d, who)
  /\ SameRequest(RequestAt(c, who), RequestAt(d, who))
  /\ who = "active" => d.write_buffer = c.write_buffer
  /\ who = "write_buffer" =>
       /\ d.active = c.active
       /\ d.write_buffer.processor_notified = c.write_buffer.processor_notified
       /\ d.write_buffer.data_complete = c.write_buffer.data_complete

\* What a request aims at depends on the requests and the lines.
LEMMA SameAims ==
  ASSUME NEW c, NEW d, d.sets = c.sets,
         d.write_buffer_mode = c.write_buffer_mode,
         \A who : RequestAt(d, who) = RequestAt(c, who),
         \A status : Awaiting(d, status) = Awaiting(c, status)
  PROVE  /\ EvictionsAimed(c) => EvictionsAimed(d)
         /\ FetchesAimed(c) => FetchesAimed(d)
<1>1. \A who : TargetOf(d, who) = TargetOf(c, who)
  BY DEF TargetOf
<1>2. \A a : HitWays(d, a) = HitWays(c, a)
  BY DEF HitWays
<1>3. EvictionsAimed(c) => EvictionsAimed(d)
  BY <1>1, <1>2 DEF EvictionsAimed
<1>4. FetchesAimed(c) => FetchesAimed(d)
  BY <1>1, <1>2 DEF FetchesAimed
<1> QED
  BY <1>3, <1>4

\* A request put in its place has moved on there.
LEMMA PlacePut ==
  ASSUME NEW c \in Cache, NEW who \in Places, Present(c, who),
         NEW r \in Request, SameRequest(RequestAt(c, who), r)
  PROVE  LET d == PutRequest(c, who, r)
         IN /\ d \in Cache /\ SameWork(c, d) /\ SamePlaces(c, d, who)
            /\ RequestAt(d, who) = r
            /\ d.sets = c.sets /\ d.call = c.call /\ d.exited = c.exited
BY RequestPut DEF SameWork, SamePlaces

\* A request with the line it aims at, its set as the search left it.
Aim(c, who, way, status, address, lines) ==
  LET request == RequestAt(c, who)
  IN [PutRequest(c, who, [request EXCEPT !.target = way, !.status = status,
                                         !.victim_address = address])
        EXCEPT !.sets[SetIndex(request.block)] = lines]

\* A request that is given its line.
LEMMA Aimed ==
  ASSUME NEW c \in Cache, NEW who \in Places, Present(c, who),
         NEW way \in Ways, NEW status \in Statuses,
         NEW address \in Addrs \cup {NULL}, NEW lines \in [Ways -> Line]
  PROVE  LET set == SetIndex(RequestAt(c, who).block)
             d == Aim(c, who, way, status, address, lines)
         IN /\ d \in Cache /\ SameWork(c, d) /\ SamePlaces(c, d, who)
            /\ RequestAt(d, who) \in Request
            /\ RequestAt(d, who).target = way
            /\ RequestAt(d, who).status = status
            /\ RequestAt(d, who).victim_address = address
            /\ set \in SetIndices
            /\ d.sets[set] = lines
            /\ \A s \in SetIndices \ {set} : d.sets[s] = c.sets[s]
            /\ d.call = c.call /\ d.exited = c.exited
<1> DEFINE request == RequestAt(c, who)
           set == SetIndex(request.block)
           r == [request EXCEPT !.target = way, !.status = status,
                                !.victim_address = address]
           p == PutRequest(c, who, r)
           d == [p EXCEPT !.sets[set] = lines]
<1>1. request \in Request
  BY DEF RequestAt, Present, Cache, WriteBuffer, Places
<1>2. set \in SetIndices
  <2>1. request.block \in Addrs
    BY <1>1 DEF Request
  <2> QED
    BY <2>1, SetIndexIn
<1> HIDE DEF request
<1>3. /\ r \in Request /\ SameRequest(request, r)
      /\ r.target = way /\ r.status = status /\ r.victim_address = address
  BY <1>1 DEF Request, SameRequest
<1> HIDE DEF r
<1>4. /\ p \in Cache /\ SameWork(c, p) /\ SamePlaces(c, p, who)
      /\ RequestAt(p, who) = r
      /\ p.sets = c.sets /\ p.call = c.call /\ p.exited = c.exited
  BY <1>3, PlacePut DEF request
<1> HIDE DEF p, set
<1>5. /\ d \in Cache /\ d = [p EXCEPT !.sets = d.sets] /\ d.sets[set] = lines
      /\ \A s \in SetIndices \ {set} : d.sets[s] = p.sets[s]
  BY <1>2, <1>4, LinesPut
<1> HIDE DEF d
<1>6. /\ d.policy = p.policy /\ d.write_buffer_mode = p.write_buffer_mode
      /\ d.queue = p.queue /\ d.completion = p.completion
      /\ d.request_queue = p.request_queue
      /\ d.access_sequence = p.access_sequence /\ d.notified = p.notified
      /\ d.active = p.active /\ d.write_buffer = p.write_buffer
      /\ d.call = p.call /\ d.exited = p.exited
  BY <1>4, <1>5 DEF Cache
<1>7. SameWork(c, d) /\ SamePlaces(c, d, who) /\ RequestAt(d, who) = r
  BY <1>4, <1>6 DEF SameWork, SamePlaces, RequestAt, Present
<1> QED
  BY <1>2, <1>3, <1>4, <1>5, <1>6, <1>7 DEF d, p, r, set, request, Aim

\* A call to coherence.
LEMMA Called ==
  ASSUME NEW c \in Cache, NEW call \in Call
  PROVE  LET d == [c EXCEPT !.call = call]
         IN /\ d \in Cache /\ d.call = call
            /\ d = [c EXCEPT !.call = d.call]
BY DEF Cache

\* fetch
LEMMA Fetched ==
  ASSUME NEW c \in Cache, NEW who \in Places, Present(c, who)
  PROVE  LET d == fetch(c, who)
             block == RequestAt(c, who).block
         IN /\ d \in Cache /\ SameWork(c, d) /\ SamePlaces(c, d, who)
            /\ RequestAt(d, who)
                 = [RequestAt(c, who) EXCEPT !.status = "WAITING_DATA"]
            /\ RequestAt(c, who) \in Request
            /\ d.sets = c.sets
            /\ d.call = [op |-> "permReq", addr |-> block]
            /\ block \in Addrs
            /\ Granted(block) => d.exited
            /\ ~Granted(block) => d.exited = c.exited
<1> DEFINE request == RequestAt(c, who)
           block == request.block
           call == [op |-> "permReq", addr |-> block]
           r == [request EXCEPT !.status = "WAITING_DATA"]
           p == PutRequest(c, who, r)
           asking == [p EXCEPT !.call = call]
           d == fetch(c, who)
<1>1. request \in Request
  BY DEF RequestAt, Present, Cache, WriteBuffer, Places
<1> HIDE DEF request
<1>2. r \in Request /\ SameRequest(request, r) /\ block \in Addrs
  BY <1>1 DEF Request, SameRequest, Statuses
<1> HIDE DEF block
<1>3. call \in Call
  BY <1>2 DEF Call
<1> HIDE DEF r, call
<1>4. /\ p \in Cache /\ SameWork(c, p) /\ SamePlaces(c, p, who)
      /\ RequestAt(p, who) = r
      /\ p.sets = c.sets /\ p.exited = c.exited
  BY <1>2, PlacePut DEF request
<1> HIDE DEF p
<1>5. asking \in Cache /\ asking.call = call
  BY <1>3, <1>4 DEF Cache
<1>6. d = IF Granted(block) THEN [asking EXCEPT !.exited = TRUE] ELSE asking
  BY DEF fetch, fail, asking, p, r, call, block, request
<1>7. /\ d \in Cache /\ d = [p EXCEPT !.call = call, !.exited = d.exited]
      /\ Granted(block) => d.exited
      /\ ~Granted(block) => d.exited = p.exited
  <2> HIDE DEF asking, d
  <2>1. CASE Granted(block)
    <3>1. d = [asking EXCEPT !.exited = TRUE]
      BY <1>6, <2>1
    <3>2. d \in Cache /\ d.exited /\ d.call = call
      BY <1>5, <3>1, ZenonT(40) DEF Cache
    <3>3. d = [p EXCEPT !.call = call, !.exited = d.exited]
      BY <1>4, <3>1, <3>2, ZenonT(40) DEF asking, Cache
    <3> QED
      BY <2>1, <3>2, <3>3
  <2>2. CASE ~Granted(block)
    <3>1. d = asking
      BY <1>6, <2>2
    <3>2. d.exited = p.exited
      BY <1>4, <3>1, ZenonT(40) DEF asking, Cache
    <3>3. d = [p EXCEPT !.call = call, !.exited = d.exited]
      BY <1>4, <3>1, <3>2, ZenonT(40) DEF asking, Cache
    <3> QED
      BY <1>5, <2>2, <3>1, <3>2, <3>3
  <2> QED
    BY <2>1, <2>2
<1> HIDE DEF d
<1>8. /\ d.policy = p.policy /\ d.write_buffer_mode = p.write_buffer_mode
      /\ d.queue = p.queue /\ d.completion = p.completion
      /\ d.request_queue = p.request_queue /\ d.sets = p.sets
      /\ d.access_sequence = p.access_sequence /\ d.notified = p.notified
      /\ d.active = p.active /\ d.write_buffer = p.write_buffer
      /\ d.call = call
  BY <1>4, <1>7 DEF Cache
<1>9. SameWork(c, d) /\ SamePlaces(c, d, who) /\ RequestAt(d, who) = r
  BY <1>4, <1>8 DEF SameWork, SamePlaces, RequestAt, Present
<1> QED
  BY <1>1, <1>2, <1>4, <1>7, <1>8, <1>9 DEF d, r, call, block, request

\* Coherence grants at once what it lets the cache modify already.
LEMMA GrantedIs ==
  ASSUME NEW a \in Addrs
  PROVE  /\ Granted(a) <=> a \in InState("MODIFIED")
         /\ a \in InState("MODIFIED") => Owned(a)
BY DEF Granted, Owned, InState, cacheMI

\* How cache_eviction_prepare ends: an eviction begins;
Evicts(d, who) ==
  LET r == RequestAt(d, who)
  IN /\ ~d.exited /\ r.status = "WAITING_EVICTION"
     /\ TargetOf(d, who).valid /\ TargetOf(d, who).tag = r.victim_address
     /\ d.call = [op |-> "invlReq", addr |-> r.victim_address]

\* the block is asked for;
Fetches(d, who) ==
  LET r == RequestAt(d, who)
  IN /\ ~d.exited /\ r.status = "WAITING_DATA"
     /\ ~TargetOf(d, who).valid /\ HitWays(d, r.block) = {}
     /\ d.call = [op |-> "permReq", addr |-> r.block]

\* coherence grants the block at once, and that is the end.
Fails(d, who) ==
  LET r == RequestAt(d, who)
  IN /\ d.exited /\ r.status = "WAITING_DATA"
     /\ r.block \in InState("MODIFIED") /\ HitWays(d, r.block) # {}
     /\ d.call = [op |-> "permReq", addr |-> r.block]

\* cache_eviction_prepare, for a cache whose blocks are those it may modify.
LEMMA Prepared ==
  ASSUME NEW c \in Cache, LinesSound(c), Stamped(c), NEW who \in Places,
         Present(c, who), ~c.exited, InState("MODIFIED") = Cached(c)
  PROVE  LET d == cache_eviction_prepare(c, who)
         IN /\ d \in Cache /\ SameWork(c, d) /\ SamePlaces(c, d, who)
            /\ LinesSound(d) /\ Stamped(d) /\ Cached(d) = Cached(c)
            /\ \A a \in Addrs : HitWays(d, a) = HitWays(c, a)
            /\ RequestAt(d, who) \in Request
            /\ RequestAt(d, who).target \in Ways
            /\ Evicts(d, who) \/ Fetches(d, who) \/ Fails(d, who)
<1> DEFINE request == RequestAt(c, who)
           set == SetIndex(request.block)
           found == cache_replacement_target(c.policy, c.sets[set])
           victim == found.lines[found.way]
           aimed(status, address) ==
             Aim(c, who, found.way, status, address, found.lines)
           evicting == aimed("WAITING_EVICTION", victim.tag)
           fetching == aimed(request.status, NULL)
           d == cache_eviction_prepare(c, who)
<1>1. request \in Request /\ set \in SetIndices
  <2>1. request \in Request
    BY DEF RequestAt, Present, Cache, WriteBuffer, Places
  <2>2. request.block \in Addrs
    BY <2>1 DEF Request
  <2> QED
    BY <2>1, <2>2, SetIndexIn
<1>2. /\ found.way \in Ways /\ found.lines \in [Ways -> Line]
      /\ \A w \in Ways : /\ found.lines[w].valid = c.sets[set][w].valid
                         /\ found.lines[w].tag = c.sets[set][w].tag
      /\ c.policy = "LRU" => found.lines = c.sets[set]
      /\ c.policy = "RRIP" =>
           \A w \in Ways : found.lines[w].time_stamp <= RripMax
  <2>1. c.policy \in CachePolicies /\ c.sets[set] \in [Ways -> Line]
    BY <1>1 DEF Cache
  <2>2. c.policy = "RRIP" =>
          \A w \in Ways : c.sets[set][w].time_stamp <= RripMax
    BY <1>1 DEF Stamped
  <2> QED
    BY <2>1, <2>2, TargetFound
<1>3. d = CASE ~victim.valid -> fetch(fetching, who)
            [] victim.valid /\ Owned(victim.tag) ->
                 [evicting EXCEPT
                    !.call = [op |-> "invlReq", addr |-> victim.tag]]
            [] victim.valid /\ ~Owned(victim.tag) ->
                 fetch(cache_eviction_complete(evicting, who), who)
  BY DEF cache_eviction_prepare, Aim
<1> HIDE DEF found
<1>4. ASSUME NEW status \in Statuses, NEW address \in Addrs \cup {NULL}
      PROVE  LET x == aimed(status, address)
             IN /\ x \in Cache /\ SameWork(c, x) /\ SamePlaces(c, x, who)
                /\ RequestAt(x, who) \in Request
                /\ RequestAt(x, who).target = found.way
                /\ RequestAt(x, who).status = status
                /\ RequestAt(x, who).victim_address = address
                /\ x.sets[set] = found.lines
                /\ \A s \in SetIndices \ {set} : x.sets[s] = c.sets[s]
                /\ x.call = c.call /\ x.exited = c.exited
  <2> DEFINE way == found.way
             lines == found.lines
  <2>1. way \in Ways /\ lines \in [Ways -> Line]
    BY <1>2
  <2> HIDE DEF way, lines
  <2> DEFINE x == Aim(c, who, way, status, address, lines)
  <2>2. /\ x \in Cache /\ SameWork(c, x) /\ SamePlaces(c, x, who)
        /\ RequestAt(x, who) \in Request
        /\ RequestAt(x, who).target = way
        /\ RequestAt(x, who).status = status
        /\ RequestAt(x, who).victim_address = address
        /\ x.sets[set] = lines
        /\ \A s \in SetIndices \ {set} : x.sets[s] = c.sets[s]
        /\ x.call = c.call /\ x.exited = c.exited
    BY <2>1, Aimed
  <2> QED
    BY <2>2 DEF way, lines
<1> HIDE DEF found, aimed, d
<1>5. ASSUME NEW x \in Cache, SameWork(c, x), x.sets[set] = found.lines,
             \A s \in SetIndices \ {set} : x.sets[s] = c.sets[s]
      PROVE  /\ LinesSound(x) /\ Stamped(x) /\ Cached(x) = Cached(c)
             /\ \A a \in Addrs : HitWays(x, a) = HitWays(c, a)
  <2>1. \A s \in SetIndices, w \in Ways :
          /\ x.sets[s][w].valid = c.sets[s][w].valid
          /\ x.sets[s][w].tag = c.sets[s][w].tag
    BY <1>1, <1>2, <1>5
  <2>2. ASSUME NEW s \in SetIndices, NEW w \in Ways
        PROVE  /\ c.policy = "LRU" =>
                    x.sets[s][w].time_stamp = c.sets[s][w].time_stamp
               /\ c.policy = "RRIP" => x.sets[s][w].time_stamp <= RripMax
    <3>1. CASE s = set
      BY <1>2, <1>5, <3>1
    <3>2. CASE s # set
      BY <1>5, <3>2 DEF Stamped
    <3> QED
      BY <3>1, <3>2
  <2>3. x.policy = c.policy /\ x.access_sequence = c.access_sequence
    BY <1>5 DEF SameWork
  <2> QED
    BY <2>1, <2>2, <2>3, SameLines, StampsKept, SMTT(30)
<1>6. ASSUME NEW x \in Cache, SamePlaces(c, x, who),
             x.sets[set] = found.lines, RequestAt(x, who).target = found.way
      PROVE  /\ TargetOf(x, who) = victim
             /\ RequestAt(x, who).block = request.block
             /\ SetIndex(RequestAt(x, who).block) = set
  <2>1. RequestAt(x, who).block = request.block
    BY <1>6 DEF SamePlaces, SameRequest
  <2> QED
    BY <1>6, <2>1 DEF TargetOf
<1>7. CASE ~victim.valid
  <2>1. d = fetch(fetching, who)
    BY <1>3, <1>7
  <2>2. /\ fetching \in Cache /\ SameWork(c, fetching)
        /\ SamePlaces(c, fetching, who)
        /\ RequestAt(fetching, who).target = found.way
        /\ fetching.sets[set] = found.lines
        /\ \A s \in SetIndices \ {set} : fetching.sets[s] = c.sets[s]
        /\ ~fetching.exited
    BY <1>1, <1>4 DEF Request
  <2>3. Present(fetching, who) /\ RequestAt(fetching, who).block = request.block
    BY <2>2 DEF SamePlaces, SameRequest
  <2> HIDE DEF fetching, request, set
  <2>4. /\ d \in Cache /\ SameWork(fetching, d) /\ SamePlaces(fetching, d, who)
        /\ RequestAt(fetching, who) \in Request
        /\ RequestAt(d, who)
             = [RequestAt(fetching, who) EXCEPT !.status = "WAITING_DATA"]
        /\ d.sets = fetching.sets
        /\ d.call = [op |-> "permReq", addr |-> request.block]
        /\ request.block \in Addrs
        /\ Granted(request.block) => d.exited
        /\ ~Granted(request.block) => d.exited = fetching.exited
    BY <2>1, <2>2, <2>3, Fetched
  <2>5. SameWork(c, d) /\ SamePlaces(c, d, who)
    BY <2>2, <2>4 DEF SameWork, SamePlaces, SameRequest
  <2>6. /\ RequestAt(d, who) \in Request
        /\ RequestAt(d, who).status = "WAITING_DATA"
        /\ RequestAt(d, who).target = found.way
    BY <2>2, <2>4 DEF Request, Statuses
  <2>7. /\ LinesSound(d) /\ Stamped(d) /\ Cached(d) = Cached(c)
        /\ \A a \in Addrs : HitWays(d, a) = HitWays(c, a)
    BY <1>5, <2>2, <2>4, <2>5
  <2>8. ~TargetOf(d, who).valid /\ RequestAt(d, who).block = request.block
    BY <1>6, <1>7, <2>2, <2>4, <2>5, <2>6 DEF request, set
  <2>9. CASE Granted(request.block)
    <3>1. request.block \in InState("MODIFIED") /\ request.block \in Cached(d)
      BY <2>4, <2>7, <2>9, GrantedIs
    <3>2. HitWays(d, request.block) # {}
      BY <3>1 DEF Cached
    <3>3. Fails(d, who)
      BY <2>4, <2>6, <2>8, <2>9, <3>1, <3>2 DEF Fails
    <3> QED
      BY <1>2, <2>4, <2>5, <2>6, <2>7, <3>3 DEF d
  <2>10. CASE ~Granted(request.block)
    <3>1. HitWays(d, request.block) = {}
      BY <2>4, <2>7, <2>10, GrantedIs DEF Cached
    <3>2. Fetches(d, who)
      BY <2>2, <2>4, <2>6, <2>8, <2>10, <3>1 DEF Fetches
    <3> QED
      BY <1>2, <2>4, <2>5, <2>6, <2>7, <3>2 DEF d
  <2> QED
    BY <2>9, <2>10
<1>8. CASE victim.valid
  <2>1. victim.tag \in Addrs /\ victim.tag \in Cached(c)
    <3>1. /\ c.sets[set][found.way].valid
          /\ victim.tag = c.sets[set][found.way].tag
      BY <1>2, <1>8
    <3>2. victim.tag \in Addrs
      BY <1>1, <1>2, <3>1 DEF LinesSound
    <3> QED
      BY <1>1, <1>2, <3>1, <3>2, CachedIs
  <2>2. Owned(victim.tag)
    BY <2>1, GrantedIs
  <2> DEFINE call == [op |-> "invlReq", addr |-> victim.tag]
  <2>3. d = [evicting EXCEPT !.call = call]
    BY <1>3, <1>8, <2>2
  <2>4. /\ evicting \in Cache /\ SameWork(c, evicting)
        /\ SamePlaces(c, evicting, who)
        /\ RequestAt(evicting, who) \in Request
        /\ RequestAt(evicting, who).target = found.way
        /\ RequestAt(evicting, who).status = "WAITING_EVICTION"
        /\ RequestAt(evicting, who).victim_address = victim.tag
        /\ evicting.sets[set] = found.lines
        /\ \A s \in SetIndices \ {set} : evicting.sets[s] = c.sets[s]
        /\ ~evicting.exited
    BY <1>4, <2>1 DEF Statuses
  <2>5. call \in Call
    BY <2>1 DEF Call
  <2> HIDE DEF evicting, request, set, call
  <2>6. d \in Cache /\ d.call = call /\ d = [evicting EXCEPT !.call = d.call]
    BY <2>3, <2>4, <2>5, Called
  <2>7. /\ d.policy = evicting.policy
        /\ d.write_buffer_mode = evicting.write_buffer_mode
        /\ d.queue = evicting.queue /\ d.completion = evicting.completion
        /\ d.request_queue = evicting.request_queue /\ d.sets = evicting.sets
        /\ d.access_sequence = evicting.access_sequence
        /\ d.notified = evicting.notified
        /\ d.active = evicting.active /\ d.write_buffer = evicting.write_buffer
        /\ d.exited = evicting.exited
    BY <2>4, <2>6 DEF Cache
  <2>8. /\ SameWork(c, d) /\ SamePlaces(c, d, who)
        /\ RequestAt(d, who) = RequestAt(evicting, who)
    BY <2>4, <2>7 DEF SameWork, SamePlaces, SameRequest, RequestAt, Present
  <2>9. /\ LinesSound(d) /\ Stamped(d) /\ Cached(d) = Cached(c)
        /\ \A a \in Addrs : HitWays(d, a) = HitWays(c, a)
    BY <1>5, <2>4, <2>6, <2>7, <2>8
  <2>10. TargetOf(d, who) = victim
    BY <1>6, <2>4, <2>6, <2>7, <2>8
  <2>11. Evicts(d, who)
    BY <1>8, <2>4, <2>6, <2>7, <2>8, <2>10 DEF Evicts, call
  <2> QED
    BY <1>2, <2>4, <2>6, <2>8, <2>9, <2>11 DEF d
<1> QED
  BY <1>7, <1>8

-----------------------------------------------------------------------------
(***************************************************************************)
(* What an entry of the cache leaves, before its call has reached          *)
(* coherence: flushed are the blocks whose write-backs it awaited.         *)
(***************************************************************************)

\* Coherence and the cache agree about the blocks it uses and awaits.
Agrees(c, flushed) ==
  /\ Usable(c) = InState("MODIFIED")
  /\ DataAwaited(c) = InState("INVALID_MODIFIED")
  /\ FlushAwaited(c) = flushed

\* No call.
Rests(d, flushed) ==
  d.call = NULL /\ ~d.exited /\ ~Unnotified(d) /\ Agrees(d, flushed)

\* The cache, which awaited nothing, asks for block a.
Asks(d, a) ==
  /\ ~d.exited /\ d.call = [op |-> "permReq", addr |-> a]
  /\ a \notin InState("MODIFIED") /\ InState("INVALID_MODIFIED") = {}
  /\ Usable(d) = InState("MODIFIED")
  /\ DataAwaited(d) = {a} /\ FlushAwaited(d) = {}

\* It gives block a up.
GivesUp(d, a) ==
  /\ ~d.exited /\ d.call = [op |-> "invlReq", addr |-> a]
  /\ a \in InState("MODIFIED") /\ InState("INVALID_MODIFIED") = {}
  /\ Usable(d) = InState("MODIFIED") \ {a}
  /\ DataAwaited(d) = {} /\ FlushAwaited(d) = {a}

\* The program is over; a block that it asked for it had.
Exits(d, flushed) ==
  /\ d.exited /\ FlushAwaited(d) = flushed
  /\ \/ d.call = NULL
     \/ \E a \in InState("MODIFIED") : d.call = [op |-> "permReq", addr |-> a]

\* What an entry can leave.
Leaves(d, flushed) ==
  \/ Rests(d, flushed)
  \/ Exits(d, flushed)
  \/ flushed = {} /\ \E a \in Addrs : Asks(d, a) \/ GivesUp(d, a)

\* The count depends on the requests' names only.
LEMMA CountKept ==
  ASSUME NEW c \in Cache, NEW d \in Cache, NEW who \in Places,
         Present(c, who), SamePlaces(c, d, who),
         d.queue = c.queue, d.completion = c.completion
  PROVE  /\ CountInv(c) => CountInv(d)
         /\ Unnotified(d) <=> Unnotified(c)
<1>1. CASE who = "active"
  BY <1>1 DEF CountInv, Counted, Unnotified, SamePlaces, SameRequest,
              Present, RequestAt
<1>2. CASE who = "write_buffer"
  BY <1>2 DEF CountInv, Counted, Unnotified, SamePlaces, SameRequest,
              Present, RequestAt
<1> QED
  BY <1>1, <1>2 DEF Places

\* Who awaits something, when there is one request only.
LEMMA OneAwaits ==
  ASSUME NEW d, NEW who \in Places, Present(d, who),
         \A other \in Places \ {who} : ~Present(d, other), NEW status
  PROVE  /\ RequestAt(d, who).status = status => Awaiting(d, status) = {who}
         /\ RequestAt(d, who).status # status => Awaiting(d, status) = {}
BY DEF Awaiting

\* A miss that begins with nothing outstanding leaves a call, or the end.
LEMMA PrepareLeaves ==
  ASSUME NEW c \in Cache, LinesSound(c), Stamped(c), CountInv(c),
         RequestsFit(c), ~c.exited, NEW who \in Places, Present(c, who),
         \A other \in Places \ {who} : ~Present(c, other),
         InState("MODIFIED") = Cached(c), InState("INVALID_MODIFIED") = {},
         c.write_buffer_mode = 0 => HitWays(c, RequestAt(c, who).block) = {},
         who = "write_buffer" => /\ c.write_buffer_mode = 1
                                 /\ ~c.write_buffer.data_complete
  PROVE  LET d == cache_eviction_prepare(c, who)
         IN CacheInv(d) /\ Leaves(d, {}) /\ SameWork(c, d)
<1> DEFINE d == cache_eviction_prepare(c, who)
           r == RequestAt(d, who)
<1>1. /\ d \in Cache /\ SameWork(c, d) /\ SamePlaces(c, d, who)
      /\ LinesSound(d) /\ Stamped(d) /\ Cached(d) = Cached(c)
      /\ \A a \in Addrs : HitWays(d, a) = HitWays(c, a)
      /\ r \in Request /\ r.target \in Ways
      /\ Evicts(d, who) \/ Fetches(d, who) \/ Fails(d, who)
  BY Prepared
<1> HIDE DEF d, r
<1>2. /\ r.block = RequestAt(c, who).block /\ r.block \in Addrs
      /\ Present(d, who)
      /\ \A other \in Places \ {who} : ~Present(d, other)
  BY <1>1 DEF SamePlaces, SameRequest, Request, Present, Places, r
<1>3. CountInv(d) /\ RequestsFit(d) /\ d.write_buffer_mode = c.write_buffer_mode
  BY <1>1, CountKept DEF SameWork, RequestsFit
<1>4. r.status \in {"WAITING_EVICTION", "WAITING_DATA"}
  BY <1>1 DEF Evicts, Fetches, Fails, r
<1>5. BufferInv(d) /\ PlaceInv(d)
  <2>1. CASE who = "active"
    <3>1. d.write_buffer = NULL /\ d.active = r
      BY <1>2, <2>1 DEF Present, Places, RequestAt, r
    <3> QED
      BY <1>4, <3>1 DEF BufferInv, PlaceInv
  <2>2. CASE who = "write_buffer"
    <3>1. d.active = NULL /\ d.write_buffer.request = r
          /\ d.write_buffer.data_complete = c.write_buffer.data_complete
      BY <1>1, <1>2, <2>2 DEF Present, Places, RequestAt, SamePlaces, r
    <3> QED
      BY <1>3, <1>4, <2>2, <3>1 DEF BufferInv, PlaceInv
  <2> QED
    BY <2>1, <2>2 DEF Places
<1>6. c.write_buffer_mode = 0 => HitWays(d, r.block) = {}
  BY <1>1, <1>2
<1>7. CASE Evicts(d, who)
  <2>1. /\ ~d.exited /\ r.status = "WAITING_EVICTION"
        /\ TargetOf(d, who).valid /\ TargetOf(d, who).tag = r.victim_address
        /\ d.call = [op |-> "invlReq", addr |-> r.victim_address]
    BY <1>7 DEF Evicts, r
  <2>2. /\ Awaiting(d, "WAITING_EVICTION") = {who}
        /\ Awaiting(d, "WAITING_DATA") = {}
    BY <1>2, <2>1, OneAwaits DEF r
  <2>3. EvictionsAimed(d) /\ FetchesAimed(d) /\ ExitInv(d)
    BY <1>1, <1>3, <1>6, <2>1, <2>2 DEF EvictionsAimed, FetchesAimed, ExitInv, r
  <2>4. /\ r.victim_address \in Cached(d)
        /\ Usable(d) = Cached(d) \ {r.victim_address}
        /\ FlushAwaited(d) = {r.victim_address}
    BY <1>1, <1>2, <2>1, <2>2, OneEvicted DEF r
  <2>5. DataAwaited(d) = {}
    BY <2>2 DEF DataAwaited
  <2>6. GivesUp(d, r.victim_address) /\ r.victim_address \in Addrs
    BY <1>1, <2>1, <2>4, <2>5 DEF GivesUp, Cached
  <2>7. Leaves(d, {})
    BY <2>6 DEF Leaves
  <2> QED
    BY <1>1, <1>3, <1>5, <2>3, <2>7 DEF CacheInv, d
<1>8. CASE Fetches(d, who) \/ Fails(d, who)
  <2>1. /\ r.status = "WAITING_DATA"
        /\ d.call = [op |-> "permReq", addr |-> r.block]
    BY <1>8 DEF Fetches, Fails, r
  <2>2. /\ Awaiting(d, "WAITING_EVICTION") = {}
        /\ Awaiting(d, "WAITING_DATA") = {who}
    BY <1>2, <2>1, OneAwaits DEF r
  <2>3. Usable(d) = Cached(d)
    BY <1>1, <2>2, NoneEvicted
  <2>4. DataAwaited(d) = {r.block} /\ FlushAwaited(d) = {}
    BY <2>2 DEF DataAwaited, FlushAwaited, r
  <2>5. EvictionsAimed(d)
    BY <2>2 DEF EvictionsAimed
  <2>6. CASE Fetches(d, who)
    <3>1. ~d.exited /\ ~TargetOf(d, who).valid /\ HitWays(d, r.block) = {}
      BY <2>6 DEF Fetches, r
    <3>2. FetchesAimed(d) /\ ExitInv(d)
      BY <1>1, <2>2, <3>1 DEF FetchesAimed, ExitInv, r
    <3>3. Asks(d, r.block)
      BY <1>1, <2>1, <2>3, <2>4, <3>1 DEF Asks, Cached
    <3>4. Leaves(d, {})
      BY <1>2, <3>3 DEF Leaves
    <3> QED
      BY <1>1, <1>3, <1>5, <2>5, <3>2, <3>4 DEF CacheInv, d
  <2>7. CASE Fails(d, who)
    <3>1. /\ d.exited /\ r.block \in InState("MODIFIED")
          /\ HitWays(d, r.block) # {}
      BY <2>7 DEF Fails, r
    <3>2. ExitInv(d)
      BY <1>3, <1>6, <3>1 DEF ExitInv
    <3>3. Leaves(d, {})
      BY <2>1, <2>4, <3>1 DEF Leaves, Exits
    <3> QED
      BY <1>1, <1>3, <1>5, <2>5, <3>1, <3>2, <3>3 DEF CacheInv, d
  <2> QED
    BY <1>8, <2>6, <2>7
<1> QED
  BY <1>1, <1>7, <1>8

\* start_miss, when the write buffer is free.
LEMMA MissStarts ==
  ASSUME NEW c \in Cache, LinesSound(c), Stamped(c), CountInv(c),
         RequestsFit(c), ~c.exited, c.active # NULL, c.write_buffer = NULL,
         InState("MODIFIED") = Cached(c), InState("INVALID_MODIFIED") = {},
         c.write_buffer_mode = 0 => HitWays(c, c.active.block) = {}
  PROVE  LET d == start_miss(c)
         IN CacheInv(d) /\ Leaves(d, {}) /\ SameWork(c, d)
<1>1. CASE cache_write_buffer_eligible(c)
  <2> DEFINE buffer == [request |-> c.active, processor_notified |-> FALSE,
                        data_complete |-> FALSE]
             e == cache_write_buffer_adopt(c)
  <2>1. /\ c.write_buffer_mode = 1 /\ c.active \in Request
        /\ c.completion.total = 1
    BY <1>1 DEF cache_write_buffer_eligible, Cache
  <2>2. /\ buffer \in WriteBuffer /\ buffer.request = c.active
        /\ buffer.processor_notified = FALSE /\ buffer.data_complete = FALSE
    BY <2>1 DEF WriteBuffer
  <2>3. e = [c EXCEPT !.write_buffer = buffer, !.active = NULL]
    BY DEF cache_write_buffer_adopt
  <2> HIDE DEF buffer, e
  <2>4. e \in Cache
    BY <2>2, <2>3, ZenonT(40) DEF Cache
  <2>5. /\ e.policy = c.policy /\ e.write_buffer_mode = c.write_buffer_mode
        /\ e.queue = c.queue /\ e.completion = c.completion
        /\ e.request_queue = c.request_queue /\ e.sets = c.sets
        /\ e.access_sequence = c.access_sequence /\ e.notified = c.notified
        /\ e.active = NULL /\ e.write_buffer = buffer
        /\ e.exited = c.exited
    BY <2>3, <2>4 DEF Cache
  <2>6. buffer # NULL
    BY <2>2, TeamNullAssumption
  <2>7. /\ LinesSound(e) /\ Cached(e) = Cached(c) /\ Stamped(e)
        /\ RequestsFit(e)
    BY <2>5 DEF LinesSound, Cached, HitWays, Stamped, RequestsFit
  <2>8. CountInv(e)
    BY <2>1, <2>2, <2>5, <2>6 DEF CountInv, Counted, Unnotified
  <2>9. /\ Present(e, "write_buffer")
        /\ \A other \in Places \ {"write_buffer"} : ~Present(e, other)
    BY <2>5, <2>6 DEF Present, Places
  <2> DEFINE d == cache_eviction_prepare(e, "write_buffer")
  <2>10. CacheInv(d) /\ Leaves(d, {}) /\ SameWork(e, d)
    <3>1. "write_buffer" \in Places
      BY DEF Places
    <3>2. e.write_buffer_mode = 1 /\ ~e.write_buffer.data_complete
      BY <2>1, <2>2, <2>5
    <3> QED
      BY <2>4, <2>5, <2>7, <2>8, <2>9, <3>1, <3>2, PrepareLeaves
  <2>11. start_miss(c) = d
    BY <1>1 DEF start_miss, e
  <2> HIDE DEF d
  <2> QED
    BY <2>5, <2>10, <2>11 DEF SameWork
<1>2. CASE ~cache_write_buffer_eligible(c)
  <2>1. start_miss(c) = cache_eviction_prepare(c, "active")
    BY <1>2 DEF start_miss
  <2>2. /\ "active" \in Places /\ Present(c, "active")
        /\ \A other \in Places \ {"active"} : ~Present(c, other)
        /\ RequestAt(c, "active") = c.active
    BY DEF Places, Present, RequestAt
  <2> QED
    BY <2>1, <2>2, PrepareLeaves
<1> QED
  BY <1>1, <1>2

-----------------------------------------------------------------------------
(***************************************************************************)
(* The next block and the next request.                                    *)
(***************************************************************************)

\* The lines have the blocks they had.
LinesStay(c, d) ==
  \A s \in SetIndices, w \in Ways : /\ d.sets[s][w].valid = c.sets[s][w].valid
                                    /\ d.sets[s][w].tag = c.sets[s][w].tag

\* The requests that wait for write-backs, or for blocks, are those that did.
StillAwaiting(c, d, status) ==
  /\ Awaiting(d, status) = Awaiting(c, status)
  /\ \A who \in Awaiting(c, status) : RequestAt(d, who) = RequestAt(c, who)

\* Evictions go on while lines keep their blocks.
LEMMA SameEvictions ==
  ASSUME NEW c \in Cache, NEW d \in Cache,
         \A s \in SetIndices, w \in Ways :
           /\ d.sets[s][w].valid = c.sets[s][w].valid
           /\ c.sets[s][w].valid => d.sets[s][w].tag = c.sets[s][w].tag,
         d.write_buffer_mode = c.write_buffer_mode,
         StillAwaiting(c, d, "WAITING_EVICTION"),
         \A who \in Places :
           Present(c, who) => RequestAt(c, who).block \in Addrs
  PROVE  /\ Usable(d) = Usable(c)
         /\ FlushAwaited(d) = FlushAwaited(c)
         /\ EvictionsAimed(c) => EvictionsAimed(d)
<1>1. \A s \in SetIndices, w \in Ways : Evicting(d, s, w) <=> Evicting(c, s, w)
  BY DEF Evicting, StillAwaiting
<1>2. Usable(d) = Usable(c)
  BY <1>1 DEF Usable
<1>3. FlushAwaited(d) = FlushAwaited(c)
  BY DEF FlushAwaited, StillAwaiting
<1>4. ASSUME EvictionsAimed(c), NEW who \in Awaiting(d, "WAITING_EVICTION")
      PROVE  /\ RequestAt(d, who).target \in Ways
             /\ TargetOf(d, who).valid
             /\ TargetOf(d, who).tag = RequestAt(d, who).victim_address
             /\ d.write_buffer_mode = 0 =>
                  HitWays(d, RequestAt(d, who).block) = {}
  <2>1. /\ who \in Awaiting(c, "WAITING_EVICTION")
        /\ RequestAt(d, who) = RequestAt(c, who)
        /\ RequestAt(c, who).block \in Addrs
    BY DEF StillAwaiting, Awaiting
  <2>2. SetIndex(RequestAt(c, who).block) \in SetIndices
        /\ RequestAt(c, who).target \in Ways
    BY <1>4, <2>1, SetIndexIn DEF EvictionsAimed
  <2>3. /\ TargetOf(d, who).valid = TargetOf(c, who).valid
        /\ TargetOf(c, who).valid => TargetOf(d, who).tag = TargetOf(c, who).tag
    BY <2>1, <2>2 DEF TargetOf
  <2>4. HitWays(d, RequestAt(c, who).block)
          = HitWays(c, RequestAt(c, who).block)
    BY <2>1, <2>2 DEF HitWays
  <2> QED
    BY <1>4, <2>1, <2>2, <2>3, <2>4 DEF EvictionsAimed
<1>5. EvictionsAimed(c) => EvictionsAimed(d)
  BY <1>4 DEF EvictionsAimed
<1> QED
  BY <1>2, <1>3, <1>5

\* So do fetches.
LEMMA SameFetches ==
  ASSUME NEW c \in Cache, NEW d \in Cache, LinesStay(c, d),
         StillAwaiting(c, d, "WAITING_DATA"),
         \A who \in Places :
           Present(c, who) => RequestAt(c, who).block \in Addrs
  PROVE  /\ DataAwaited(d) = DataAwaited(c)
         /\ FetchesAimed(c) => FetchesAimed(d)
<1>1. DataAwaited(d) = DataAwaited(c)
  BY DEF DataAwaited, StillAwaiting
<1>2. ASSUME FetchesAimed(c), NEW who \in Awaiting(d, "WAITING_DATA")
      PROVE  /\ RequestAt(d, who).target \in Ways
             /\ ~TargetOf(d, who).valid
             /\ HitWays(d, RequestAt(d, who).block) = {}
  <2>1. /\ who \in Awaiting(c, "WAITING_DATA")
        /\ RequestAt(d, who) = RequestAt(c, who)
        /\ RequestAt(c, who).block \in Addrs
    BY DEF StillAwaiting, Awaiting
  <2>2. SetIndex(RequestAt(c, who).block) \in SetIndices
        /\ RequestAt(c, who).target \in Ways
    BY <1>2, <2>1, SetIndexIn DEF FetchesAimed
  <2>3. TargetOf(d, who).valid = TargetOf(c, who).valid
    BY <2>1, <2>2 DEF TargetOf, LinesStay
  <2>4. HitWays(d, RequestAt(c, who).block)
          = HitWays(c, RequestAt(c, who).block)
    BY <2>1, <2>2 DEF HitWays, LinesStay
  <2> QED
    BY <1>2, <2>1, <2>2, <2>3, <2>4 DEF FetchesAimed
<1>3. FetchesAimed(c) => FetchesAimed(d)
  BY <1>2 DEF FetchesAimed
<1> QED
  BY <1>1, <1>3

\* A request is for a block.
LEMMA BlocksIn ==
  ASSUME NEW c \in Cache, NEW who \in Places, Present(c, who)
  PROVE  RequestAt(c, who) \in Request /\ RequestAt(c, who).block \in Addrs
BY DEF RequestAt, Present, Cache, WriteBuffer, Places, Request

\* The current request's next block, with the count it is in.
Ahead(c) ==
  /\ c.completion # NULL /\ c.queue # <<>>
  /\ c.completion.completed + Len(c.queue) = c.completion.total
  /\ \A i \in 1 .. Len(c.queue) :
       /\ c.queue[i].tag = c.completion.tag
       /\ c.queue[i].block_index = c.completion.completed + i - 1

\* A request taken from the queue is the active one.
LEMMA BlockTaken ==
  ASSUME NEW c \in Cache, c.active = NULL, ~Unnotified(c), Ahead(c),
         NEW status \in Statuses
  PROVE  LET request == [Head(c.queue) EXCEPT !.status = status]
             d == [c EXCEPT !.active = request, !.queue = Tail(@)]
         IN /\ request \in Request /\ request.status = status
            /\ request # NULL
            /\ d \in Cache /\ CountInv(d)
            /\ d.active = request /\ d.policy = c.policy
            /\ d.write_buffer_mode = c.write_buffer_mode
            /\ d.sets = c.sets /\ d.completion = c.completion
            /\ d.request_queue = c.request_queue
            /\ d.write_buffer = c.write_buffer
            /\ d.access_sequence = c.access_sequence
            /\ d.call = c.call /\ d.notified = c.notified
            /\ d.exited = c.exited
<1> DEFINE request == [Head(c.queue) EXCEPT !.status = status]
           rest == Tail(c.queue)
           d == [c EXCEPT !.active = request, !.queue = rest]
<1>1. c.queue \in Seq(Request) /\ c.queue # <<>> /\ c.completion \in Completion
  BY DEF Cache, Ahead
<1>2. /\ Head(c.queue) \in Request /\ Head(c.queue) = c.queue[1]
      /\ rest \in Seq(Request) /\ Len(c.queue) \in Nat \ {0}
      /\ Len(rest) = Len(c.queue) - 1
      /\ \A i \in 1 .. Len(rest) : rest[i] = c.queue[i + 1]
  BY <1>1
<1>3. /\ request \in Request /\ request.status = status
      /\ request.tag = c.queue[1].tag
      /\ request.block_index = c.queue[1].block_index
  BY <1>2 DEF Request
<1> HIDE DEF request, rest
<1>4. d \in Cache
  BY <1>2, <1>3 DEF Cache
<1>5. /\ d.active = request /\ d.queue = rest /\ d.policy = c.policy
      /\ d.write_buffer_mode = c.write_buffer_mode
      /\ d.sets = c.sets /\ d.completion = c.completion
      /\ d.request_queue = c.request_queue /\ d.write_buffer = c.write_buffer
      /\ d.access_sequence = c.access_sequence
      /\ d.call = c.call /\ d.notified = c.notified /\ d.exited = c.exited
  BY DEF Cache
<1> HIDE DEF d
<1>6. request # NULL
  BY <1>3, TeamNullAssumption
<1>7. c.completion.completed \in Nat /\ c.completion.total \in Nat
  BY <1>1 DEF Completion
<1>8. Counted(d)
  <2>1. ASSUME NEW i \in 1 .. Len(rest)
        PROVE  /\ rest[i].tag = c.completion.tag
               /\ rest[i].block_index = c.completion.completed + i
    <3>1. i + 1 \in 1 .. Len(c.queue) /\ rest[i] = c.queue[i + 1]
      BY <1>2
    <3>2. /\ c.queue[i + 1].tag = c.completion.tag
          /\ c.queue[i + 1].block_index = c.completion.completed + (i + 1) - 1
      BY <3>1 DEF Ahead
    <3> QED
      BY <1>7, <3>1, <3>2
  <2>2. c.completion.completed + 1 + Len(rest) = c.completion.total
    <3>1. c.completion.completed + Len(c.queue) = c.completion.total
      BY DEF Ahead
    <3>2. Len(c.queue) \in Nat /\ Len(rest) = Len(c.queue) - 1
      BY <1>2
    <3> QED
      BY <1>7, <3>1, <3>2
  <2> QED
    BY <1>5, <2>1, <2>2 DEF Counted
<1>9. CountInv(d)
  <2>1. /\ request.tag = c.completion.tag
        /\ request.block_index = c.completion.completed
    <3>1. 1 \in 1 .. Len(c.queue)
      BY <1>2
    <3>2. /\ c.queue[1].tag = c.completion.tag
          /\ c.queue[1].block_index = c.completion.completed + 1 - 1
      BY <3>1 DEF Ahead
    <3> QED
      BY <1>3, <1>7, <3>2
  <2>2. ~Unnotified(d) /\ c.completion # NULL
    BY <1>5 DEF Unnotified, Ahead
  <2> QED
    BY <1>5, <1>6, <1>8, <2>1, <2>2 DEF CountInv
<1> QED
  BY <1>3, <1>4, <1>5, <1>6, <1>9 DEF d, request, rest

\* start_next_block
LEMMA BlockStarts ==
  ASSUME NEW c \in Cache, LinesSound(c), Stamped(c), RequestsFit(c),
         BufferInv(c), EvictionsAimed(c), FetchesAimed(c),
         c.call = NULL, ~c.exited, c.active = NULL, ~Unnotified(c), Ahead(c),
         NEW flushed, Agrees(c, flushed)
  PROVE  LET d == start_next_block(c)
         IN /\ CacheInv(d) /\ Leaves(d, flushed)
            /\ d.completion = c.completion /\ d.request_queue = c.request_queue
            /\ d.notified = c.notified /\ SameOptions(c, d)
<1> DEFINE request == [Head(c.queue) EXCEPT !.status = "WAITING_DATA"]
           taken == [c EXCEPT !.active = request, !.queue = Tail(@)]
           set == SetIndex(request.block)
           hits == HitWays(c, request.block)
           way == FirstWay(hits)
           d == start_next_block(c)
<1>1. /\ request \in Request /\ request.status = "WAITING_DATA"
      /\ request # NULL
      /\ taken \in Cache /\ CountInv(taken)
      /\ taken.active = request /\ taken.policy = c.policy
      /\ taken.write_buffer_mode = c.write_buffer_mode
      /\ taken.sets = c.sets /\ taken.completion = c.completion
      /\ taken.request_queue = c.request_queue
      /\ taken.write_buffer = c.write_buffer
      /\ taken.access_sequence = c.access_sequence
      /\ taken.call = c.call /\ taken.notified = c.notified
      /\ taken.exited = c.exited
  <2>1. "WAITING_DATA" \in Statuses
    BY DEF Statuses
  <2> QED
    BY <2>1, BlockTaken
<1>2. d = CASE hits = {} -> start_miss(taken)
            [] hits # {} /\ Exhausted(c.policy, c.access_sequence) ->
                 fail(taken)
            [] hits # {} /\ ~Exhausted(c.policy, c.access_sequence) ->
                 Touch([taken EXCEPT !.active.status = "READY"], set, way,
                       HitStamp(c.policy, c.access_sequence),
                       c.sets[set][way].dirty \/ request.op = "STORE")
  BY DEF start_next_block
<1>3. request.block \in Addrs /\ set \in SetIndices
  <2>1. request.block \in Addrs
    BY <1>1 DEF Request
  <2> QED
    BY <2>1, SetIndexIn
<1> HIDE DEF request, taken, d
<1>4. /\ LinesSound(taken) /\ Stamped(taken) /\ RequestsFit(taken)
      /\ Cached(taken) = Cached(c) /\ BufferInv(taken)
      /\ HitWays(taken, request.block) = hits
  BY <1>1 DEF LinesSound, Stamped, RequestsFit, Cached, HitWays, BufferInv
<1>5. \A who \in Places : Present(c, who) => RequestAt(c, who).block \in Addrs
  BY BlocksIn
<1>6. ASSUME NEW e \in Cache, e.write_buffer = c.write_buffer,
             NEW status, e.active # NULL => e.active.status # status
      PROVE  StillAwaiting(c, e, status)
  <2>1. \A who \in Places : who = "write_buffer" \/ who = "active"
    BY DEF Places
  <2> QED
    BY <1>6, <2>1 DEF StillAwaiting, Awaiting, Present, RequestAt
<1>7. ASSUME NEW e \in Cache, CountInv(e), LinesSound(e), Stamped(e),
             RequestsFit(e), BufferInv(e), LinesStay(c, e),
             e.write_buffer = c.write_buffer,
             e.write_buffer_mode = c.write_buffer_mode,
             e.call = NULL, ~e.exited, e.active # NULL,
             e.active.status \in {"READY", "WAITING_BUFFER"},
             e.active.status = "WAITING_BUFFER" => e.write_buffer # NULL
      PROVE  CacheInv(e) /\ Leaves(e, flushed)
  <2>1. /\ StillAwaiting(c, e, "WAITING_EVICTION")
        /\ StillAwaiting(c, e, "WAITING_DATA")
    BY <1>6, <1>7
  <2>2. /\ Usable(e) = Usable(c) /\ FlushAwaited(e) = FlushAwaited(c)
        /\ EvictionsAimed(e)
    BY <1>5, <1>7, <2>1, SameEvictions DEF LinesStay
  <2>3. DataAwaited(e) = DataAwaited(c) /\ FetchesAimed(e)
    BY <1>5, <1>7, <2>1, SameFetches
  <2>4. PlaceInv(e) /\ ExitInv(e) /\ ~Unnotified(e)
    BY <1>7 DEF PlaceInv, ExitInv, Unnotified
  <2>5. Rests(e, flushed)
    BY <1>7, <2>2, <2>3, <2>4 DEF Rests, Agrees
  <2> QED
    BY <1>7, <2>2, <2>3, <2>4, <2>5 DEF CacheInv, Leaves
<1>8. CASE hits = {}
  <2>1. d = start_miss(taken)
    BY <1>2, <1>8
  <2>2. CASE c.write_buffer # NULL
    <3> DEFINE waits == [request EXCEPT !.status = "WAITING_BUFFER"]
    <3>1. waits \in Request /\ waits.status = "WAITING_BUFFER"
          /\ waits.tag = request.tag /\ waits.block_index = request.block_index
      BY <1>1 DEF Request, Statuses
    <3>2. d = [taken EXCEPT !.active = waits]
      BY <1>1, <2>1, <2>2 DEF start_miss, Cache
    <3> HIDE DEF waits
    <3>3. d \in Cache
      BY <1>1, <3>1, <3>2 DEF Cache
    <3>4. /\ d.active = waits /\ d.policy = c.policy
          /\ d.write_buffer_mode = c.write_buffer_mode
          /\ d.sets = c.sets /\ d.completion = c.completion
          /\ d.request_queue = c.request_queue
          /\ d.write_buffer = c.write_buffer /\ d.queue = taken.queue
          /\ d.access_sequence = c.access_sequence
          /\ d.call = NULL /\ d.notified = c.notified /\ ~d.exited
      BY <1>1, <3>2 DEF Cache
    <3>5. d.active # NULL
      BY <3>1, <3>4, TeamNullAssumption
    <3>6. CountInv(d)
      BY <1>1, <3>1, <3>4, <3>5 DEF CountInv, Counted, Unnotified
    <3>7. /\ LinesSound(d) /\ Stamped(d) /\ RequestsFit(d) /\ BufferInv(d)
          /\ LinesStay(c, d)
      BY <3>4 DEF LinesSound, Stamped, RequestsFit, BufferInv, LinesStay
    <3>8. CacheInv(d) /\ Leaves(d, flushed)
      BY <1>7, <2>2, <3>1, <3>3, <3>4, <3>5, <3>6, <3>7
    <3> QED
      BY <3>4, <3>8 DEF d, SameOptions
  <2>3. CASE c.write_buffer = NULL
    <3>1. /\ Awaiting(c, "WAITING_EVICTION") = {}
          /\ Awaiting(c, "WAITING_DATA") = {}
      BY <2>3 DEF Awaiting, Places, Present
    <3>2. Usable(c) = Cached(c) /\ DataAwaited(c) = {} /\ FlushAwaited(c) = {}
      BY <3>1, NoneEvicted DEF DataAwaited, FlushAwaited
    <3>3. /\ InState("MODIFIED") = Cached(taken)
          /\ InState("INVALID_MODIFIED") = {} /\ flushed = {}
      BY <1>4, <3>2 DEF Agrees
    <3>4. HitWays(taken, taken.active.block) = {}
      BY <1>1, <1>4, <1>8
    <3>5. CacheInv(d) /\ Leaves(d, {}) /\ SameWork(taken, d)
      BY <1>1, <1>4, <2>1, <2>3, <3>3, <3>4, MissStarts
    <3> QED
      BY <1>1, <3>3, <3>5 DEF SameWork, SameOptions, d
  <2> QED
    BY <2>2, <2>3
<1>9. CASE hits # {} /\ Exhausted(c.policy, c.access_sequence)
  <2>1. d = [taken EXCEPT !.exited = TRUE]
    BY <1>2, <1>9 DEF fail
  <2>2. d \in Cache
    BY <1>1, <2>1 DEF Cache
  <2>3. /\ d.active = request /\ d.policy = c.policy
        /\ d.write_buffer_mode = c.write_buffer_mode
        /\ d.sets = c.sets /\ d.completion = c.completion
        /\ d.request_queue = c.request_queue
        /\ d.write_buffer = c.write_buffer /\ d.queue = taken.queue
        /\ d.access_sequence = c.access_sequence
        /\ d.call = NULL /\ d.notified = c.notified /\ d.exited
    BY <1>1, <2>1 DEF Cache
  <2>4. /\ CountInv(d) /\ LinesSound(d) /\ Stamped(d) /\ RequestsFit(d)
        /\ BufferInv(d) /\ LinesStay(c, d)
    BY <1>1, <1>4, <2>3
       DEF CountInv, Counted, Unnotified, LinesSound, Stamped, RequestsFit,
           BufferInv, LinesStay
  <2>5. StillAwaiting(c, d, "WAITING_EVICTION")
    BY <1>1, <1>6, <2>2, <2>3
  <2>6. FlushAwaited(d) = FlushAwaited(c) /\ EvictionsAimed(d)
    BY <1>5, <2>2, <2>3, <2>4, <2>5, SameEvictions DEF LinesStay
  <2>7. ExitInv(d)
    BY <1>9, <2>3 DEF ExitInv
  <2>8. Leaves(d, flushed)
    BY <2>3, <2>6 DEF Leaves, Exits, Agrees
  <2> QED
    BY <2>2, <2>3, <2>4, <2>6, <2>7, <2>8 DEF CacheInv, SameOptions, d
<1>10. CASE hits # {} /\ ~Exhausted(c.policy, c.access_sequence)
  <2> DEFINE ready == [request EXCEPT !.status = "READY"]
             e == [taken EXCEPT !.active = ready]
             stamp == HitStamp(c.policy, c.access_sequence)
             dirty == c.sets[set][way].dirty \/ request.op = "STORE"
  <2>1. ready \in Request /\ ready.status = "READY"
        /\ ready.tag = request.tag /\ ready.block_index = request.block_index
    BY <1>1 DEF Request, Statuses
  <2>2. e = [taken EXCEPT !.active.status = "READY"]
    BY <1>1 DEF Cache
  <2>3. d = Touch(e, set, way, stamp, dirty)
    BY <1>2, <1>10, <2>2
  <2>4. way \in Ways
    <3>1. hits \in SUBSET Ways
      BY DEF HitWays
    <3> HIDE DEF hits
    <3>2. way \in hits
      BY <1>10, <3>1, FirstWayIn
    <3> QED
      BY <3>1, <3>2
  <2>5. stamp \in Nat
    BY DEF HitStamp, Cache
  <2>6. dirty \in BOOLEAN
    OBVIOUS
  <2> HIDE DEF ready, stamp, dirty, way, set
  <2>7. e \in Cache
    BY <1>1, <2>1 DEF Cache
  <2>8. /\ e.active = ready /\ e.policy = c.policy
        /\ e.write_buffer_mode = c.write_buffer_mode
        /\ e.sets = c.sets /\ e.completion = c.completion
        /\ e.request_queue = c.request_queue
        /\ e.write_buffer = c.write_buffer /\ e.queue = taken.queue
        /\ e.access_sequence = c.access_sequence
        /\ e.call = NULL /\ e.notified = c.notified /\ ~e.exited
    BY <1>1 DEF Cache
  <2> HIDE DEF e
  <2>9. /\ d \in Cache
        /\ d.policy = e.policy /\ d.write_buffer_mode = e.write_buffer_mode
        /\ d.active = e.active /\ d.queue = e.queue
        /\ d.completion = e.completion /\ d.request_queue = e.request_queue
        /\ d.write_buffer = e.write_buffer
        /\ d.access_sequence = NextSequence(e.policy, e.access_sequence)
        /\ d.call = e.call /\ d.notified = e.notified /\ d.exited = e.exited
        /\ d.sets[set][way].time_stamp = stamp
        /\ \A s \in SetIndices, w \in Ways :
             /\ d.sets[s][w].valid = e.sets[s][w].valid
             /\ d.sets[s][w].tag = e.sets[s][w].tag
             /\ s # set \/ w # way => d.sets[s][w] = e.sets[s][w]
    <3>1. ~Exhausted(e.policy, e.access_sequence)
      BY <1>10, <2>8
    <3>2. set \in SetIndices
      BY <1>3
    <3> HIDE DEF d
    <3> QED
      BY <2>3, <2>4, <2>5, <2>6, <2>7, <3>1, <3>2, Touched
  <2>10. /\ d.active = ready /\ d.policy = c.policy
         /\ d.write_buffer_mode = c.write_buffer_mode
         /\ d.completion = c.completion
         /\ d.request_queue = c.request_queue
         /\ d.write_buffer = c.write_buffer /\ d.queue = taken.queue
         /\ d.access_sequence = NextSequence(c.policy, c.access_sequence)
         /\ d.call = NULL /\ d.notified = c.notified /\ ~d.exited
    BY <2>8, <2>9
  <2>11. d.active # NULL
    BY <2>1, <2>10, TeamNullAssumption
  <2>12. CountInv(d)
    BY <1>1, <2>1, <2>10, <2>11 DEF CountInv, Counted, Unnotified
  <2>13. LinesStay(c, d)
    BY <2>8, <2>9 DEF LinesStay
  <2>14. LinesSound(d)
    BY <2>9, <2>13, SameLines DEF LinesStay
  <2>15. Stamped(d)
    <3>1. /\ d.sets[set][way].time_stamp \in
               {HitStamp(c.policy, c.access_sequence),
                FillStamp(c.policy, c.access_sequence)}
          /\ \A s \in SetIndices, w \in Ways : s # set \/ w # way =>
               /\ d.sets[s][w].valid => c.sets[s][w].valid
               /\ d.sets[s][w].time_stamp = c.sets[s][w].time_stamp
      BY <2>8, <2>9 DEF stamp
    <3> QED
      BY <1>3, <1>10, <2>4, <2>9, <2>10, <3>1, StampRenewed DEF set
  <2>16. RequestsFit(d) /\ BufferInv(d)
    BY <2>10 DEF RequestsFit, BufferInv
  <2>17. CacheInv(d) /\ Leaves(d, flushed)
    BY <1>7, <2>1, <2>9, <2>10, <2>11, <2>12, <2>13, <2>14, <2>15, <2>16
  <2> QED
    BY <2>10, <2>17 DEF d, SameOptions
<1> QED
  BY <1>8, <1>9, <1>10

\* The blocks of a request, in the order in which they are counted.
LEMMA BlocksMade ==
  ASSUME NEW original \in Original,
         ~Refused(original.memAddress, original.size)
  PROVE  LET pieces == Pieces(original.memAddress, original.size)
             total == Total(original.memAddress, original.size)
             blocks == Blocks(original, pieces)
         IN /\ blocks \in Seq(Request) /\ Len(blocks) = total
            /\ total \in Nat \ {0}
            /\ \A i \in 1 .. total : /\ blocks[i].tag = original.tag
                                     /\ blocks[i].block_index = i - 1
<1> DEFINE pieces == Pieces(original.memAddress, original.size)
           total == Total(original.memAddress, original.size)
           blocks == Blocks(original, pieces)
<1>1. /\ original.memAddress \in 0 .. AddressMax /\ original.size \in Nat
      /\ original.tag \in Nat /\ original.op \in Ops
  BY DEF Original
<1>2. /\ total \in Nat \ {0}
      /\ pieces = [i \in 1 .. total |-> pieces[i]]
      /\ \A i \in 1 .. total :
           /\ pieces[i].block_index = i - 1
           /\ BlockNumber(pieces[i].memAddress) \in 0 .. BlockNumber(AddressMax)
  BY <1>1, PiecesInBlocks
<1> HIDE DEF pieces, total
<1>3. Len(pieces) = total
  BY <1>2
<1>4. blocks = [i \in 1 .. total |->
                  [tag |-> original.tag, op |-> original.op,
                   block |-> BlockNumber(pieces[i].memAddress),
                   block_index |-> pieces[i].block_index,
                   status |-> "QUEUED", target |-> NULL,
                   victim_address |-> NULL]]
  BY <1>3 DEF Blocks
<1> HIDE DEF blocks
<1>5. ASSUME NEW i \in 1 .. total
      PROVE  /\ blocks[i] \in Request /\ blocks[i].tag = original.tag
             /\ blocks[i].block_index = i - 1
  <2>1. BlockNumber(pieces[i].memAddress) \in Addrs
    BY <1>2, BlocksAssumption
  <2>2. pieces[i].block_index \in Nat /\ pieces[i].block_index = i - 1
    BY <1>2
  <2>3. "QUEUED" \in Statuses
    BY DEF Statuses
  <2> QED
    BY <1>1, <1>4, <2>1, <2>2, <2>3 DEF Request
<1>6. blocks \in [1 .. total -> Request]
  BY <1>4, <1>5
<1>7. blocks \in Seq(Request) /\ Len(blocks) = total
  BY <1>2, <1>6
<1> QED
  BY <1>2, <1>5, <1>7 DEF blocks, total, pieces

\* start_next_request
LEMMA RequestStarts ==
  ASSUME NEW c, CacheInv(c), ~c.exited, c.call = NULL, ~Unnotified(c),
         NEW flushed, Agrees(c, flushed)
  PROVE  LET d == start_next_request(c)
         IN /\ CacheInv(d) /\ Leaves(d, flushed) /\ d.notified = c.notified
            /\ SameOptions(c, d)
            /\ \A next \in Nat, last \in Nat :
                 OrderInv(c, next, last) => OrderInv(d, next, last)
<1> DEFINE d == start_next_request(c)
           original == Head(c.request_queue)
           address == original.memAddress
           size == original.size
           taken == [c EXCEPT !.request_queue = Tail(@)]
           total == Total(address, size)
           blocks == Blocks(original, Pieces(address, size))
           completion == [tag |-> original.tag, completed |-> 0,
                          total |-> total]
           split == cache_split_prepare(taken, original)
<1>1. c \in Cache
  BY DEF CacheInv
<1>2. CASE ~current_request_idle(c) \/ c.request_queue = <<>>
  <2>1. d = c
    BY <1>2 DEF start_next_request
  <2>2. Leaves(c, flushed)
    BY DEF Leaves, Rests
  <2> QED
    BY <2>1, <2>2 DEF SameOptions
<1>3. CASE current_request_idle(c) /\ c.request_queue # <<>>
  <2>1. c.active = NULL /\ c.completion = NULL /\ c.queue = <<>>
    BY <1>3 DEF current_request_idle
  <2>2. /\ c.request_queue \in Seq(Original) /\ c.request_queue # <<>>
    BY <1>1, <1>3 DEF Cache
  <2>3. /\ original \in Original /\ original = c.request_queue[1]
        /\ Tail(c.request_queue) \in Seq(Original)
        /\ Len(c.request_queue) \in Nat \ {0}
        /\ Len(Tail(c.request_queue)) = Len(c.request_queue) - 1
        /\ \A i \in 1 .. Len(Tail(c.request_queue)) :
             Tail(c.request_queue)[i] = c.request_queue[i + 1]
    BY <2>2
  <2>4. ~Refused(address, size)
    <3>1. 1 \in 1 .. Len(c.request_queue)
      BY <2>3
    <3> QED
      BY <2>3, <3>1 DEF CacheInv, RequestsFit
  <2>5. d = start_next_block(split)
    BY <1>3, <2>4 DEF start_next_request
  <2>6. /\ blocks \in Seq(Request) /\ Len(blocks) = total
        /\ total \in Nat \ {0}
        /\ \A i \in 1 .. total : /\ blocks[i].tag = original.tag
                                 /\ blocks[i].block_index = i - 1
    BY <2>3, <2>4, BlocksMade
  <2> DEFINE rest == Tail(c.request_queue)
  <2>7. split = [c EXCEPT !.request_queue = rest,
                          !.completion = completion, !.queue = blocks]
    BY <1>1 DEF cache_split_prepare, Cache
  <2> HIDE DEF split, rest, blocks, total
  <2>8. /\ completion \in Completion /\ completion.tag = original.tag
        /\ completion.completed = 0 /\ completion.total = total
    BY <2>3, <2>6 DEF Completion, Original
  <2> HIDE DEF completion, original
  <2>9. split \in Cache
    <3>1. /\ rest \in Seq(Original) /\ blocks \in Seq(Request)
          /\ completion \in Completion \cup {NULL}
      BY <2>3, <2>6, <2>8 DEF rest
    <3> QED
      BY <1>1, <2>7, <3>1, ZenonT(40) DEF Cache
  <2>10. /\ split.policy = c.policy
         /\ split.write_buffer_mode = c.write_buffer_mode
         /\ split.sets = c.sets /\ split.active = NULL
         /\ split.queue = blocks /\ split.completion = completion
         /\ split.request_queue = rest
         /\ split.write_buffer = c.write_buffer
         /\ split.access_sequence = c.access_sequence
         /\ split.call = NULL /\ split.notified = c.notified
         /\ ~split.exited
    BY <1>1, <2>1, <2>7 DEF Cache
  <2>11. completion # NULL
    BY <2>8, TeamNullAssumption
  <2>12. Ahead(split)
    <3>1. blocks # <<>>
      BY <2>6
    <3>2. ASSUME NEW i \in 1 .. total
          PROVE  blocks[i].block_index = 0 + i - 1
      BY <2>6
    <3>3. 0 + total = total
      BY <2>6
    <3> QED
      BY <2>6, <2>8, <2>10, <2>11, <3>1, <3>2, <3>3 DEF Ahead
  <2>13. /\ LinesSound(split) /\ Stamped(split) /\ BufferInv(split)
         /\ ~Unnotified(split)
    BY <2>10 DEF CacheInv, LinesSound, Stamped, BufferInv, Unnotified
  <2>14. RequestsFit(split)
    <3>1. ASSUME NEW i \in 1 .. Len(rest)
          PROVE  ~Refused(rest[i].memAddress, rest[i].size)
      <4>1. /\ i + 1 \in 1 .. Len(c.request_queue)
            /\ rest[i] = c.request_queue[i + 1]
        BY <2>3 DEF rest
      <4> QED
        BY <4>1 DEF CacheInv, RequestsFit
    <3> QED
      BY <2>10, <3>1 DEF RequestsFit
  <2>15. /\ \A status : StillAwaiting(c, split, status)
         /\ LinesStay(c, split)
         /\ \A who \in Places :
              Present(c, who) => RequestAt(c, who).block \in Addrs
    BY <1>1, <2>1, <2>10, BlocksIn
       DEF StillAwaiting, Awaiting, Present, RequestAt, LinesStay
  <2>16. /\ Usable(split) = Usable(c) /\ FlushAwaited(split) = FlushAwaited(c)
         /\ EvictionsAimed(split)
    BY <1>1, <2>9, <2>10, <2>15, SameEvictions DEF LinesStay, CacheInv
  <2>17. DataAwaited(split) = DataAwaited(c) /\ FetchesAimed(split)
    BY <1>1, <2>9, <2>15, SameFetches DEF CacheInv
  <2>18. Agrees(split, flushed)
    BY <2>16, <2>17 DEF Agrees
  <2>19. /\ CacheInv(d) /\ Leaves(d, flushed)
         /\ d.completion = completion /\ d.request_queue = rest
         /\ d.notified = c.notified /\ SameOptions(split, d)
    BY <2>5, <2>9, <2>10, <2>12, <2>13, <2>14, <2>16, <2>17, <2>18, BlockStarts
  <2>20. ASSUME NEW next \in Nat, NEW last \in Nat, OrderInv(c, next, last)
         PROVE  OrderInv(d, next, last)
    <3>1. /\ Len(c.request_queue) = last - next
          /\ \A i \in 1 .. Len(c.request_queue) :
               c.request_queue[i].tag = next + i - 1
      BY <2>1, <2>20 DEF OrderInv
    <3>2. completion.tag = next
      <4>1. 1 \in 1 .. Len(c.request_queue)
        BY <2>3
      <4> QED
        BY <2>3, <2>8, <3>1, <4>1
    <3>3. Len(rest) + 1 = last - next
      BY <2>3, <3>1 DEF rest
    <3>4. ASSUME NEW i \in 1 .. Len(rest) PROVE rest[i].tag = next + i
      <4>1. /\ i + 1 \in 1 .. Len(c.request_queue)
            /\ rest[i] = c.request_queue[i + 1]
        BY <2>3 DEF rest
      <4> QED
        BY <3>1, <4>1
    <3> QED
      BY <2>11, <2>19, <3>2, <3>3, <3>4 DEF OrderInv
  <2> QED
    BY <2>10, <2>19, <2>20 DEF SameOptions
<1> QED
  BY <1>2, <1>3

-----------------------------------------------------------------------------
(***************************************************************************)
(* The entry points.                                                       *)
(***************************************************************************)

\* What the processor expects after an entry.
Expected(d, next) == IF d.notified = next THEN next + 1 ELSE next

\* An entry keeps the cache's invariants and the order of its requests.
Keeps(d, flushed, next, last) ==
  /\ CacheInv(d) /\ Leaves(d, flushed)
  /\ Expected(d, next) \in 0 .. last
  /\ OrderInv(d, Expected(d, next), last)

\* An entry without a callback: the same request is expected next.
LEMMA NothingTold ==
  ASSUME NEW d, CacheInv(d), NEW flushed, Leaves(d, flushed), d.notified = NULL,
         NEW last \in Nat, NEW next \in 0 .. last, OrderInv(d, next, last)
  PROVE  Keeps(d, flushed, next, last)
<1>1. Expected(d, next) = next
  BY TeamNullAssumption DEF Expected
<1> QED
  BY <1>1 DEF Keeps

\* A completed request: the next one is expected.
LEMMA OneTold ==
  ASSUME NEW c \in Cache, NEW d, CacheInv(d), NEW flushed, Leaves(d, flushed),
         NEW last \in Nat, NEW next \in 0 .. last, OrderInv(c, next, last),
         c.completion # NULL, d.completion = NULL,
         d.request_queue = c.request_queue, d.notified = c.completion.tag
  PROVE  Keeps(d, flushed, next, last)
<1>1. /\ c.completion.tag = next /\ Len(c.request_queue) + 1 = last - next
      /\ \A i \in 1 .. Len(c.request_queue) : c.request_queue[i].tag = next + i
  BY DEF OrderInv
<1>2. Len(c.request_queue) \in Nat
  BY DEF Cache
<1>3. Expected(d, next) = next + 1
  BY <1>1 DEF Expected
<1>4. next + 1 \in 0 .. last /\ Len(c.request_queue) = last - (next + 1)
  BY <1>1, <1>2
<1>5. ASSUME NEW i \in 1 .. Len(c.request_queue)
      PROVE  c.request_queue[i].tag = next + 1 + i - 1
  BY <1>1
<1>6. OrderInv(d, next + 1, last)
  BY <1>4, <1>5 DEF OrderInv
<1> QED
  BY <1>3, <1>4, <1>6 DEF Keeps

\* The buffered store is acknowledged.
LEMMA AcknowledgedKeeps ==
  ASSUME NEW c, CacheInv(c), ~c.exited, c.call = NULL, Unnotified(c),
         NEW flushed, Agrees(c, flushed),
         NEW last \in Nat, NEW next \in 0 .. last, OrderInv(c, next, last)
  PROVE  /\ Keeps(Acknowledged(c), flushed, next, last)
         /\ SameOptions(c, Acknowledged(c))
<1> DEFINE d == Acknowledged(c)
           buffer == [c.write_buffer EXCEPT !.processor_notified = TRUE]
           tag == c.write_buffer.request.tag
<1>1. c \in Cache
  BY DEF CacheInv
<1>2. /\ c.write_buffer \in WriteBuffer /\ c.completion \in Completion
      /\ c.active = NULL /\ c.completion # NULL
      /\ c.completion.tag = tag /\ c.completion.total = 1
      /\ c.completion.completed + 1 + Len(c.queue) = c.completion.total
  BY <1>1 DEF CacheInv, CountInv, Counted, Unnotified, Cache
<1>3. /\ buffer \in WriteBuffer /\ buffer.request = c.write_buffer.request
      /\ buffer.processor_notified = TRUE
      /\ buffer.data_complete = c.write_buffer.data_complete
      /\ tag \in Nat
  BY <1>2 DEF WriteBuffer, Request
<1>4. c.completion.completed + 1 = c.completion.total /\ c.queue = <<>>
  <2>1. c.completion.completed \in Nat /\ c.queue \in Seq(Request)
    BY <1>1, <1>2 DEF Completion, Cache
  <2>2. Len(c.queue) \in Nat
    BY <2>1
  <2>3. c.completion.completed = 0 /\ Len(c.queue) = 0
    BY <1>2, <2>1, <2>2
  <2> QED
    BY <1>2, <2>1, <2>3
<1>5. d = [c EXCEPT !.completion = NULL, !.write_buffer = buffer,
                    !.notified = tag]
  BY <1>1, <1>4 DEF Acknowledged, complete_one, Cache
<1> HIDE DEF d, buffer, tag
<1>6. d \in Cache
  BY <1>1, <1>3, <1>5 DEF Cache
<1>7. /\ d.policy = c.policy /\ d.write_buffer_mode = c.write_buffer_mode
      /\ d.sets = c.sets /\ d.active = c.active /\ d.queue = c.queue
      /\ d.completion = NULL /\ d.request_queue = c.request_queue
      /\ d.write_buffer = buffer /\ d.notified = tag
      /\ d.access_sequence = c.access_sequence
      /\ d.call = NULL /\ d.exited = c.exited
  BY <1>1, <1>5 DEF Cache
<1>8. c.write_buffer # NULL /\ buffer # NULL
  BY <1>3, TeamNullAssumption DEF Unnotified
<1>9. ~Unnotified(d) /\ CountInv(d)
  BY <1>2, <1>3, <1>4, <1>7, <1>8 DEF Unnotified, CountInv
<1>10. /\ LinesSound(d) /\ Stamped(d) /\ RequestsFit(d) /\ LinesStay(c, d)
       /\ ExitInv(d)
  BY <1>7 DEF CacheInv, LinesSound, Stamped, RequestsFit, LinesStay, ExitInv
<1>11. BufferInv(d) /\ PlaceInv(d)
  BY <1>2, <1>3, <1>7, <1>8 DEF CacheInv, BufferInv, PlaceInv
<1>12. /\ \A status : StillAwaiting(c, d, status)
       /\ \A who \in Places :
            Present(c, who) => RequestAt(c, who).block \in Addrs
  BY <1>1, <1>2, <1>3, <1>7, <1>8, BlocksIn
     DEF StillAwaiting, Awaiting, Present, RequestAt
<1>13. /\ Usable(d) = Usable(c) /\ FlushAwaited(d) = FlushAwaited(c)
       /\ EvictionsAimed(d)
  BY <1>1, <1>6, <1>7, <1>10, <1>12, SameEvictions DEF LinesStay, CacheInv
<1>14. DataAwaited(d) = DataAwaited(c) /\ FetchesAimed(d)
  BY <1>1, <1>6, <1>10, <1>12, SameFetches DEF CacheInv
<1>15. Leaves(d, flushed)
  BY <1>7, <1>9, <1>13, <1>14 DEF Leaves, Rests, Agrees
<1>16. CacheInv(d)
  BY <1>6, <1>9, <1>10, <1>11, <1>13, <1>14 DEF CacheInv
<1> QED
  BY <1>1, <1>2, <1>7, <1>15, <1>16, OneTold DEF d, SameOptions

\* A block is counted: the next one is ahead, or the request is complete.
LEMMA OneCounted ==
  ASSUME NEW c \in Cache, CountInv(c), c.active # NULL
  PROVE  LET d == [complete_one(c) EXCEPT !.active = NULL]
         IN /\ d \in Cache /\ d.active = NULL
            /\ d.policy = c.policy /\ d.write_buffer_mode = c.write_buffer_mode
            /\ d.sets = c.sets /\ d.queue = c.queue
            /\ d.request_queue = c.request_queue
            /\ d.write_buffer = c.write_buffer
            /\ d.access_sequence = c.access_sequence
            /\ d.call = c.call /\ d.notified = c.notified
            /\ d.exited = c.exited
            /\ c.completion # NULL /\ c.active.tag = c.completion.tag
            /\ d.completion = NULL => d.queue = <<>>
            /\ d.completion # NULL =>
                 Ahead(d) /\ d.completion.tag = c.completion.tag
<1> DEFINE completion == IF c.completion.completed + 1 = c.completion.total
                           THEN NULL
                           ELSE [c.completion EXCEPT !.completed = @ + 1]
           d == [complete_one(c) EXCEPT !.active = NULL]
<1>1. /\ c.completion # NULL /\ c.completion \in Completion
      /\ c.active.tag = c.completion.tag /\ Counted(c)
  BY DEF CountInv, Cache
<1>2. /\ c.completion.completed \in Nat /\ c.completion.total \in Nat
      /\ c.queue \in Seq(Request) /\ Len(c.queue) \in Nat
      /\ c.completion.completed + 1 + Len(c.queue) = c.completion.total
  BY <1>1 DEF Completion, Counted, Cache
<1>3. d = [c EXCEPT !.completion = completion, !.active = NULL]
  <2>1. complete_one(c) = [c EXCEPT !.completion = completion]
    BY Zenon DEF complete_one
  <2> HIDE DEF completion
  <2> QED
    BY <2>1 DEF Cache
<1>4. /\ completion \in Completion \cup {NULL}
      /\ completion = NULL => c.completion.completed + 1 = c.completion.total
      /\ completion # NULL =>
           /\ c.completion.completed + 1 # c.completion.total
           /\ completion.tag = c.completion.tag
           /\ completion.total = c.completion.total
           /\ completion.completed = c.completion.completed + 1
  <2>1. CASE c.completion.completed + 1 = c.completion.total
    BY <2>1
  <2>2. CASE c.completion.completed + 1 # c.completion.total
    <3>1. completion = [c.completion EXCEPT !.completed = @ + 1]
      BY <2>2
    <3>2. completion \in Completion
      BY <1>1, <1>2, <3>1 DEF Completion
    <3> QED
      BY <1>1, <2>2, <3>1, <3>2, TeamNullAssumption DEF Completion
  <2> QED
    BY <2>1, <2>2
<1> HIDE DEF completion, d
<1>5. d \in Cache
  BY <1>3, <1>4 DEF Cache
<1>6. /\ d.active = NULL /\ d.completion = completion
      /\ d.policy = c.policy /\ d.write_buffer_mode = c.write_buffer_mode
      /\ d.sets = c.sets /\ d.queue = c.queue
      /\ d.request_queue = c.request_queue
      /\ d.write_buffer = c.write_buffer
      /\ d.access_sequence = c.access_sequence
      /\ d.call = c.call /\ d.notified = c.notified /\ d.exited = c.exited
  BY <1>3 DEF Cache
<1>7. completion = NULL => c.queue = <<>>
  <2>1. completion = NULL => Len(c.queue) = 0
    BY <1>2, <1>4
  <2> QED
    BY <1>2, <2>1
<1>8. ASSUME completion # NULL PROVE Ahead(d)
  <2>1. /\ Len(c.queue) # 0
        /\ completion.completed + Len(c.queue) = completion.total
    BY <1>2, <1>4, <1>8
  <2>2. ASSUME NEW i \in 1 .. Len(c.queue)
        PROVE  /\ c.queue[i].tag = completion.tag
               /\ c.queue[i].block_index = completion.completed + i - 1
    <3>1. /\ c.queue[i].tag = c.completion.tag
          /\ c.queue[i].block_index = c.completion.completed + i
      BY <1>1 DEF Counted
    <3> QED
      BY <1>2, <1>4, <1>8, <3>1
  <2> QED
    BY <1>6, <1>8, <2>1, <2>2 DEF Ahead
<1> QED
  BY <1>1, <1>4, <1>5, <1>6, <1>7, <1>8 DEF d

\* A ready request retires.
LEMMA RetiredKeeps ==
  ASSUME NEW c, CacheInv(c), ~c.exited, c.call = NULL, c.notified = NULL,
         c.write_buffer = NULL, c.active # NULL, c.active.status = "READY",
         NEW flushed, Agrees(c, flushed),
         NEW last \in Nat, NEW next \in 0 .. last, OrderInv(c, next, last)
  PROVE  Keeps(Retired(c), flushed, next, last) /\ SameOptions(c, Retired(c))
<1> DEFINE done == [complete_one(c) EXCEPT !.active = NULL]
           d == Retired(c)
           tag == c.active.tag
<1>1. c \in Cache
  BY DEF CacheInv
<1>2. /\ done \in Cache /\ done.active = NULL
      /\ done.policy = c.policy /\ done.write_buffer_mode = c.write_buffer_mode
      /\ done.sets = c.sets /\ done.queue = c.queue
      /\ done.request_queue = c.request_queue
      /\ done.write_buffer = NULL
      /\ done.access_sequence = c.access_sequence
      /\ done.call = NULL /\ done.notified = NULL
      /\ ~done.exited
      /\ c.completion # NULL /\ tag = c.completion.tag
      /\ done.completion = NULL => done.queue = <<>>
      /\ done.completion # NULL =>
           Ahead(done) /\ done.completion.tag = c.completion.tag
  BY <1>1, OneCounted DEF CacheInv
<1>3. tag \in Nat
  BY <1>1 DEF Cache, Request
<1>4. d = IF done.completion = NULL THEN [done EXCEPT !.notified = tag]
          ELSE start_next_block(done)
  BY DEF Retired
<1> HIDE DEF done, d, tag
<1>5. ASSUME NEW e \in Cache, e.write_buffer = NULL, e.active = NULL,
             e.sets = c.sets, e.write_buffer_mode = c.write_buffer_mode,
             e.policy = c.policy, e.access_sequence = c.access_sequence,
             e.request_queue = c.request_queue
      PROVE  /\ LinesSound(e) /\ Stamped(e) /\ RequestsFit(e) /\ BufferInv(e)
             /\ EvictionsAimed(e) /\ FetchesAimed(e) /\ Agrees(e, flushed)
             /\ PlaceInv(e) /\ ~Unnotified(e)
  <2>1. /\ \A status \in {"WAITING_EVICTION", "WAITING_DATA"} :
             StillAwaiting(c, e, status)
        /\ LinesStay(c, e)
        /\ \A who \in Places :
             Present(c, who) => RequestAt(c, who).block \in Addrs
    BY <1>1, <1>5, BlocksIn
       DEF StillAwaiting, Awaiting, Present, RequestAt, LinesStay, Places
  <2>2. /\ Usable(e) = Usable(c) /\ FlushAwaited(e) = FlushAwaited(c)
        /\ EvictionsAimed(e)
    BY <1>1, <1>5, <2>1, SameEvictions DEF LinesStay, CacheInv
  <2>3. DataAwaited(e) = DataAwaited(c) /\ FetchesAimed(e)
    BY <1>1, <1>5, <2>1, SameFetches DEF CacheInv
  <2> QED
    BY <1>5, <2>2, <2>3
       DEF CacheInv, LinesSound, Stamped, RequestsFit, BufferInv, Agrees,
           PlaceInv, Unnotified
<1>6. CASE done.completion = NULL
  <2>1. d = [done EXCEPT !.notified = tag]
    BY <1>4, <1>6
  <2>2. d \in Cache
    BY <1>2, <1>3, <2>1 DEF Cache
  <2>3. /\ d.policy = c.policy /\ d.write_buffer_mode = c.write_buffer_mode
        /\ d.sets = c.sets /\ d.active = NULL /\ d.queue = <<>>
        /\ d.completion = NULL /\ d.request_queue = c.request_queue
        /\ d.write_buffer = NULL /\ d.notified = tag
        /\ d.access_sequence = c.access_sequence
        /\ d.call = NULL /\ ~d.exited
    BY <1>2, <1>6, <2>1 DEF Cache
  <2>4. /\ LinesSound(d) /\ Stamped(d) /\ RequestsFit(d) /\ BufferInv(d)
        /\ EvictionsAimed(d) /\ FetchesAimed(d) /\ Agrees(d, flushed)
        /\ PlaceInv(d) /\ ~Unnotified(d)
    BY <1>5, <2>2, <2>3
  <2>5. CountInv(d) /\ ExitInv(d)
    BY <2>3, <2>4 DEF CountInv, ExitInv
  <2>6. CacheInv(d) /\ Leaves(d, flushed)
    BY <2>2, <2>3, <2>4, <2>5 DEF CacheInv, Leaves, Rests
  <2> QED
    BY <1>1, <1>2, <2>3, <2>6, OneTold DEF d, SameOptions
<1>7. CASE done.completion # NULL
  <2>1. d = start_next_block(done)
    BY <1>4, <1>7
  <2>2. /\ LinesSound(done) /\ Stamped(done) /\ RequestsFit(done)
        /\ BufferInv(done) /\ EvictionsAimed(done) /\ FetchesAimed(done)
        /\ Agrees(done, flushed) /\ ~Unnotified(done)
    BY <1>2, <1>5
  <2>3. /\ CacheInv(d) /\ Leaves(d, flushed)
        /\ d.completion = done.completion
        /\ d.request_queue = done.request_queue
        /\ d.notified = done.notified /\ SameOptions(done, d)
    BY <1>2, <1>7, <2>1, <2>2, BlockStarts
  <2>4. OrderInv(d, next, last)
    BY <1>2, <1>7, <2>3 DEF OrderInv
  <2> QED
    BY <1>2, <2>3, <2>4, NothingTold DEF d, SameOptions
<1> QED
  BY <1>6, <1>7

\* cache_access_tick
LEMMA TickKeeps ==
  ASSUME NEW c, CacheInv(c), ~c.exited, c.call = NULL, c.notified = NULL,
         NEW flushed, Agrees(c, flushed),
         NEW last \in Nat, NEW next \in 0 .. last, OrderInv(c, next, last)
  PROVE  /\ Keeps(cache_access_tick(c), flushed, next, last)
         /\ SameOptions(c, cache_access_tick(c))
<1>1. CASE Unnotified(c)
  <2>1. ~c.write_buffer.data_complete
    BY <1>1 DEF CacheInv, BufferInv, Unnotified
  <2>2. cache_access_tick(c) = Acknowledged(c)
    BY <1>1, <2>1 DEF cache_access_tick, Unnotified
  <2> QED
    BY <1>1, <2>2, AcknowledgedKeeps
<1>2. CASE c.write_buffer = NULL /\ c.active # NULL /\ c.active.status = "READY"
  <2>1. cache_access_tick(c) = Retired(c)
    BY <1>2 DEF cache_access_tick
  <2> QED
    BY <1>2, <2>1, RetiredKeeps
<1>3. CASE /\ ~Unnotified(c)
           /\ ~(/\ c.write_buffer = NULL /\ c.active # NULL
                /\ c.active.status = "READY")
  <2>1. cache_access_tick(c) = start_next_request(c)
    BY <1>3 DEF cache_access_tick, Unnotified
  <2> DEFINE d == start_next_request(c)
  <2>2. /\ CacheInv(d) /\ Leaves(d, flushed) /\ d.notified = NULL
        /\ OrderInv(d, next, last) /\ SameOptions(c, d)
    BY <1>3, RequestStarts
  <2> HIDE DEF d
  <2>3. Keeps(d, flushed, next, last)
    BY <2>2, NothingTold
  <2> QED
    BY <2>1, <2>2, <2>3 DEF d
<1> QED
  BY <1>1, <1>2, <1>3

\* Without a failure one request at most waits for coherence.
LEMMA OneWaits ==
  ASSUME NEW c, CacheInv(c), ~c.exited,
         NEW status \in {"WAITING_EVICTION", "WAITING_DATA"},
         NEW who \in Awaiting(c, status)
  PROVE  /\ Present(c, who) /\ RequestAt(c, who).status = status
         /\ who \in Places
         /\ Awaiting(c, status) = {who}
         /\ \A other \in {"WAITING_EVICTION", "WAITING_DATA"} \ {status} :
              Awaiting(c, other) = {}
         /\ who = "active" => c.write_buffer = NULL
         /\ who = "write_buffer" /\ c.active # NULL =>
              c.active.status \in {"WAITING_BUFFER", "READY"}
<1>1. /\ who \in Places /\ Present(c, who) /\ RequestAt(c, who).status = status
      /\ PlaceInv(c)
  BY DEF Awaiting, CacheInv
<1>2. CASE who = "active"
  <2>1. c.active # NULL /\ c.active.status = status
    BY <1>1, <1>2 DEF Present, RequestAt
  <2>2. c.write_buffer = NULL
    BY <1>1, <2>1 DEF PlaceInv
  <2> QED
    BY <1>1, <1>2, <2>1, <2>2 DEF Awaiting, Present, RequestAt, Places
<1>3. CASE who = "write_buffer"
  <2>1. c.write_buffer # NULL
    BY <1>1, <1>3 DEF Present
  <2>2. c.active # NULL => c.active.status \in {"WAITING_BUFFER", "READY"}
    BY <1>1, <2>1 DEF PlaceInv
  <2> QED
    BY <1>1, <1>3, <2>1, <2>2 DEF Awaiting, Present, RequestAt, Places
<1> QED
  BY <1>1, <1>2, <1>3 DEF Places

\* The end of a write-back is that of the one request that awaits it.
LEMMA FlushFetches ==
  ASSUME NEW c, CacheInv(c), ~c.exited,
         NEW who \in Awaiting(c, "WAITING_EVICTION"),
         NEW a, a = RequestAt(c, who).victim_address
  PROVE  cache_access_event(c, "FLUSH_COMPLETE", a)
           = fetch(cache_eviction_complete(c, who), who)
<1> DEFINE evictions == Matching(c, "WAITING_EVICTION", a)
<1>1. /\ Present(c, who) /\ RequestAt(c, who).status = "WAITING_EVICTION"
      /\ who \in Places /\ Awaiting(c, "WAITING_EVICTION") = {who}
  BY OneWaits
<1>2. evictions = {who}
  BY <1>1 DEF Matching, Awaiting
<1>3. evictions # Places /\ evictions # {}
  BY <1>2 DEF Places
<1>4. (CHOOSE w \in evictions : TRUE) = who
  BY <1>2
<1> QED
  BY <1>3, <1>4 DEF cache_access_event

\* The write-back is over: the block is asked for.
LEMMA FlushKeeps ==
  ASSUME NEW c, CacheInv(c), ~c.exited, c.call = NULL, c.notified = NULL,
         ~Unnotified(c), NEW a \in FlushAwaited(c),
         Usable(c) = InState("MODIFIED"),
         DataAwaited(c) = InState("INVALID_MODIFIED"),
         NEW last \in Nat, NEW next \in 0 .. last, OrderInv(c, next, last)
  PROVE  /\ Keeps(cache_access_event(c, "FLUSH_COMPLETE", a),
                  FlushAwaited(c) \ {a}, next, last)
         /\ SameOptions(c, cache_access_event(c, "FLUSH_COMPLETE", a))
<1> DEFINE d == cache_access_event(c, "FLUSH_COMPLETE", a)
<1>1. c \in Cache /\ LinesSound(c) /\ Stamped(c)
  BY DEF CacheInv
<1>2. PICK who \in Awaiting(c, "WAITING_EVICTION") :
        a = RequestAt(c, who).victim_address
  BY DEF FlushAwaited
<1>3. /\ Present(c, who) /\ RequestAt(c, who).status = "WAITING_EVICTION"
      /\ who \in Places
      /\ Awaiting(c, "WAITING_EVICTION") = {who}
      /\ Awaiting(c, "WAITING_DATA") = {}
      /\ who = "active" => c.write_buffer = NULL
      /\ who = "write_buffer" /\ c.active # NULL =>
           c.active.status \in {"WAITING_BUFFER", "READY"}
  BY OneWaits
<1> DEFINE request == RequestAt(c, who)
           set == SetIndex(request.block)
           way == request.target
           x == cache_eviction_complete(c, who)
<1>4. d = fetch(x, who)
  BY <1>2, FlushFetches
<1>5. /\ request \in Request /\ request.block \in Addrs /\ set \in SetIndices
  BY <1>1, <1>3, BlocksIn, SetIndexIn
<1>6. /\ way \in Ways /\ c.sets[set][way].valid /\ c.sets[set][way].tag = a
      /\ c.write_buffer_mode = 0 => HitWays(c, request.block) = {}
      /\ TargetOf(c, who).valid /\ TargetOf(c, who).tag = request.victim_address
  BY <1>2 DEF CacheInv, EvictionsAimed, TargetOf
<1> DEFINE line == [c.sets[set][way] EXCEPT !.valid = FALSE]
           lines == [c.sets[set] EXCEPT ![way] = line]
<1>7. /\ line \in Line /\ line.valid = FALSE
  <2>1. c.sets[set][way] \in Line
    BY <1>1, <1>5, <1>6 DEF Cache
  <2> QED
    BY <2>1 DEF Line
<1>8. x = [c EXCEPT !.sets[set] = lines]
  BY <1>1 DEF cache_eviction_complete, Cache
<1> HIDE DEF d, x, line, request
<1>9. /\ lines \in [Ways -> Line] /\ lines[way] = line
      /\ \A w \in Ways \ {way} : lines[w] = c.sets[set][w]
  BY <1>1, <1>5, <1>6, <1>7 DEF Cache
<1>30. line.time_stamp = c.sets[set][way].time_stamp
  BY <1>1, <1>5, <1>6 DEF Cache, Line, line
<1> HIDE DEF lines, set, way
<1>10. /\ x \in Cache /\ x.sets[set] = lines
       /\ \A s \in SetIndices \ {set} : x.sets[s] = c.sets[s]
  BY <1>1, <1>5, <1>8, <1>9, LinesPut
<1>11. /\ x.policy = c.policy /\ x.write_buffer_mode = c.write_buffer_mode
       /\ x.active = c.active /\ x.queue = c.queue
       /\ x.completion = c.completion /\ x.request_queue = c.request_queue
       /\ x.write_buffer = c.write_buffer
       /\ x.access_sequence = c.access_sequence
       /\ x.call = NULL /\ x.notified = NULL /\ ~x.exited
  BY <1>1, <1>8 DEF Cache
<1>12. LinesSound(x) /\ Cached(x) = Cached(c) \ {a}
  <2>1. /\ ~x.sets[set][way].valid
        /\ \A s \in SetIndices, w \in Ways : s # set \/ w # way =>
             /\ x.sets[s][w].valid <=> c.sets[s][w].valid
             /\ x.sets[s][w].tag = c.sets[s][w].tag
    BY <1>7, <1>9, <1>10
  <2> QED
    BY <1>1, <1>5, <1>6, <1>10, <2>1, LineGone
<1>13. Stamped(x)
  <2>1. ASSUME NEW s \in SetIndices, NEW w \in Ways
        PROVE  /\ x.sets[s][w].valid => c.sets[s][w].valid
               /\ x.sets[s][w].time_stamp = c.sets[s][w].time_stamp
    BY <1>6, <1>7, <1>9, <1>10, <1>30
  <2>2. c.policy = "RRIP" => \A s \in SetIndices, w \in Ways :
                               x.sets[s][w].time_stamp <= RripMax
    BY <1>1, <2>1 DEF Stamped
  <2> QED
    BY <1>1, <1>10, <1>11, <2>1, <2>2, StampsKept
<1>14. RequestAt(x, who) = request /\ Present(x, who)
  BY <1>3, <1>11 DEF RequestAt, Present, request
<1>15. /\ d \in Cache /\ SameWork(x, d) /\ SamePlaces(x, d, who)
       /\ RequestAt(d, who) = [request EXCEPT !.status = "WAITING_DATA"]
       /\ d.sets = x.sets
       /\ d.call = [op |-> "permReq", addr |-> request.block]
       /\ Granted(request.block) => d.exited
       /\ ~Granted(request.block) => d.exited = x.exited
  BY <1>3, <1>4, <1>10, <1>14, Fetched
<1>16. /\ RequestAt(d, who).status = "WAITING_DATA"
       /\ RequestAt(d, who).block = request.block
       /\ RequestAt(d, who).target = way
  BY <1>5, <1>15 DEF Request, way
<1>17. /\ Awaiting(d, "WAITING_EVICTION") = {}
       /\ Awaiting(d, "WAITING_DATA") = {who}
  <2>1. \A w \in Places : w = "active" \/ w = "write_buffer"
    BY DEF Places
  <2>2. \A other \in Places \ {who} :
          /\ Present(d, other) <=> Present(c, other)
          /\ RequestAt(d, other).status = RequestAt(c, other).status
    BY <1>3, <1>11, <1>15, <2>1 DEF SamePlaces, Present, RequestAt
  <2>3. ASSUME NEW other \in Places \ {who}
        PROVE  /\ other \notin Awaiting(d, "WAITING_EVICTION")
               /\ other \notin Awaiting(d, "WAITING_DATA")
    BY <1>3, <2>2 DEF Awaiting
  <2>4. Present(d, who)
    BY <1>15 DEF SamePlaces
  <2> QED
    BY <1>3, <1>16, <2>3, <2>4 DEF Awaiting
<1>18. LinesSound(d) /\ Cached(d) = Cached(x)
  BY <1>12, <1>15 DEF LinesSound, Cached, HitWays
<1>19. Stamped(d)
  BY <1>13, <1>15 DEF Stamped, SameWork
<1>20. /\ Usable(c) = Cached(c) \ {a} /\ FlushAwaited(c) = {a}
       /\ DataAwaited(c) = {}
  BY <1>1, <1>2, <1>3, <1>5, <1>6, OneEvicted DEF DataAwaited, request, way
<1>21. Usable(d) = InState("MODIFIED") /\ InState("INVALID_MODIFIED") = {}
       /\ Cached(d) = InState("MODIFIED")
  BY <1>12, <1>15, <1>17, <1>18, <1>20, NoneEvicted
<1>22. DataAwaited(d) = {request.block} /\ FlushAwaited(d) = {}
  BY <1>16, <1>17 DEF DataAwaited, FlushAwaited
<1>23. CountInv(d) /\ ~Unnotified(d)
  <2>1. CountInv(x) /\ ~Unnotified(x)
    BY <1>11 DEF CacheInv, CountInv, Counted, Unnotified
  <2> QED
    BY <1>3, <1>10, <1>14, <1>15, <2>1, CountKept DEF SameWork
<1>24. BufferInv(d) /\ RequestsFit(d) /\ EvictionsAimed(d)
  <2>1. RequestsFit(d)
    BY <1>11, <1>15 DEF CacheInv, RequestsFit, SameWork
  <2>2. BufferInv(d)
    <3>1. CASE who = "active"
      BY <1>3, <1>11, <1>15, <3>1 DEF BufferInv, SamePlaces
    <3>2. CASE who = "write_buffer"
      <4>1. /\ c.write_buffer # NULL
            /\ d.write_buffer.data_complete = c.write_buffer.data_complete
            /\ d.write_buffer_mode = c.write_buffer_mode
        BY <1>3, <1>11, <1>15, <3>2 DEF SamePlaces, SameWork, Present
      <4>2. d.write_buffer.request.status = "WAITING_DATA"
        BY <1>16, <3>2 DEF RequestAt
      <4> QED
        BY <4>1, <4>2 DEF CacheInv, BufferInv
    <3> QED
      BY <1>3, <3>1, <3>2 DEF Places
  <2> QED
    BY <1>17, <2>1, <2>2 DEF EvictionsAimed
<1>25. ASSUME Granted(request.block)
       PROVE  Keeps(d, FlushAwaited(c) \ {a}, next, last)
  <2>1. request.block \in InState("MODIFIED") /\ d.exited
    BY <1>5, <1>15, <1>25, GrantedIs
  <2>2. c.write_buffer_mode # 0
    <3>1. HitWays(c, request.block) # {}
      BY <1>12, <1>18, <1>21, <2>1 DEF Cached
    <3> QED
      BY <1>6, <3>1
  <2>3. ExitInv(d)
    BY <1>11, <1>15, <2>2 DEF ExitInv, SameWork
  <2>4. Leaves(d, {})
    BY <1>15, <1>22, <2>1 DEF Leaves, Exits
  <2>5. CacheInv(d)
    BY <1>15, <1>18, <1>12, <1>19, <1>23, <1>24, <2>1, <2>3 DEF CacheInv
  <2>6. /\ d.notified = NULL /\ OrderInv(d, next, last)
    BY <1>11, <1>15 DEF SameWork, OrderInv
  <2>7. FlushAwaited(c) \ {a} = {}
    BY <1>20
  <2> QED
    BY <2>4, <2>5, <2>6, <2>7, NothingTold
<1>26. ASSUME ~Granted(request.block)
       PROVE  Keeps(d, FlushAwaited(c) \ {a}, next, last)
  <2>1. request.block \notin InState("MODIFIED") /\ ~d.exited
    BY <1>5, <1>11, <1>15, <1>26, GrantedIs
  <2>2. FetchesAimed(d)
    <3>1. HitWays(d, request.block) = {}
      BY <1>5, <1>21, <2>1 DEF Cached
    <3>2. ~TargetOf(d, who).valid
      BY <1>7, <1>9, <1>10, <1>15, <1>16 DEF TargetOf, set
    <3> QED
      BY <1>6, <1>16, <1>17, <3>1, <3>2 DEF FetchesAimed
  <2>3. PlaceInv(d)
    <3>1. CASE who = "active"
      BY <1>3, <1>11, <1>15, <1>16, <3>1 DEF PlaceInv, SamePlaces, RequestAt
    <3>2. CASE who = "write_buffer"
      BY <1>3, <1>11, <1>15, <3>2 DEF PlaceInv, SamePlaces, Present
    <3> QED
      BY <1>3, <3>1, <3>2 DEF Places
  <2>4. Leaves(d, {})
    BY <1>5, <1>15, <1>21, <1>22, <2>1 DEF Leaves, Asks
  <2>5. CacheInv(d)
    BY <1>15, <1>18, <1>12, <1>19, <1>23, <1>24, <2>1, <2>2, <2>3
       DEF CacheInv, ExitInv
  <2>6. /\ d.notified = NULL /\ OrderInv(d, next, last)
    BY <1>11, <1>15 DEF SameWork, OrderInv
  <2>7. FlushAwaited(c) \ {a} = {}
    BY <1>20
  <2> QED
    BY <2>4, <2>5, <2>6, <2>7, NothingTold
<1>27. SameOptions(c, d)
  BY <1>11, <1>15 DEF SameWork, SameOptions
<1> QED
  BY <1>25, <1>26, <1>27 DEF d

\* A line of a cache, changed.
LEMMA LinePut ==
  ASSUME NEW c \in Cache, NEW set \in SetIndices, NEW way \in Ways,
         NEW line \in Line
  PROVE  LET d == [c EXCEPT !.sets[set][way] = line]
         IN /\ d \in Cache
            /\ d.policy = c.policy /\ d.write_buffer_mode = c.write_buffer_mode
            /\ d.active = c.active /\ d.queue = c.queue
            /\ d.completion = c.completion /\ d.request_queue = c.request_queue
            /\ d.write_buffer = c.write_buffer
            /\ d.access_sequence = c.access_sequence
            /\ d.call = c.call /\ d.notified = c.notified
            /\ d.exited = c.exited
            /\ d.sets[set][way] = line
            /\ \A s \in SetIndices, w \in Ways :
                 s # set \/ w # way => d.sets[s][w] = c.sets[s][w]
<1> DEFINE sets == [c.sets EXCEPT ![set][way] = line]
           d == [c EXCEPT !.sets = sets]
<1>1. sets \in [SetIndices -> [Ways -> Line]]
  BY DEF Cache
<1>2. /\ sets[set][way] = line
      /\ \A s \in SetIndices, w \in Ways :
           s # set \/ w # way => sets[s][w] = c.sets[s][w]
  BY DEF Cache
<1>3. [c EXCEPT !.sets[set][way] = line] = d
  BY DEF Cache
<1> HIDE DEF sets
<1>4. /\ d \in Cache /\ d.sets = sets
      /\ d.policy = c.policy /\ d.write_buffer_mode = c.write_buffer_mode
      /\ d.active = c.active /\ d.queue = c.queue
      /\ d.completion = c.completion /\ d.request_queue = c.request_queue
      /\ d.write_buffer = c.write_buffer
      /\ d.access_sequence = c.access_sequence
      /\ d.call = c.call /\ d.notified = c.notified /\ d.exited = c.exited
  BY <1>1 DEF Cache
<1> HIDE DEF d
<1> QED
  BY <1>2, <1>3, <1>4

\* Fill, where it fills the line: the line is given its tag,
Claimed(c, who) ==
  LET request == RequestAt(c, who)
  IN [c EXCEPT
        !.sets[SetIndex(request.block)][request.target].tag = request.block]

\* and is valid, with a new stamp, and the request ready.
Filled(c, who) ==
  LET request == RequestAt(c, who)
      set == SetIndex(request.block)
  IN Touch([PutRequest(Claimed(c, who), who,
                       [request EXCEPT !.status = "READY"])
              EXCEPT !.sets[set][request.target].valid = TRUE],
           set, request.target, FillStamp(c.policy, c.access_sequence),
           request.op = "STORE")

\* A tag in an invalid line says nothing.
LEMMA ClaimedIs ==
  ASSUME NEW c \in Cache, NEW who \in Places, Present(c, who),
         RequestAt(c, who).target \in Ways, ~TargetOf(c, who).valid
  PROVE  LET d == Claimed(c, who)
             set == SetIndex(RequestAt(c, who).block)
             way == RequestAt(c, who).target
         IN /\ d \in Cache
            /\ d.policy = c.policy /\ d.write_buffer_mode = c.write_buffer_mode
            /\ d.active = c.active /\ d.queue = c.queue
            /\ d.completion = c.completion /\ d.request_queue = c.request_queue
            /\ d.write_buffer = c.write_buffer
            /\ d.access_sequence = c.access_sequence
            /\ d.call = c.call /\ d.notified = c.notified
            /\ d.exited = c.exited
            /\ ~d.sets[set][way].valid
            /\ d.sets[set][way].tag = RequestAt(c, who).block
            /\ \A s \in SetIndices, w \in Ways :
                 /\ d.sets[s][w].valid = c.sets[s][w].valid
                 /\ d.sets[s][w].time_stamp = c.sets[s][w].time_stamp
                 /\ s # set \/ w # way => d.sets[s][w] = c.sets[s][w]
<1> DEFINE block == RequestAt(c, who).block
           set == SetIndex(block)
           way == RequestAt(c, who).target
           line == [c.sets[set][way] EXCEPT !.tag = block]
           d == [c EXCEPT !.sets[set][way] = line]
<1>1. block \in Addrs /\ set \in SetIndices /\ way \in Ways
      /\ ~c.sets[set][way].valid
  BY BlocksIn, SetIndexIn DEF TargetOf
<1>2. Claimed(c, who) = d
  BY DEF Claimed, Cache
<1> HIDE DEF set, way, block
<1>3. c.sets[set][way] \in Line
  BY <1>1 DEF Cache
<1>4. /\ line \in Line /\ line.valid = FALSE /\ line.tag = block
      /\ line.time_stamp = c.sets[set][way].time_stamp
  BY <1>1, <1>3 DEF Line
<1> HIDE DEF line
<1>5. /\ d \in Cache
      /\ d.policy = c.policy /\ d.write_buffer_mode = c.write_buffer_mode
      /\ d.active = c.active /\ d.queue = c.queue
      /\ d.completion = c.completion /\ d.request_queue = c.request_queue
      /\ d.write_buffer = c.write_buffer
      /\ d.access_sequence = c.access_sequence
      /\ d.call = c.call /\ d.notified = c.notified
      /\ d.exited = c.exited
      /\ d.sets[set][way] = line
      /\ \A s \in SetIndices, w \in Ways :
           s # set \/ w # way => d.sets[s][w] = c.sets[s][w]
  BY <1>1, <1>4, LinePut
<1> HIDE DEF d
<1>6. \A s \in SetIndices, w \in Ways :
        /\ d.sets[s][w].valid = c.sets[s][w].valid
        /\ d.sets[s][w].time_stamp = c.sets[s][w].time_stamp
  <2>1. c.sets[set][way].valid = FALSE
    BY <1>1, <1>3 DEF Line
  <2>2. /\ d.sets[set][way].valid = c.sets[set][way].valid
        /\ d.sets[set][way].time_stamp = c.sets[set][way].time_stamp
    BY <1>4, <1>5, <2>1
  <2> QED
    BY <1>5, <2>2
<1> QED
  BY <1>2, <1>4, <1>5, <1>6 DEF set, way, block

\* A filled line has the block it was fetched for, and the latest stamp.
LEMMA FilledIs ==
  ASSUME NEW c \in Cache, LinesSound(c), Stamped(c),
         NEW who \in Places, Present(c, who),
         RequestAt(c, who).target \in Ways, ~TargetOf(c, who).valid,
         HitWays(c, RequestAt(c, who).block) = {},
         ~Exhausted(c.policy, c.access_sequence)
  PROVE  LET d == Filled(c, who)
         IN /\ d \in Cache
            /\ d.policy = c.policy /\ d.write_buffer_mode = c.write_buffer_mode
            /\ d.queue = c.queue /\ d.completion = c.completion
            /\ d.request_queue = c.request_queue
            /\ SamePlaces(c, d, who) /\ RequestAt(d, who).status = "READY"
            /\ d.call = c.call /\ d.notified = c.notified
            /\ d.exited = c.exited
            /\ LinesSound(d) /\ Stamped(d)
            /\ Cached(d) = Cached(c) \cup {RequestAt(c, who).block}
<1> DEFINE request == RequestAt(c, who)
           block == request.block
           set == SetIndex(block)
           way == request.target
           x == Claimed(c, who)
           ready == [request EXCEPT !.status = "READY"]
           y == PutRequest(x, who, ready)
           line == [y.sets[set][way] EXCEPT !.valid = TRUE]
           z == [y EXCEPT !.sets[set][way] = line]
           stamp == FillStamp(c.policy, c.access_sequence)
           dirty == request.op = "STORE"
           d == Filled(c, who)
<1>1. /\ request \in Request /\ block \in Addrs /\ set \in SetIndices
      /\ way \in Ways
      /\ ~c.sets[set][way].valid
  BY BlocksIn, SetIndexIn DEF TargetOf
<1>2. ready \in Request /\ ready.status = "READY" /\ SameRequest(request, ready)
  BY <1>1 DEF Request, Statuses, SameRequest
<1>3. /\ x \in Cache
      /\ x.policy = c.policy /\ x.write_buffer_mode = c.write_buffer_mode
      /\ x.active = c.active /\ x.queue = c.queue
      /\ x.completion = c.completion /\ x.request_queue = c.request_queue
      /\ x.write_buffer = c.write_buffer
      /\ x.access_sequence = c.access_sequence
      /\ x.call = c.call /\ x.notified = c.notified
      /\ x.exited = c.exited
      /\ x.sets[set][way].tag = block
      /\ \A s \in SetIndices, w \in Ways :
           s # set \/ w # way => x.sets[s][w] = c.sets[s][w]
  BY ClaimedIs
<1> HIDE DEF x, ready
<1>4. RequestAt(x, who) = request /\ Present(x, who)
  BY <1>3 DEF RequestAt, Present
<1>5. /\ y \in Cache /\ SameWork(x, y) /\ SamePlaces(x, y, who)
      /\ RequestAt(y, who) = ready
      /\ y.sets = x.sets /\ y.call = x.call /\ y.exited = x.exited
  BY <1>2, <1>3, <1>4, PlacePut
<1>6. d = Touch(z, set, way, stamp, dirty)
  <2>1. z = [y EXCEPT !.sets[set][way].valid = TRUE]
    BY <1>5 DEF Cache
  <2> HIDE DEF z
  <2> QED
    BY Zenon, <2>1 DEF Filled, ready, x
<1> HIDE DEF y, d, set, way, block
<1>7. line \in Line /\ line.valid = TRUE /\ line.tag = block
  <2>1. y.sets[set][way] \in Line /\ y.sets[set][way].tag = block
    BY <1>1, <1>3, <1>5 DEF Cache
  <2> QED
    BY <2>1 DEF Line
<1> HIDE DEF line
<1>8. /\ z \in Cache
      /\ z.policy = y.policy /\ z.write_buffer_mode = y.write_buffer_mode
      /\ z.active = y.active /\ z.queue = y.queue
      /\ z.completion = y.completion /\ z.request_queue = y.request_queue
      /\ z.write_buffer = y.write_buffer
      /\ z.access_sequence = y.access_sequence
      /\ z.call = y.call /\ z.notified = y.notified
      /\ z.exited = y.exited
      /\ z.sets[set][way] = line
      /\ \A s \in SetIndices, w \in Ways :
           s # set \/ w # way => z.sets[s][w] = y.sets[s][w]
  BY <1>1, <1>5, <1>7, LinePut
<1> HIDE DEF z
<1>9. stamp \in Nat /\ dirty \in BOOLEAN
  BY RripAssumption DEF FillStamp, Cache
<1>10. ~Exhausted(z.policy, z.access_sequence)
  BY <1>3, <1>5, <1>8 DEF SameWork
<1> HIDE DEF stamp, dirty
<1>11. /\ d \in Cache
       /\ d.policy = z.policy /\ d.write_buffer_mode = z.write_buffer_mode
       /\ d.active = z.active /\ d.queue = z.queue
       /\ d.completion = z.completion /\ d.request_queue = z.request_queue
       /\ d.write_buffer = z.write_buffer
       /\ d.access_sequence = NextSequence(z.policy, z.access_sequence)
       /\ d.call = z.call /\ d.notified = z.notified
       /\ d.exited = z.exited
       /\ d.sets[set][way].time_stamp = stamp
       /\ \A s \in SetIndices, w \in Ways :
            /\ d.sets[s][w].valid = z.sets[s][w].valid
            /\ d.sets[s][w].tag = z.sets[s][w].tag
            /\ s # set \/ w # way => d.sets[s][w] = z.sets[s][w]
  BY <1>1, <1>6, <1>8, <1>9, <1>10, Touched, SMTT(30)
<1>12. /\ d.policy = c.policy /\ d.write_buffer_mode = c.write_buffer_mode
       /\ d.queue = c.queue /\ d.completion = c.completion
       /\ d.request_queue = c.request_queue
       /\ d.access_sequence = NextSequence(c.policy, c.access_sequence)
       /\ d.call = c.call /\ d.notified = c.notified
       /\ d.exited = c.exited
  BY <1>3, <1>5, <1>8, <1>11 DEF SameWork
<1>13. /\ d.sets[set][way].valid /\ d.sets[set][way].tag = block
       /\ \A s \in SetIndices, w \in Ways :
            s # set \/ w # way => d.sets[s][w] = c.sets[s][w]
  BY <1>1, <1>3, <1>5, <1>7, <1>8, <1>11
<1>14. LinesSound(d) /\ Cached(d) = Cached(c) \cup {block}
  <2>1. ~c.sets[SetIndex(block)][way].valid /\ HitWays(c, block) = {}
    BY <1>1 DEF set, block
  <2> QED
    BY <1>1, <1>11, <1>13, <2>1, LineFilled DEF set
<1>15. Stamped(d)
  <2>1. /\ d.sets[set][way].time_stamp \in
             {HitStamp(c.policy, c.access_sequence),
              FillStamp(c.policy, c.access_sequence)}
        /\ \A s \in SetIndices, w \in Ways : s # set \/ w # way =>
             /\ d.sets[s][w].valid => c.sets[s][w].valid
             /\ d.sets[s][w].time_stamp = c.sets[s][w].time_stamp
    BY <1>11, <1>13 DEF stamp
  <2> QED
    BY <1>1, <1>11, <1>12, <2>1, StampRenewed
<1>16. SamePlaces(c, d, who) /\ RequestAt(d, who).status = "READY"
  <2>1. d.active = y.active /\ d.write_buffer = y.write_buffer
    BY <1>8, <1>11
  <2>2. RequestAt(d, who) = ready /\ (Present(d, who) <=> Present(y, who))
    BY <1>5, <2>1 DEF RequestAt, Present
  <2> QED
    BY <1>2, <1>3, <1>5, <2>1, <2>2 DEF SamePlaces, request
<1> QED
  BY <1>11, <1>12, <1>14, <1>15, <1>16 DEF d, block

\* The block has come: the line is filled, and the buffer may be free.
LEMMA DataKeeps ==
  ASSUME NEW c, CacheInv(c), ~c.exited, c.call = NULL, c.notified = NULL,
         ~Unnotified(c), NEW a \in DataAwaited(c),
         Usable(c) \cup {a} = InState("MODIFIED"),
         DataAwaited(c) \ {a} = InState("INVALID_MODIFIED"),
         NEW last \in Nat, NEW next \in 0 .. last, OrderInv(c, next, last)
  PROVE  /\ Keeps(cache_access_event(c, "DATA_RECV", a), FlushAwaited(c),
                  next, last)
         /\ SameOptions(c, cache_access_event(c, "DATA_RECV", a))
<1> DEFINE d == cache_access_event(c, "DATA_RECV", a)
<1>1. c \in Cache /\ LinesSound(c) /\ Stamped(c)
  BY DEF CacheInv
<1>2. PICK who \in Awaiting(c, "WAITING_DATA") : a = RequestAt(c, who).block
  BY DEF DataAwaited
<1>3. /\ Present(c, who) /\ RequestAt(c, who).status = "WAITING_DATA"
      /\ who \in Places
      /\ Awaiting(c, "WAITING_DATA") = {who}
      /\ Awaiting(c, "WAITING_EVICTION") = {}
      /\ who = "active" => c.write_buffer = NULL
      /\ who = "write_buffer" /\ c.active # NULL =>
           c.active.status \in {"WAITING_BUFFER", "READY"}
  BY OneWaits
<1>4. d = Fill(c, who)
  <2> DEFINE evictions == Matching(c, "WAITING_EVICTION", a)
             fetches == Matching(c, "WAITING_DATA", a)
  <2>1. evictions = {} /\ fetches = {who}
    BY <1>2, <1>3 DEF Matching, Awaiting
  <2>2. evictions # Places
    BY <2>1 DEF Places
  <2>3. Cardinality(fetches) = 1 /\ (CHOOSE w \in fetches : TRUE) = who
    BY <2>1, FS_Singleton
  <2> QED
    BY <2>1, <2>2, <2>3 DEF cache_access_event
<1>5. /\ RequestAt(c, who).target \in Ways /\ ~TargetOf(c, who).valid
      /\ HitWays(c, RequestAt(c, who).block) = {}
  BY DEF CacheInv, FetchesAimed
<1>6. /\ FlushAwaited(c) = {} /\ InState("INVALID_MODIFIED") = {}
      /\ Cached(c) \cup {a} = InState("MODIFIED")
  BY <1>1, <1>2, <1>3, NoneEvicted DEF FlushAwaited, DataAwaited
<1> HIDE DEF d
<1>7. CASE Exhausted(c.policy, c.access_sequence)
  <2> DEFINE x == Claimed(c, who)
             set == SetIndex(RequestAt(c, who).block)
             way == RequestAt(c, who).target
  <2>1. /\ x \in Cache
        /\ x.policy = c.policy /\ x.write_buffer_mode = c.write_buffer_mode
        /\ x.active = c.active /\ x.queue = c.queue
        /\ x.completion = c.completion /\ x.request_queue = c.request_queue
        /\ x.write_buffer = c.write_buffer
        /\ x.access_sequence = c.access_sequence
        /\ x.call = c.call /\ x.notified = c.notified
        /\ ~x.sets[set][way].valid
        /\ \A s \in SetIndices, w \in Ways :
             /\ x.sets[s][w].valid = c.sets[s][w].valid
             /\ x.sets[s][w].time_stamp = c.sets[s][w].time_stamp
             /\ s # set \/ w # way => x.sets[s][w] = c.sets[s][w]
    BY <1>1, <1>3, <1>5, ClaimedIs
  <2>2. d = fail(x)
    BY <1>4, <1>5, <1>7 DEF Fill, Claimed, TargetOf
  <2> HIDE DEF x
  <2>3. d = [x EXCEPT !.exited = TRUE]
    BY <2>2 DEF fail
  <2>4. /\ d \in Cache /\ d.exited
        /\ d.policy = c.policy /\ d.write_buffer_mode = c.write_buffer_mode
        /\ d.active = c.active /\ d.queue = c.queue
        /\ d.completion = c.completion /\ d.request_queue = c.request_queue
        /\ d.write_buffer = c.write_buffer
        /\ d.access_sequence = c.access_sequence
        /\ d.call = NULL /\ d.notified = NULL /\ d.sets = x.sets
    BY <2>1, <2>3 DEF Cache
  <2>5. LinesSound(d)
    <3>1. \A s \in SetIndices, w \in Ways :
            /\ d.sets[s][w].valid <=> c.sets[s][w].valid
            /\ d.sets[s][w].valid => d.sets[s][w].tag = c.sets[s][w].tag
      BY <2>1, <2>4
    <3> QED
      BY <1>1, <2>4, <3>1, SameLines
  <2>6. Stamped(d)
    <3>1. c.policy = "RRIP" => \A s \in SetIndices, w \in Ways :
                                 c.sets[s][w].time_stamp <= RripMax
      BY <1>1 DEF Stamped
    <3> QED
      BY <1>1, <2>1, <2>4, <3>1, StampsKept, SMTT(30)
  <2>7. Awaiting(d, "WAITING_EVICTION") = {}
    BY <1>3, <2>4 DEF Awaiting, Present, RequestAt
  <2>8. CountInv(d) /\ BufferInv(d) /\ RequestsFit(d) /\ ExitInv(d)
    BY <1>7, <2>4
       DEF CacheInv, CountInv, Counted, Unnotified, BufferInv, RequestsFit,
           ExitInv
  <2>9. CacheInv(d)
    BY <2>4, <2>5, <2>6, <2>7, <2>8 DEF CacheInv, EvictionsAimed
  <2>10. Leaves(d, {})
    BY <2>4, <2>7 DEF Leaves, Exits, FlushAwaited
  <2>11. OrderInv(d, next, last)
    BY <2>4 DEF OrderInv
  <2> QED
    BY <1>6, <2>4, <2>9, <2>10, <2>11, NothingTold DEF d, SameOptions
<1>8. CASE ~Exhausted(c.policy, c.access_sequence)
  <2> DEFINE e == Filled(c, who)
  <2>1. /\ e \in Cache
        /\ e.policy = c.policy /\ e.write_buffer_mode = c.write_buffer_mode
        /\ e.queue = c.queue /\ e.completion = c.completion
        /\ e.request_queue = c.request_queue
        /\ SamePlaces(c, e, who) /\ RequestAt(e, who).status = "READY"
        /\ e.call = c.call /\ e.notified = c.notified
        /\ e.exited = c.exited
        /\ LinesSound(e) /\ Stamped(e)
        /\ Cached(e) = Cached(c) \cup {RequestAt(c, who).block}
    BY <1>1, <1>3, <1>5, <1>8, FilledIs
  <2>2. d = IF who = "active" THEN e
            ELSE IF ~c.write_buffer.processor_notified
                   THEN [e EXCEPT !.write_buffer.data_complete = TRUE]
            ELSE Released(e)
    BY <1>4, <1>5, <1>8, Zenon DEF Fill, Filled, Claimed, TargetOf
  <2> HIDE DEF e
  <2>3. Cached(e) = InState("MODIFIED")
    BY <1>2, <1>6, <2>1
  <2>4. CountInv(e) /\ ~Unnotified(e)
    BY <1>1, <1>3, <2>1, CountKept DEF CacheInv
  <2>5. RequestsFit(e) /\ OrderInv(e, next, last)
    BY <2>1 DEF CacheInv, RequestsFit, OrderInv
  <2>6. CASE who = "active"
    <3>1. d = e
      BY <2>2, <2>6
    <3>2. /\ e.write_buffer = NULL /\ e.active # NULL
          /\ e.active.status = "READY"
      BY <1>3, <2>1, <2>6 DEF SamePlaces, Present, RequestAt
    <3>3. /\ Awaiting(e, "WAITING_EVICTION") = {}
          /\ Awaiting(e, "WAITING_DATA") = {}
      BY <3>2 DEF Awaiting, Places, Present, RequestAt
    <3>4. Usable(e) = Cached(e)
      BY <2>1, <3>3, NoneEvicted
    <3>5. Leaves(e, {})
      BY <1>6, <2>1, <2>3, <2>4, <3>3, <3>4
         DEF Leaves, Rests, Agrees, DataAwaited, FlushAwaited
    <3>6. CacheInv(e)
      BY <2>1, <2>4, <2>5, <3>2, <3>3
         DEF CacheInv, BufferInv, EvictionsAimed, FetchesAimed, PlaceInv,
             ExitInv
    <3> QED
      BY <1>6, <2>1, <2>5, <3>1, <3>5, <3>6, NothingTold DEF d, SameOptions
  <2>7. CASE who = "write_buffer"
    <3> DEFINE f == [e EXCEPT !.write_buffer = NULL]
    <3>1. c.write_buffer # NULL /\ c.write_buffer.processor_notified
          /\ c.write_buffer_mode = 1
      BY <1>3, <2>7 DEF Present, Unnotified, CacheInv, BufferInv
    <3>2. d = Released(e)
      BY <2>2, <2>7, <3>1
    <3>3. e.active = c.active
      BY <2>1, <2>7 DEF SamePlaces
    <3>4. /\ f \in Cache
          /\ f.policy = c.policy /\ f.write_buffer_mode = c.write_buffer_mode
          /\ f.active = c.active /\ f.queue = c.queue
          /\ f.completion = c.completion /\ f.request_queue = c.request_queue
          /\ f.write_buffer = NULL /\ f.sets = e.sets
          /\ f.access_sequence = e.access_sequence
          /\ f.call = NULL /\ f.notified = NULL /\ ~f.exited
      BY <2>1, <3>3 DEF Cache
    <3>5. d = CASE e.active = NULL -> start_next_request(f)
                [] e.active # NULL /\ e.active.status = "WAITING_BUFFER" ->
                     start_miss(f)
                [] e.active # NULL /\ e.active.status # "WAITING_BUFFER" -> f
      BY <3>2 DEF Released
    <3> HIDE DEF f
    <3>6. /\ LinesSound(f) /\ Stamped(f) /\ RequestsFit(f)
          /\ Cached(f) = InState("MODIFIED")
      BY <2>1, <2>3, <2>5, <3>4
         DEF LinesSound, Stamped, RequestsFit, Cached, HitWays
    <3>7. CountInv(f) /\ ~Unnotified(f)
      BY <2>1, <2>4, <3>3, <3>4 DEF CountInv, Counted, Unnotified
    <3>8. /\ Awaiting(f, "WAITING_EVICTION") = {}
          /\ Awaiting(f, "WAITING_DATA") = {}
      BY <1>3, <2>7, <3>4 DEF Awaiting, Places, Present, RequestAt
    <3>9. Agrees(f, {})
      BY <1>6, <3>4, <3>6, <3>8, NoneEvicted
         DEF Agrees, DataAwaited, FlushAwaited
    <3>10. /\ BufferInv(f) /\ EvictionsAimed(f) /\ FetchesAimed(f) /\ ExitInv(f)
           /\ OrderInv(f, next, last)
      BY <2>1, <2>5, <3>4, <3>8
         DEF BufferInv, EvictionsAimed, FetchesAimed, ExitInv, OrderInv
    <3>11. CASE c.active = NULL
      <4>1. d = start_next_request(f)
        BY <3>3, <3>5, <3>11
      <4>2. CacheInv(f)
        BY <3>4, <3>6, <3>7, <3>10, <3>11 DEF CacheInv, PlaceInv
      <4>3. /\ CacheInv(d) /\ Leaves(d, {}) /\ d.notified = f.notified
            /\ SameOptions(f, d)
            /\ \A m \in Nat, n \in Nat : OrderInv(f, m, n) => OrderInv(d, m, n)
        BY <3>4, <3>7, <3>9, <4>1, <4>2, RequestStarts
      <4>4. OrderInv(d, next, last)
        BY <3>10, <4>3
      <4> QED
        BY <1>6, <3>4, <4>3, <4>4, NothingTold DEF d, SameOptions
    <3>12. CASE c.active # NULL /\ c.active.status = "WAITING_BUFFER"
      <4>1. d = start_miss(f)
        BY <3>3, <3>5, <3>12
      <4>2. CacheInv(d) /\ Leaves(d, {}) /\ SameWork(f, d)
        BY <1>6, <3>1, <3>4, <3>6, <3>7, <3>12, <4>1, MissStarts
      <4>3. /\ d.notified = NULL /\ OrderInv(d, next, last)
            /\ SameOptions(f, d)
        BY <3>4, <3>10, <4>2 DEF SameWork, OrderInv, SameOptions
      <4> QED
        BY <1>6, <3>4, <4>2, <4>3, NothingTold DEF d, SameOptions
    <3>13. CASE c.active # NULL /\ c.active.status # "WAITING_BUFFER"
      <4>1. d = f
        BY <3>3, <3>5, <3>13
      <4>2. c.active.status = "READY"
        BY <1>3, <2>7, <3>13
      <4>3. CacheInv(f)
        BY <3>4, <3>6, <3>7, <3>10, <4>2 DEF CacheInv, PlaceInv
      <4>4. Leaves(f, {})
        BY <3>4, <3>7, <3>9 DEF Leaves, Rests
      <4> QED
        BY <1>6, <3>4, <3>10, <4>1, <4>3, <4>4, NothingTold DEF d, SameOptions
    <3> QED
      BY <3>11, <3>12, <3>13
  <2> QED
    BY <1>3, <2>6, <2>7 DEF Places
<1> QED
  BY <1>7, <1>8

-----------------------------------------------------------------------------
(***************************************************************************)
(* The bus under teamCache.  An instance's operators are its own: these    *)
(* lemmas say that they are this module's, definition by definition.       *)
(***************************************************************************)

\* The processors and the types of requests.
LEMMA SameTypes ==
  BusProofs!Procs = Procs /\ BusProofs!BusReqTypes = BusReqTypes
BY DEF Procs, BusReqTypes, BusProofs!Procs, BusProofs!BusReqTypes

\* permReq
LEMMA SamePermReq == \A p, a : BusProofs!permReq(p, a) <=> permReq(p, a)
BY DEF permReq, cacheMI, SetState, busVars, memVars, busReq, BusReqStarts,
       BusReqAnswers, BusReqQueues, AnswersPending, NewBusReq, enqBusRequest,
       BusProofs!permReq, BusProofs!cacheMI, BusProofs!SetState,
       BusProofs!busVars, BusProofs!memVars, BusProofs!busReq,
       BusProofs!BusReqStarts, BusProofs!BusReqAnswers, BusProofs!BusReqQueues,
       BusProofs!AnswersPending, BusProofs!NewBusReq, BusProofs!enqBusRequest

\* invlReq
LEMMA SameInvlReq == \A p, a : BusProofs!invlReq(p, a) <=> invlReq(p, a)
BY DEF invlReq, SetState, busVars, memVars, busReq, BusReqStarts,
       BusReqAnswers, BusReqQueues, AnswersPending, NewBusReq, enqBusRequest,
       BusProofs!invlReq, BusProofs!SetState,
       BusProofs!busVars, BusProofs!memVars, BusProofs!busReq,
       BusProofs!BusReqStarts, BusProofs!BusReqAnswers, BusProofs!BusReqQueues,
       BusProofs!AnswersPending, BusProofs!NewBusReq, BusProofs!enqBusRequest

\* The ticks that call nothing back.
LEMMA SameQuietTicks ==
  /\ BusProofs!MemoryTick <=> MemoryTick
  /\ BusProofs!BusCounts <=> BusCounts
  /\ BusProofs!BusReleases <=> BusReleases
  /\ BusProofs!BusArbitrates <=> BusArbitrates
<1>1. BusProofs!MemoryTick <=> MemoryTick
  BY DEF memVars, MemIdle, MemCounts, MemSquelches, MemResponds, CacheTransfer,
         busReqCacheTransfer, memReqCallback, MemoryTick, BusProofs!memVars,
         BusProofs!MemIdle, BusProofs!MemCounts, BusProofs!MemSquelches,
         BusProofs!MemResponds, BusProofs!CacheTransfer,
         BusProofs!busReqCacheTransfer, BusProofs!memReqCallback,
         BusProofs!MemoryTick
<1>2. BusProofs!BusCounts <=> BusCounts
  BY DEF BusCounts, BusTicking, memVars,
         BusProofs!BusCounts, BusProofs!BusTicking, BusProofs!memVars
<1>3. BusProofs!BusReleases <=> BusReleases
  BY DEF BusReleases, memVars, BusProofs!BusReleases, BusProofs!memVars
<1>4. BusProofs!BusArbitrates <=> BusArbitrates
  BY DEF BusArbitrates, BusDequeues, HasTurn, Distance, busVars, memVars, Procs,
         BusProofs!BusArbitrates, BusProofs!BusDequeues, BusProofs!HasTurn,
         BusProofs!Distance, BusProofs!busVars, BusProofs!memVars,
         BusProofs!Procs
<1> QED
  BY <1>1, <1>2, <1>3, <1>4

\* The tick that issues a request and lets the others snoop it.
LEMMA SameBusIssues ==
  /\ BusProofs!BusIssues <=> BusIssues
  /\ BusProofs!Invalidated = Invalidated
<1>1. BusProofs!BusIssues <=> BusIssues
  BY DEF BusIssues, BusTicking, Elapses, MemBusReq, SnoopedOwners, Snooped,
         snoopMI, NewBusReq, Procs, BusProofs!BusIssues, BusProofs!BusTicking,
         BusProofs!Elapses, BusProofs!MemBusReq, BusProofs!SnoopedOwners,
         BusProofs!Snooped, BusProofs!snoopMI, BusProofs!NewBusReq,
         BusProofs!Procs
<1>2. BusProofs!Invalidated = Invalidated
  BY DEF Invalidated, Snooped, snoopMI, Procs, BusProofs!Invalidated,
         BusProofs!Snooped, BusProofs!snoopMI, BusProofs!Procs
<1> QED
  BY <1>1, <1>2

\* The tick that delivers the data to the requester.
LEMMA SameBusDelivers ==
  /\ BusProofs!BusDelivers <=> BusDelivers
  /\ BusProofs!Delivery = Delivery
  /\ BusProofs!DeliveredType = DeliveredType
<1>1. BusProofs!BusDelivers <=> BusDelivers
  BY DEF BusDelivers, BusTicking, Elapses, Delivery, DeliveredType, snoopMI,
         SetState, enqBusRequest, NewBusReq, memVars, BusProofs!BusDelivers,
         BusProofs!BusTicking, BusProofs!Elapses, BusProofs!Delivery,
         BusProofs!DeliveredType, BusProofs!snoopMI, BusProofs!SetState,
         BusProofs!enqBusRequest, BusProofs!NewBusReq, BusProofs!memVars
<1>2. BusProofs!Delivery = Delivery
  BY DEF Delivery, DeliveredType, snoopMI, BusProofs!Delivery,
         BusProofs!DeliveredType, BusProofs!snoopMI
<1>3. BusProofs!DeliveredType = DeliveredType
  BY DEF DeliveredType, BusProofs!DeliveredType
<1> QED
  BY <1>1, <1>2, <1>3

\* The types of the state that the bus, memory and coherence keep.
LEMMA SameSystemTypes ==
  /\ BusProofs!SystemTypeOK <=> SystemTypeOK
  /\ BusProofs!SystemTypeOK' <=> SystemTypeOK'
BY DEF SystemTypeOK, MemTypeOK, MemRequest, BusTypeOK, BusReq, BusReqStates,
       BusReqTypes, QueuedReq, CoherTypeOK, States, Phases, Procs,
       BusProofs!SystemTypeOK, BusProofs!MemTypeOK, BusProofs!MemRequest,
       BusProofs!BusTypeOK, BusProofs!BusReq, BusProofs!BusReqStates,
       BusProofs!BusReqTypes, BusProofs!QueuedReq, BusProofs!CoherTypeOK,
       BusProofs!States, BusProofs!Phases, BusProofs!Procs

-----------------------------------------------------------------------------
(***************************************************************************)
(* What has been proved of the bus, for this one.                          *)
(***************************************************************************)

\* The only processor.
LEMMA OneProc == Procs = {Proc}
<1>1. 0 .. (1 - 1) = {0}
  OBVIOUS
<1> QED
  BY <1>1, OneProcessorAssumption DEF Procs, Proc

\* BusInv holds when the bus starts.
LEMMA InitBusInv == BusProofs!Init => BusInv
<1>1. BusProofs!Init => BusProofs!TypeOK /\ BusProofs!Lockstep
  BY BusProofs!InitLockstep, SameTypes, OneProc, ProcessorCountAssumption,
     NullAssumption, DramAssumption, BusDelayAssumption
<1>2. BusProofs!Init => BusProofs!GrantInv
  BY BusProofs!InitGrant, SameTypes, OneProc, ProcessorCountAssumption,
     NullAssumption, DramAssumption, BusDelayAssumption
<1> QED
  BY <1>1, <1>2 DEF BusInv

\* Every step that the interface allows keeps BusInv.
LEMMA NextBusInv ==
  ASSUME BusInv, [BusProofs!Next]_(BusProofs!vars)
  PROVE  BusInv'
<1>1. BusProofs!TypeOK' /\ BusProofs!Lockstep'
  BY BusProofs!NextLockstep, SameTypes, OneProc, ProcessorCountAssumption,
     NullAssumption, DramAssumption, BusDelayAssumption DEF BusInv
<1>2. BusProofs!GrantInv'
  BY BusProofs!NextGrant, SameTypes, OneProc, ProcessorCountAssumption,
     NullAssumption, DramAssumption, BusDelayAssumption DEF BusInv
<1> QED
  BY <1>1, <1>2 DEF BusInv

\* The cache and coherence agree, and without a block that is awaited the
\* bus has no transaction.
LEMMA BusFacts ==
  ASSUME BusInv, SystemTypeOK
  PROVE  /\ WaitingBlocks = InState("INVALID_MODIFIED")
         /\ HeldBlocks = InState("MODIFIED")
         /\ FlushingBlocks \subseteq InState("INVALID")
         /\ WaitingBlocks = {} /\ FlushingBlocks = {} /\ phase = "calls" =>
              pendingRequest = NULL
         /\ phase = "callback" => pendingRequest # NULL
         /\ pendingRequest = NULL => busCountDown = 0
<1> USE SameTypes, OneProc DEF BusInv, BusProofs!GrantInv
<1>1. /\ WaitingBlocks \subseteq Addrs /\ HeldBlocks \subseteq Addrs
      /\ FlushingBlocks \subseteq Addrs
  <2>1. /\ {Proc} \X WaitingBlocks \subseteq {Proc} \X Addrs
        /\ {Proc} \X HeldBlocks \subseteq {Proc} \X Addrs
        /\ {Proc} \X FlushingBlocks \subseteq {Proc} \X Addrs
    BY DEF BusProofs!TypeOK
  <2>2. ASSUME NEW A, {Proc} \X A \subseteq {Proc} \X Addrs
        PROVE  A \subseteq Addrs
    <3>1. ASSUME NEW a \in A PROVE a \in Addrs
      <4>1. <<Proc, a>> \in {Proc} \X A
        OBVIOUS
      <4>2. <<Proc, a>> \in {Proc} \X Addrs
        BY <2>2, <4>1
      <4> QED
        BY <4>2
    <3> QED
      BY <3>1
  <2> QED
    BY <2>1, <2>2
<1>2. ASSUME NEW a \in Addrs
      PROVE  /\ a \in WaitingBlocks <=>
                  coherStates[Proc][a] = "INVALID_MODIFIED"
             /\ a \in HeldBlocks <=> coherStates[Proc][a] = "MODIFIED"
             /\ a \in FlushingBlocks => coherStates[Proc][a] = "INVALID"
  BY DEF BusProofs!CachesAgree, BusProofs!FlushingInvalid
<1>3. /\ WaitingBlocks = InState("INVALID_MODIFIED")
      /\ HeldBlocks = InState("MODIFIED")
      /\ FlushingBlocks \subseteq InState("INVALID")
  BY <1>1, <1>2 DEF InState
<1>4. ASSUME WaitingBlocks = {}, FlushingBlocks = {}, phase = "calls"
      PROVE  pendingRequest = NULL
  BY <1>4 DEF BusProofs!PendingSound, BusProofs!OnBus
<1>5. /\ phase = "callback" => pendingRequest # NULL
      /\ pendingRequest = NULL => busCountDown = 0
  BY DEF BusProofs!Lockstep, BusProofs!InCallback, BusProofs!FreeBus
<1> QED
  BY <1>3, <1>4, <1>5

-----------------------------------------------------------------------------
(***************************************************************************)
(* Each step of the system is a step of the bus, or leaves it alone.       *)
(***************************************************************************)

\* The state of the cache when an entry is over and its call is made.
After(d) == [d EXCEPT !.call = NULL, !.notified = NULL]

\* The call and the callback apart it is what the entry left.
LEMMA AfterIs ==
  ASSUME NEW d, CacheInv(d)
  PROVE  LET x == After(d)
         IN /\ CacheInv(x) /\ x.call = NULL /\ x.notified = NULL
            /\ x.exited = d.exited /\ SameOptions(d, x) /\ x.sets = d.sets
            /\ Usable(x) = Usable(d) /\ DataAwaited(x) = DataAwaited(d)
            /\ FlushAwaited(x) = FlushAwaited(d)
            /\ Unnotified(x) <=> Unnotified(d)
            /\ \A next, last :
                 OrderInv(x, next, last) <=> OrderInv(d, next, last)
<1> DEFINE x == After(d)
<1>1. d \in Cache
  BY DEF CacheInv
<1>2. x \in Cache
  BY <1>1 DEF After, Cache
<1>3. /\ x.policy = d.policy /\ x.write_buffer_mode = d.write_buffer_mode
      /\ x.sets = d.sets /\ x.active = d.active /\ x.queue = d.queue
      /\ x.completion = d.completion /\ x.request_queue = d.request_queue
      /\ x.write_buffer = d.write_buffer
      /\ x.access_sequence = d.access_sequence
      /\ x.call = NULL /\ x.notified = NULL /\ x.exited = d.exited
  BY <1>1 DEF After, Cache
<1> HIDE DEF x
<1>4. \A who : /\ RequestAt(x, who) = RequestAt(d, who)
               /\ Present(x, who) <=> Present(d, who)
  BY <1>3 DEF RequestAt, Present
<1>5. \A status : Awaiting(x, status) = Awaiting(d, status)
  BY <1>4 DEF Awaiting
<1>6. /\ DataAwaited(x) = DataAwaited(d) /\ FlushAwaited(x) = FlushAwaited(d)
      /\ Usable(x) = Usable(d)
  BY <1>3, <1>4, <1>5 DEF DataAwaited, FlushAwaited, Usable, Evicting
<1>7. /\ EvictionsAimed(d) => EvictionsAimed(x)
      /\ FetchesAimed(d) => FetchesAimed(x)
  BY <1>3, <1>4, <1>5, SameAims
<1>8. /\ LinesSound(x) /\ Stamped(x) /\ CountInv(x) /\ BufferInv(x)
      /\ RequestsFit(x) /\ ExitInv(x)
      /\ PlaceInv(d) => PlaceInv(x)
  BY <1>3
     DEF CacheInv, LinesSound, Stamped, CountInv, Counted, Unnotified,
         BufferInv,
         RequestsFit, ExitInv, PlaceInv
<1>9. CacheInv(x)
  BY <1>2, <1>3, <1>7, <1>8 DEF CacheInv
<1>10. /\ Unnotified(x) <=> Unnotified(d)
       /\ \A next, last : OrderInv(x, next, last) <=> OrderInv(d, next, last)
       /\ SameOptions(d, x)
  BY <1>3 DEF Unnotified, OrderInv, SameOptions
<1> QED
  BY <1>3, <1>6, <1>9, <1>10 DEF x

\* What leaves alone what the instance is made of leaves the bus alone.
LEMMA BusStutters ==
  ASSUME UNCHANGED systemVars, WaitingBlocks' = WaitingBlocks,
         FlushingBlocks' = FlushingBlocks, HeldBlocks' = HeldBlocks
  PROVE  UNCHANGED BusProofs!vars
BY DEF systemVars, memVars, busVars, Proc, BusProofs!vars,
       BusProofs!systemVars, BusProofs!memVars, BusProofs!busVars,
       BusProofs!clientVars

\* Nothing is outstanding.
LEMMA NoneOutstanding ==
  ASSUME WaitingBlocks = {}, FlushingBlocks = {}
  PROVE  BusProofs!Cardinality(BusProofs!Outstanding(Proc)) < 1
<1>1. BusProofs!Outstanding(Proc) = {}
  BY DEF BusProofs!Outstanding
<1>2. BusProofs!Cardinality({}) = Cardinality({})
  BY DEF Cardinality, BusProofs!Cardinality
<1> QED
  BY <1>1, <1>2, FS_EmptySet

\* permReq on a block the cache has changes nothing.
LEMMA HeldRequest ==
  ASSUME SystemTypeOK, NEW a \in InState("MODIFIED"), permReq(Proc, a)
  PROVE  UNCHANGED systemVars
<1>1. /\ coherStates \in [Procs -> [Addrs -> States]]
      /\ Proc \in Procs /\ a \in Addrs /\ coherStates[Proc][a] = "MODIFIED"
  BY OneProc DEF SystemTypeOK, CoherTypeOK, InState
<1>2. /\ coherStates' = [coherStates EXCEPT ![Proc][a] = "MODIFIED"]
      /\ UNCHANGED <<memVars, busVars, phase>>
  BY <1>1 DEF permReq, SetState, cacheMI
<1>3. coherStates' = coherStates
  BY <1>1, <1>2
<1> QED
  BY <1>2, <1>3 DEF systemVars

\* What an entry left is a step of the bus.
LEMMA RunsStep ==
  ASSUME BusInv, SystemTypeOK, phase # "bus", event' = NULL,
         NEW d, CacheInv(d), Leaves(d, FlushingBlocks), Runs(d)
  PROVE  /\ [BusProofs!Next]_(BusProofs!vars)
         /\ phase' = phase
         /\ ~d.exited /\ Unnotified(d) /\ phase = "calls"
            /\ pendingRequest' # NULL
              => pendingRequest'.currentState = "WAITING_CACHE"
<1>1. /\ cache' = After(d)
      /\ CASE d.call = NULL -> UNCHANGED systemVars
           [] d.call # NULL /\ d.call.op = "permReq" ->
                permReq(Proc, d.call.addr)
           [] d.call # NULL /\ d.call.op = "invlReq" ->
                invlReq(Proc, d.call.addr)
  BY DEF Runs, After
<1>2. /\ WaitingBlocks' = IF d.exited THEN InState("INVALID_MODIFIED")'
                          ELSE DataAwaited(d)
      /\ FlushingBlocks' = FlushAwaited(d)
      /\ HeldBlocks' = IF d.exited THEN InState("MODIFIED")' ELSE Usable(d)
  <2>1. /\ cache'.exited = d.exited /\ Usable(cache') = Usable(d)
        /\ DataAwaited(cache') = DataAwaited(d)
        /\ FlushAwaited(cache') = FlushAwaited(d)
    BY <1>1, AfterIs
  <2> QED
    BY <2>1 DEF WaitingBlocks, FlushingBlocks, HeldBlocks, Told
<1>3. /\ WaitingBlocks = InState("INVALID_MODIFIED")
      /\ HeldBlocks = InState("MODIFIED")
      /\ WaitingBlocks = {} /\ FlushingBlocks = {} /\ phase = "calls" =>
           pendingRequest = NULL
      /\ phase = "callback" => pendingRequest # NULL
  BY BusFacts
<1>4. UNCHANGED systemVars =>
        /\ InState("INVALID_MODIFIED")' = InState("INVALID_MODIFIED")
        /\ InState("MODIFIED")' = InState("MODIFIED") /\ phase' = phase
  BY DEF InState, systemVars
<1>5. CASE Rests(d, FlushingBlocks)
  <2>1. UNCHANGED systemVars
    BY <1>1, <1>5 DEF Rests
  <2>2. /\ WaitingBlocks' = WaitingBlocks /\ FlushingBlocks' = FlushingBlocks
        /\ HeldBlocks' = HeldBlocks
    BY <1>2, <1>3, <1>5 DEF Rests, Agrees
  <2> QED
    BY <1>4, <1>5, <2>1, <2>2, BusStutters DEF Rests
<1>6. CASE Exits(d, FlushingBlocks)
  <2>1. UNCHANGED systemVars
    <3>1. CASE d.call = NULL
      BY <1>1, <3>1
    <3>2. CASE \E a \in InState("MODIFIED") :
                 d.call = [op |-> "permReq", addr |-> a]
      <4>1. PICK a \in InState("MODIFIED") :
              d.call = [op |-> "permReq", addr |-> a]
        BY <3>2
      <4>2. d.call # NULL /\ d.call.op = "permReq" /\ d.call.addr = a
        BY <4>1, TeamNullAssumption DEF Call, InState
      <4>3. permReq(Proc, a)
        BY <1>1, <4>2
      <4> QED
        BY <4>3, HeldRequest
    <3> QED
      BY <1>6, <3>1, <3>2 DEF Exits
  <2>2. /\ WaitingBlocks' = WaitingBlocks /\ FlushingBlocks' = FlushingBlocks
        /\ HeldBlocks' = HeldBlocks
    BY <1>2, <1>3, <1>4, <1>6, <2>1 DEF Exits
  <2> QED
    BY <1>4, <1>6, <2>1, <2>2, BusStutters DEF Exits
<1>7. ASSUME FlushingBlocks = {}, InState("INVALID_MODIFIED") = {}
      PROVE  /\ BusProofs!Cardinality(BusProofs!Outstanding(Proc)) < 1
             /\ BusProofs!Running(Proc) /\ Proc \in BusProofs!Procs
  <2>1. phase = "calls" \/ (phase = "callback" /\ pendingRequest.procNum = Proc)
    <3>1. phase \in Phases /\ pendingRequest \in BusReq \cup {NULL}
      BY DEF SystemTypeOK, BusTypeOK
    <3>2. pendingRequest # NULL => pendingRequest.procNum = Proc
      BY <3>1, OneProc DEF BusReq
    <3> QED
      BY <1>3, <3>1, <3>2 DEF Phases
  <2>2. BusProofs!Running(Proc)
    BY <2>1 DEF BusProofs!Running
  <2>3. Proc \in BusProofs!Procs
    BY OneProc, SameTypes
  <2> QED
    BY <1>3, <1>7, <2>2, <2>3, NoneOutstanding
<1>8. ASSUME NEW a \in Addrs, Asks(d, a), FlushingBlocks = {}
      PROVE  /\ BusProofs!Next /\ phase' = phase
             /\ phase = "calls" =>
                  pendingRequest'.currentState = "WAITING_CACHE"
  <2>1. /\ permReq(Proc, a) /\ coherStates[Proc][a] = "INVALID"
    <3>1. d.call # NULL /\ d.call.op = "permReq" /\ d.call.addr = a
      BY <1>8, TeamNullAssumption DEF Asks, Call
    <3>2. coherStates[Proc][a] \in States
      BY OneProc DEF SystemTypeOK, CoherTypeOK
    <3> QED
      BY <1>1, <1>8, <3>1, <3>2 DEF Asks, InState, States
  <2>2. /\ SetState(Proc, a, "INVALID_MODIFIED") /\ busReq("BUSWR", a, Proc)
        /\ phase' = phase
    BY <2>1 DEF permReq, cacheMI
  <2>3. /\ WaitingBlocks' = {a} /\ FlushingBlocks' = {}
        /\ HeldBlocks' = HeldBlocks
    BY <1>2, <1>3, <1>8 DEF Asks
  <2>4. BusProofs!permReq(Proc, a)
        /\ ~BusProofs!cacheMI(coherStates[Proc][a]).permAvail
    BY <2>1, SamePermReq DEF BusProofs!cacheMI
  <2>5. BusProofs!Access(Proc, a)
    <3>1. WaitingBlocks = {}
      BY <1>3, <1>8 DEF Asks
    <3>2. ({Proc} \X WaitingBlocks)'
            = {Proc} \X WaitingBlocks \cup {<<Proc, a>>}
      BY <2>3, <3>1 DEF Proc
    <3>3. /\ ({Proc} \X FlushingBlocks)' = {Proc} \X FlushingBlocks
          /\ ({Proc} \X HeldBlocks)' = {Proc} \X HeldBlocks
      BY <1>8, <2>3 DEF Proc
    <3>4. <<Proc, a>> \notin {Proc} \X FlushingBlocks
      BY <1>8
    <3>5. /\ BusProofs!Cardinality(BusProofs!Outstanding(Proc)) < 1
          /\ BusProofs!Running(Proc)
      BY <1>7, <1>8 DEF Asks
    <3> QED
      BY <2>4, <3>2, <3>3, <3>4, <3>5 DEF BusProofs!Access
  <2>6. BusProofs!Next
    BY <1>7, <1>8, <2>5 DEF BusProofs!Next, Asks
  <2>7. ASSUME phase = "calls"
        PROVE  pendingRequest'.currentState = "WAITING_CACHE"
    <3>1. pendingRequest = NULL
      BY <1>3, <1>8, <2>7 DEF Asks
    <3> QED
      BY <2>2, <3>1
         DEF busReq, BusReqStarts, BusReqAnswers, BusReqQueues, AnswersPending,
             NewBusReq
  <2> QED
    BY <2>2, <2>6, <2>7
<1>9. ASSUME NEW a \in Addrs, GivesUp(d, a), FlushingBlocks = {}
      PROVE  /\ BusProofs!Next /\ phase' = phase
             /\ phase = "calls" =>
                  pendingRequest'.currentState = "WAITING_CACHE"
  <2>1. /\ invlReq(Proc, a) /\ coherStates[Proc][a] = "MODIFIED"
    <3>1. d.call # NULL /\ d.call.op = "invlReq" /\ d.call.addr = a
      BY <1>9, TeamNullAssumption DEF GivesUp, Call
    <3> QED
      BY <1>1, <1>9, <3>1 DEF GivesUp, InState
  <2>2. busReq("DATA", a, Proc) /\ phase' = phase
    BY <2>1 DEF invlReq
  <2>3. /\ WaitingBlocks' = {} /\ FlushingBlocks' = {a}
        /\ HeldBlocks' = HeldBlocks \ {a}
    BY <1>2, <1>3, <1>9 DEF GivesUp
  <2>4. BusProofs!invlReq(Proc, a)
    BY <2>1, SameInvlReq
  <2>5. BusProofs!Evict(Proc, a)
    <3>1. WaitingBlocks = {}
      BY <1>3, <1>9 DEF GivesUp
    <3>2. ({Proc} \X WaitingBlocks)' = {Proc} \X WaitingBlocks
      BY <2>3, <3>1 DEF Proc
    <3>3. /\ ({Proc} \X FlushingBlocks)'
               = {Proc} \X FlushingBlocks \cup {<<Proc, a>>}
          /\ ({Proc} \X HeldBlocks)' = {Proc} \X HeldBlocks \ {<<Proc, a>>}
      BY <1>9, <2>3 DEF Proc
    <3>4. <<Proc, a>>
            \notin ({Proc} \X WaitingBlocks) \cup ({Proc} \X FlushingBlocks)
      BY <1>9, <3>1
    <3>5. /\ BusProofs!Cardinality(BusProofs!Outstanding(Proc)) < 1
          /\ BusProofs!Running(Proc)
      BY <1>7, <1>9 DEF GivesUp
    <3> QED
      BY <2>1, <2>4, <3>2, <3>3, <3>4, <3>5 DEF BusProofs!Evict
  <2>6. BusProofs!Next
    BY <1>7, <1>9, <2>5 DEF BusProofs!Next, GivesUp
  <2>7. ASSUME phase = "calls"
        PROVE  pendingRequest'.currentState = "WAITING_CACHE"
    <3>1. pendingRequest = NULL
      BY <1>3, <1>9, <2>7 DEF GivesUp
    <3> QED
      BY <2>2, <3>1
         DEF busReq, BusReqStarts, BusReqAnswers, BusReqQueues, AnswersPending,
             NewBusReq
  <2> QED
    BY <2>2, <2>6, <2>7
<1> QED
  BY <1>5, <1>6, <1>8, <1>9 DEF Leaves, Rests, Exits

\* An entry of the cache is a step of the bus and keeps the cache's invariant.
LEMMA EntryStep ==
  ASSUME BusInv, SystemTypeOK, TeamCacheInv, phase # "bus",
         event' = NULL, turn' = "coherence",
         NEW d, Keeps(d, FlushingBlocks, memOpTag, issued),
         SameOptions(cache, d), Runs(d)
  PROVE  [BusProofs!Next]_(BusProofs!vars) /\ TeamCacheInv'
<1>1. CacheInv(d) /\ Leaves(d, FlushingBlocks)
  BY DEF Keeps
<1>2. /\ [BusProofs!Next]_(BusProofs!vars) /\ phase' = phase
      /\ ~d.exited /\ Unnotified(d) /\ phase = "calls" /\ pendingRequest' # NULL
           => pendingRequest'.currentState = "WAITING_CACHE"
  BY <1>1, RunsStep
<1>3. cache' = After(d) /\ issued' = issued /\ memOpTag' = Expected(d, memOpTag)
  BY DEF Runs, After, Expected, memOpCallback
<1>4. /\ CacheInv(cache') /\ cache'.call = NULL /\ cache'.notified = NULL
      /\ cache'.exited = d.exited /\ SameOptions(d, cache')
      /\ Unnotified(cache') <=> Unnotified(d)
      /\ \A next, last :
           OrderInv(cache', next, last) <=> OrderInv(d, next, last)
  BY <1>1, <1>3, AfterIs
<1>5. /\ memOpTag' \in 0 .. issued' /\ issued' \in 0 .. MaxRequests
      /\ OrderInv(cache', memOpTag', issued')
  BY <1>3, <1>4 DEF Keeps, TeamCacheInv
<1>6. <<cache'.policy, cache'.write_buffer_mode>> \in Configurations
  BY <1>4 DEF SameOptions, TeamCacheInv
<1>7. EventInv'
  BY DEF EventInv
<1>8. TurnInv'
  <2>1. phase \in {"calls", "callback"}
    BY DEF SystemTypeOK, Phases
  <2>2. ASSUME phase' # "callback", ~cache'.exited, Unnotified(cache'),
               pendingRequest' # NULL
        PROVE  pendingRequest'.currentState = "WAITING_CACHE"
    BY <1>2, <1>4, <2>1, <2>2
  <2> QED
    BY <2>2 DEF TurnInv
<1> QED
  BY <1>2, <1>4, <1>5, <1>6, <1>7, <1>8 DEF TeamCacheInv

\* The cache and coherence, where no callback is about to run.
LEMMA AgreeNow ==
  ASSUME BusInv, SystemTypeOK, ~cache.exited, event = NULL
  PROVE  Agrees(cache, FlushingBlocks)
BY BusFacts DEF Agrees, WaitingBlocks, FlushingBlocks, HeldBlocks, Told

\* cache_access_tick
LEMMA CacheTickStep ==
  ASSUME BusInv, SystemTypeOK, TeamCacheInv, ~cache.exited, CacheTick
  PROVE  [BusProofs!Next]_(BusProofs!vars) /\ TeamCacheInv'
<1> DEFINE d == cache_access_tick(cache)
<1>1. /\ turn = "cache" /\ turn' = "coherence" /\ event' = event /\ Runs(d)
  BY DEF CacheTick
<1>2. event = NULL /\ phase = "calls"
  BY <1>1 DEF TeamCacheInv, EventInv, TurnInv
<1>3. Agrees(cache, FlushingBlocks)
  BY <1>2, AgreeNow
<1>4. issued \in Nat /\ memOpTag \in 0 .. issued
  BY MaxRequestsAssumption DEF TeamCacheInv
<1>5. Keeps(d, FlushingBlocks, memOpTag, issued) /\ SameOptions(cache, d)
  BY <1>3, <1>4, TickKeeps DEF TeamCacheInv
<1> HIDE DEF d
<1> QED
  BY <1>1, <1>2, <1>5, EntryStep

\* cache_access_event
LEMMA CacheEventStep ==
  ASSUME BusInv, SystemTypeOK, TeamCacheInv, ~cache.exited, CacheEvent
  PROVE  [BusProofs!Next]_(BusProofs!vars) /\ TeamCacheInv'
<1> DEFINE d == cache_access_event(cache, event.type, event.addr)
<1>1. event # NULL /\ event' = NULL /\ turn' = turn /\ Runs(d)
  BY DEF CacheEvent
<1>2. /\ turn = "coherence" /\ phase = "callback" /\ ~Unnotified(cache)
      /\ \/ event.type = "DATA_RECV" /\ event.addr \in DataAwaited(cache)
         \/ event.type = "FLUSH_COMPLETE" /\ event.addr \in FlushAwaited(cache)
  BY <1>1 DEF TeamCacheInv, EventInv
<1>3. /\ WaitingBlocks = InState("INVALID_MODIFIED")
      /\ HeldBlocks = InState("MODIFIED")
  BY BusFacts
<1>4. issued \in Nat /\ memOpTag \in 0 .. issued
  BY MaxRequestsAssumption DEF TeamCacheInv
<1>5. Keeps(d, FlushingBlocks, memOpTag, issued) /\ SameOptions(cache, d)
  <2>1. CASE event.type = "DATA_RECV" /\ event.addr \in DataAwaited(cache)
    <3>1. /\ FlushingBlocks = FlushAwaited(cache)
          /\ WaitingBlocks = DataAwaited(cache) \ {event.addr}
          /\ HeldBlocks = Usable(cache) \cup {event.addr}
      BY <1>1, <2>1 DEF FlushingBlocks, WaitingBlocks, HeldBlocks, Told
    <3>2. d = cache_access_event(cache, "DATA_RECV", event.addr)
      BY <2>1
    <3> HIDE DEF d
    <3> QED
      BY <1>2, <1>3, <1>4, <2>1, <3>1, <3>2, DataKeeps DEF TeamCacheInv
  <2>2. CASE event.type = "FLUSH_COMPLETE" /\ event.addr \in FlushAwaited(cache)
    <3>1. /\ FlushingBlocks = FlushAwaited(cache) \ {event.addr}
          /\ WaitingBlocks = DataAwaited(cache)
          /\ HeldBlocks = Usable(cache)
      BY <1>1, <2>2 DEF FlushingBlocks, WaitingBlocks, HeldBlocks, Told
    <3>2. d = cache_access_event(cache, "FLUSH_COMPLETE", event.addr)
      BY <2>2
    <3> HIDE DEF d
    <3> QED
      BY <1>2, <1>3, <1>4, <2>2, <3>1, <3>2, FlushKeeps DEF TeamCacheInv
  <2> QED
    BY <1>2, <2>1, <2>2
<1> HIDE DEF d
<1> QED
  BY <1>1, <1>2, <1>5, EntryStep

\* What leaves the cache and coherence's states alone.
LEMMA BlocksKept ==
  ASSUME UNCHANGED <<cache, event, coherStates>>
  PROVE  /\ WaitingBlocks' = WaitingBlocks /\ FlushingBlocks' = FlushingBlocks
         /\ HeldBlocks' = HeldBlocks
BY DEF WaitingBlocks, FlushingBlocks, HeldBlocks, Told, InState

\* Coherence's tick, where it calls nothing back.
LEMMA CoherenceTickStep ==
  ASSUME BusInv, SystemTypeOK, TeamCacheInv, ~cache.exited,
         CoherenceTick \/ CallbackReturns
  PROVE  BusProofs!Next /\ TeamCacheInv'
<1>1. UNCHANGED <<cache, issued, memOpTag, event>> /\ turn = "coherence"
  BY DEF CoherenceTick, CallbackReturns, cacheVars
<1>2. ASSUME MemoryTick \/ BusCounts \/ BusArbitrates \/ BusReleases
      PROVE  BusProofs!Next
  <2>1. UNCHANGED coherStates
    BY <1>2 DEF MemoryTick, BusCounts, BusArbitrates, BusReleases
  <2>2. BusProofs!QuietTick
    BY <1>1, <1>2, <2>1, BlocksKept, SameQuietTicks
       DEF BusProofs!QuietTick, BusProofs!clientVars, Proc
  <2> QED
    BY <2>2 DEF BusProofs!Next, BusProofs!Tick
<1>3. ASSUME BusIssues PROVE BusProofs!Next
  <2>1. pendingRequest \in BusReq /\ pendingRequest.procNum = Proc
    <3>1. pendingRequest # NULL
      BY <1>3, BusFacts DEF BusIssues, BusTicking, SystemTypeOK, BusTypeOK
    <3> QED
      BY <3>1, OneProc DEF SystemTypeOK, BusTypeOK, BusReq
  <2>2. Invalidated = {}
    BY <2>1, OneProc DEF Invalidated
  <2>3. UNCHANGED coherStates
    <3>1. coherStates' = [i \in Procs |-> coherStates[i]]
      BY <1>3, <2>1, OneProc DEF BusIssues
    <3> QED
      BY <3>1 DEF SystemTypeOK, CoherTypeOK
  <2>4. BusProofs!Issue
    BY <1>1, <1>3, <2>2, <2>3, BlocksKept, SameBusIssues
       DEF BusProofs!Issue, Proc
  <2> QED
    BY <2>4 DEF BusProofs!Next, BusProofs!Tick
<1>4. BusProofs!Next
  BY <1>2, <1>3 DEF CoherenceTick, CallbackReturns
<1>5. /\ turn' \in {"cache", "coherence", "processor"}
      /\ event = NULL
  BY <1>1 DEF CoherenceTick, CallbackReturns, MemoryTick, BusCounts, BusTicking,
              BusIssues, BusArbitrates, TeamCacheInv, EventInv
<1>6. TurnInv'
  <2>1. CASE turn' = "processor" /\ phase' = "calls"
    BY <2>1 DEF TurnInv
  <2>2. CASE MemoryTick /\ turn' = turn
    <3>1. /\ pendingRequest' # NULL => pendingRequest # NULL
          /\ pendingRequest # NULL =>
               pendingRequest'.currentState = pendingRequest.currentState
      <4>1. pendingRequest # NULL => pendingRequest \in BusReq
        BY DEF SystemTypeOK, BusTypeOK
      <4> QED
        BY <2>2, <4>1 DEF MemoryTick, memReqCallback, BusReq
    <3>2. phase = "calls"
      BY <2>2 DEF MemoryTick
    <3> QED
      BY <1>1, <2>2, <3>1, <3>2 DEF TurnInv, TeamCacheInv
  <2> QED
    BY <2>1, <2>2 DEF CoherenceTick, CallbackReturns, BusCounts, BusIssues,
                      BusArbitrates, BusReleases
<1>7. EventInv'
  BY <1>1, <1>5 DEF EventInv
<1>8. TeamCacheInv'
  BY <1>1, <1>5, <1>6, <1>7 DEF TeamCacheInv
<1> QED
  BY <1>4, <1>8

\* Coherence calls back: the cache awaits what it is told.
LEMMA CallsBackStep ==
  ASSUME BusInv, SystemTypeOK, TeamCacheInv, ~cache.exited, CallsBack
  PROVE  BusProofs!Next /\ TeamCacheInv'
<1> DEFINE a == pendingRequest.addr
<1>1. /\ turn = "coherence" /\ turn' = turn /\ phase = "bus"
      /\ phase' = "callback" /\ BusDelivers
      /\ event' = [type |-> Delivery.ca, addr |-> a]
      /\ UNCHANGED <<cache, issued, memOpTag>>
  BY DEF CallsBack, BusDelivers, BusTicking, cacheVars
<1>2. event = NULL
  BY <1>1 DEF TeamCacheInv, EventInv
<1>3. /\ pendingRequest \in BusReq /\ pendingRequest # NULL
      /\ pendingRequest.currentState # "WAITING_CACHE"
      /\ DeliveredType = "DATA"
      /\ <<pendingRequest.procNum, a>>
           \in ({Proc} \X WaitingBlocks) \cup ({Proc} \X FlushingBlocks)
  <2>1. /\ BusProofs!OnBus /\ BusProofs!DeliveredType = "DATA"
        /\ BusProofs!PendingIs({"WAITING_MEMORY", "TRANSFERING_CACHE"})
    BY <1>1, BusProofs!DeliveredAnswer, SameBusDelivers, SameTypes, OneProc,
       ProcessorCountAssumption, NullAssumption, DramAssumption,
       BusDelayAssumption DEF BusInv
  <2>2. pendingRequest # NULL
    BY <2>1 DEF BusProofs!OnBus
  <2> QED
    BY <2>1, <2>2, SameBusDelivers
       DEF BusInv, BusProofs!GrantInv, BusProofs!PendingSound,
           BusProofs!PendingIs, SystemTypeOK, BusTypeOK
<1>4. a \in Addrs /\ pendingRequest.procNum = Proc
      /\ (a \in WaitingBlocks \/ a \in FlushingBlocks)
  BY <1>3, OneProc DEF BusReq
<1>5. /\ WaitingBlocks = InState("INVALID_MODIFIED")
      /\ HeldBlocks = InState("MODIFIED")
      /\ FlushingBlocks \subseteq InState("INVALID")
  BY BusFacts
<1>6. /\ WaitingBlocks = DataAwaited(cache)
      /\ FlushingBlocks = FlushAwaited(cache)
      /\ HeldBlocks = Usable(cache)
  BY <1>2 DEF WaitingBlocks, FlushingBlocks, HeldBlocks, Told
<1>7. ~Unnotified(cache)
  BY <1>1, <1>3 DEF TeamCacheInv, TurnInv
<1>8. /\ WaitingBlocks' = DataAwaited(cache) \ Told("DATA_RECV")'
      /\ FlushingBlocks' = FlushAwaited(cache) \ Told("FLUSH_COMPLETE")'
      /\ HeldBlocks' = Usable(cache) \cup Told("DATA_RECV")'
  BY <1>1 DEF WaitingBlocks, FlushingBlocks, HeldBlocks
<1>9. ASSUME a \in WaitingBlocks
      PROVE  BusProofs!Next /\ event' \in Event /\ EventInv'
  <2>1. coherStates[Proc][a] = "INVALID_MODIFIED"
    BY <1>5, <1>9 DEF InState
  <2>2. Delivery.ca = "DATA_RECV"
    BY <1>3, <1>4, <2>1 DEF Delivery, snoopMI
  <2>3. event' \in Event /\ event' # NULL /\ event'.type = "DATA_RECV"
        /\ event'.addr = a
    BY <1>1, <1>4, <2>2, TeamNullAssumption DEF Event
  <2>4. /\ WaitingBlocks' = WaitingBlocks \ {a}
        /\ FlushingBlocks' = FlushingBlocks
        /\ HeldBlocks' = HeldBlocks \cup {a}
    BY <1>6, <1>8, <2>3 DEF Told
  <2>5. /\ ({Proc} \X WaitingBlocks)' = {Proc} \X WaitingBlocks \ {<<Proc, a>>}
        /\ ({Proc} \X FlushingBlocks)' = {Proc} \X FlushingBlocks
        /\ ({Proc} \X HeldBlocks)' = {Proc} \X HeldBlocks \cup {<<Proc, a>>}
    BY <2>4 DEF Proc
  <2>6. BusProofs!Deliver
    BY <1>1, <1>4, <2>2, <2>5, SameBusDelivers DEF BusProofs!Deliver
  <2>7. EventInv'
    BY <1>1, <1>6, <1>7, <1>9, <2>3 DEF EventInv
  <2> QED
    BY <2>3, <2>6, <2>7 DEF BusProofs!Next, BusProofs!Tick
<1>10. ASSUME a \in FlushingBlocks
       PROVE  BusProofs!Next /\ event' \in Event /\ EventInv'
  <2>1. coherStates[Proc][a] = "INVALID"
    BY <1>5, <1>10 DEF InState
  <2>2. Delivery.ca = "FLUSH_COMPLETE"
    BY <1>3, <1>4, <2>1 DEF Delivery, snoopMI
  <2>3. event' \in Event /\ event' # NULL /\ event'.type = "FLUSH_COMPLETE"
        /\ event'.addr = a
    BY <1>1, <1>4, <2>2, TeamNullAssumption DEF Event
  <2>4. /\ WaitingBlocks' = WaitingBlocks /\ HeldBlocks' = HeldBlocks
        /\ FlushingBlocks' = FlushingBlocks \ {a}
    BY <1>6, <1>8, <2>3 DEF Told
  <2>5. /\ ({Proc} \X WaitingBlocks)' = {Proc} \X WaitingBlocks
        /\ ({Proc} \X FlushingBlocks)'
             = {Proc} \X FlushingBlocks \ {<<Proc, a>>}
        /\ ({Proc} \X HeldBlocks)' = {Proc} \X HeldBlocks
    BY <2>4 DEF Proc
  <2>6. BusProofs!Deliver
    BY <1>1, <1>4, <2>2, <2>5, SameBusDelivers DEF BusProofs!Deliver
  <2>7. EventInv'
    BY <1>1, <1>6, <1>7, <1>10, <2>3 DEF EventInv
  <2> QED
    BY <2>3, <2>6, <2>7 DEF BusProofs!Next, BusProofs!Tick
<1>11. BusProofs!Next /\ event' \in Event /\ EventInv'
  BY <1>4, <1>9, <1>10
<1>12. TurnInv'
  BY <1>1 DEF TurnInv
<1> QED
  BY <1>1, <1>11, <1>12 DEF TeamCacheInv

\* What leaves the cache's state and the blocks of coherence alone leaves the
\* bus alone.
LEMMA ClientLeftAlone ==
  ASSUME UNCHANGED <<systemVars, event>>, cache'.exited = cache.exited,
         DataAwaited(cache') = DataAwaited(cache),
         FlushAwaited(cache') = FlushAwaited(cache),
         Usable(cache') = Usable(cache)
  PROVE  UNCHANGED BusProofs!vars
<1>1. /\ WaitingBlocks' = WaitingBlocks /\ FlushingBlocks' = FlushingBlocks
      /\ HeldBlocks' = HeldBlocks
  BY DEF WaitingBlocks, FlushingBlocks, HeldBlocks, Told, InState, systemVars
<1> QED
  BY <1>1, BusStutters

\* A request that the processor makes waits behind the others.
LEMMA RequestQueued ==
  ASSUME NEW c, CacheInv(c), NEW original \in Original,
         ~Refused(original.memAddress, original.size)
  PROVE  LET d == cache_access_request(c, original)
         IN /\ CacheInv(d) /\ SameOptions(c, d)
            /\ d.call = c.call /\ d.notified = c.notified
            /\ d.exited = c.exited
            /\ DataAwaited(d) = DataAwaited(c)
            /\ FlushAwaited(d) = FlushAwaited(c) /\ Usable(d) = Usable(c)
            /\ Unnotified(d) <=> Unnotified(c)
            /\ d.completion = c.completion
            /\ d.request_queue = Append(c.request_queue, original)
<1> DEFINE d == cache_access_request(c, original)
<1>1. c \in Cache
  BY DEF CacheInv
<1>2. d.request_queue = Append(c.request_queue, original)
  BY <1>1 DEF cache_access_request, Cache
<1>3. /\ c.request_queue \in Seq(Original)
      /\ Append(c.request_queue, original) \in Seq(Original)
      /\ Len(Append(c.request_queue, original)) = Len(c.request_queue) + 1
      /\ Len(c.request_queue) \in Nat
      /\ \A i \in 1 .. Len(c.request_queue) :
           Append(c.request_queue, original)[i] = c.request_queue[i]
      /\ Append(c.request_queue, original)[Len(c.request_queue) + 1] = original
  BY <1>1 DEF Cache
<1>4. d \in Cache
  BY <1>1, <1>3 DEF cache_access_request, Cache
<1>5. /\ d.policy = c.policy /\ d.write_buffer_mode = c.write_buffer_mode
      /\ d.sets = c.sets /\ d.active = c.active /\ d.queue = c.queue
      /\ d.completion = c.completion /\ d.write_buffer = c.write_buffer
      /\ d.access_sequence = c.access_sequence
      /\ d.call = c.call /\ d.notified = c.notified /\ d.exited = c.exited
  BY <1>1 DEF cache_access_request, Cache
<1> HIDE DEF d
<1>6. \A who : /\ RequestAt(d, who) = RequestAt(c, who)
               /\ Present(d, who) <=> Present(c, who)
  BY <1>5 DEF RequestAt, Present
<1>7. \A status : Awaiting(d, status) = Awaiting(c, status)
  BY <1>6 DEF Awaiting
<1>8. /\ DataAwaited(d) = DataAwaited(c) /\ FlushAwaited(d) = FlushAwaited(c)
      /\ Usable(d) = Usable(c)
  BY <1>5, <1>6, <1>7 DEF DataAwaited, FlushAwaited, Usable, Evicting
<1>9. /\ EvictionsAimed(c) => EvictionsAimed(d)
      /\ FetchesAimed(c) => FetchesAimed(d)
  BY <1>5, <1>6, <1>7, SameAims
<1>10. /\ LinesSound(d) /\ Stamped(d) /\ CountInv(d) /\ BufferInv(d)
       /\ ExitInv(d)
       /\ PlaceInv(c) => PlaceInv(d)
  BY <1>5
     DEF CacheInv, LinesSound, Stamped, CountInv, Counted, Unnotified,
         BufferInv,
         ExitInv, PlaceInv
<1>11. RequestsFit(d)
  <2>1. ASSUME NEW i \in 1 .. Len(d.request_queue)
        PROVE  ~Refused(d.request_queue[i].memAddress, d.request_queue[i].size)
    <3>1. i \in 1 .. Len(c.request_queue) \/ i = Len(c.request_queue) + 1
      BY <1>2, <1>3
    <3>2. CASE i \in 1 .. Len(c.request_queue)
      BY <1>2, <1>3, <3>2 DEF CacheInv, RequestsFit
    <3>3. CASE i = Len(c.request_queue) + 1
      BY <1>2, <1>3, <3>3
    <3> QED
      BY <3>1, <3>2, <3>3
  <2> QED
    BY <2>1 DEF RequestsFit
<1>12. CacheInv(d)
  BY <1>4, <1>5, <1>9, <1>10, <1>11 DEF CacheInv
<1>13. (Unnotified(d) <=> Unnotified(c)) /\ SameOptions(c, d)
  BY <1>5 DEF Unnotified, SameOptions
<1> QED
  BY <1>2, <1>5, <1>8, <1>12, <1>13 DEF d

\* The processor issues a request.
LEMMA IssueStep ==
  ASSUME BusInv, SystemTypeOK, TeamCacheInv, ~cache.exited,
         NEW op \in Ops, NEW access \in Accesses,
         Issue(op, access[1], access[2])
  PROVE  UNCHANGED BusProofs!vars /\ TeamCacheInv'
<1> DEFINE original == [tag |-> issued, op |-> op, memAddress |-> access[1],
                        size |-> access[2]]
           d == cache_access_request(cache, original)
<1>1. /\ turn = "processor" /\ issued < MaxRequests
      /\ cache' = d /\ issued' = issued + 1
      /\ UNCHANGED <<systemVars, memOpTag, event, turn>>
  BY DEF Issue
<1>2. issued \in Nat /\ issued \in 0 .. MaxRequests /\ memOpTag \in 0 .. issued
  BY MaxRequestsAssumption DEF TeamCacheInv
<1>3. /\ original \in Original /\ original.tag = issued
      /\ ~Refused(original.memAddress, original.size)
  BY <1>2, AccessesAssumption DEF Original
<1>4. CacheInv(cache) /\ cache.call = NULL /\ cache.notified = NULL
  BY DEF TeamCacheInv
<1> HIDE DEF original
<1>5. /\ CacheInv(d) /\ SameOptions(cache, d)
      /\ d.call = cache.call /\ d.notified = cache.notified
      /\ d.exited = cache.exited
      /\ DataAwaited(d) = DataAwaited(cache)
      /\ FlushAwaited(d) = FlushAwaited(cache) /\ Usable(d) = Usable(cache)
      /\ Unnotified(d) <=> Unnotified(cache)
      /\ d.completion = cache.completion
      /\ d.request_queue = Append(cache.request_queue, original)
  BY <1>3, <1>4, RequestQueued
<1> HIDE DEF d
<1>6. UNCHANGED BusProofs!vars
  BY <1>1, <1>5, ClientLeftAlone
<1>7. OrderInv(d, memOpTag, issued + 1)
  <2>1. /\ Len(d.request_queue) = Len(cache.request_queue) + 1
        /\ Len(cache.request_queue) \in Nat
        /\ \A i \in 1 .. Len(cache.request_queue) :
             d.request_queue[i] = cache.request_queue[i]
        /\ d.request_queue[Len(cache.request_queue) + 1] = original
    <3>1. cache.request_queue \in Seq(Original)
      BY <1>4 DEF CacheInv, Cache
    <3> QED
      BY <1>3, <1>5, <3>1
  <2>2. OrderInv(cache, memOpTag, issued)
    BY DEF TeamCacheInv
  <2>5. d.completion = cache.completion
    BY <1>5
  <2> DEFINE n == Len(cache.request_queue)
  <2>3. CASE cache.completion = NULL
    <3>1. n = issued - memOpTag
      BY <2>2, <2>3 DEF OrderInv
    <3>2. Len(d.request_queue) = (issued + 1) - memOpTag
      BY <1>2, <2>1, <3>1
    <3>3. ASSUME NEW i \in 1 .. Len(d.request_queue)
          PROVE  d.request_queue[i].tag = memOpTag + i - 1
      <4>1. CASE i \in 1 .. n
        BY <2>1, <2>2, <2>3, <4>1 DEF OrderInv
      <4>2. CASE i = n + 1
        BY <1>2, <1>3, <2>1, <3>1, <4>2
      <4> QED
        BY <2>1, <4>1, <4>2
    <3> QED
      BY <2>3, <2>5, <3>2, <3>3 DEF OrderInv
  <2>4. CASE cache.completion # NULL
    <3>1. n + 1 = issued - memOpTag
      BY <2>2, <2>4 DEF OrderInv
    <3>2. Len(d.request_queue) + 1 = (issued + 1) - memOpTag
      BY <1>2, <2>1, <3>1
    <3>3. ASSUME NEW i \in 1 .. Len(d.request_queue)
          PROVE  d.request_queue[i].tag = memOpTag + i
      <4>1. CASE i \in 1 .. n
        BY <2>1, <2>2, <2>4, <4>1 DEF OrderInv
      <4>2. CASE i = n + 1
        BY <1>2, <1>3, <2>1, <3>1, <4>2
      <4> QED
        BY <2>1, <4>1, <4>2
    <3>4. d.completion.tag = memOpTag
      BY <1>5, <2>2, <2>4 DEF OrderInv
    <3> QED
      BY <2>4, <2>5, <3>2, <3>3, <3>4 DEF OrderInv
  <2> QED
    BY <2>3, <2>4
<1>8. issued' \in 0 .. MaxRequests /\ memOpTag' \in 0 .. issued'
  BY <1>1, <1>2, MaxRequestsAssumption
<1>9. event = NULL /\ EventInv'
  BY <1>1 DEF TeamCacheInv, EventInv
<1>10. TurnInv'
  BY <1>1 DEF TeamCacheInv, TurnInv, systemVars, busVars
<1>11. <<cache'.policy, cache'.write_buffer_mode>> \in Configurations
  BY <1>1, <1>5 DEF SameOptions, TeamCacheInv
<1> QED
  BY <1>1, <1>4, <1>5, <1>6, <1>7, <1>8, <1>9, <1>10, <1>11 DEF TeamCacheInv

\* The turns that change nothing the invariant speaks of.
LEMMA NextTickStep ==
  ASSUME BusInv, SystemTypeOK, TeamCacheInv, NextTick \/ UNCHANGED vars
  PROVE  UNCHANGED BusProofs!vars /\ TeamCacheInv'
<1>1. UNCHANGED <<systemVars, cache, issued, memOpTag, event>>
  BY DEF NextTick, vars, cacheVars
<1>2. UNCHANGED BusProofs!vars
  BY <1>1, ClientLeftAlone
<1>3. turn' = turn \/ (turn = "processor" /\ turn' = "cache")
  BY DEF NextTick, vars
<1>4. EventInv' /\ TurnInv'
  BY <1>1, <1>3 DEF TeamCacheInv, EventInv, TurnInv, systemVars, busVars
<1> QED
  BY <1>1, <1>2, <1>3, <1>4 DEF TeamCacheInv

-----------------------------------------------------------------------------
(***************************************************************************)
(* The invariant.                                                          *)
(***************************************************************************)

\* Every step is one of the bus, or leaves the bus alone.
LEMMA StepOfBus ==
  ASSUME IInv, [Next]_vars
  PROVE  [BusProofs!Next]_(BusProofs!vars) /\ TeamCacheInv'
<1> USE DEF IInv
<1>1. ASSUME NEW op \in Ops, NEW access \in Accesses, ~cache.exited,
             Issue(op, access[1], access[2])
      PROVE  [BusProofs!Next]_(BusProofs!vars) /\ TeamCacheInv'
  BY <1>1, IssueStep
<1>2. CASE CacheTick /\ ~cache.exited
  BY <1>2, CacheTickStep
<1>3. CASE CacheEvent /\ ~cache.exited
  BY <1>3, CacheEventStep
<1>4. CASE (CoherenceTick \/ CallbackReturns) /\ ~cache.exited
  BY <1>4, CoherenceTickStep
<1>5. CASE CallsBack /\ ~cache.exited
  BY <1>5, CallsBackStep
<1>6. CASE NextTick \/ UNCHANGED vars
  BY <1>6, NextTickStep
<1> QED
  BY <1>1, <1>2, <1>3, <1>4, <1>5, <1>6 DEF Next, Tick

\* Every step keeps the invariant.
LEMMA NextIInv ==
  ASSUME IInv, [Next]_vars
  PROVE  IInv'
<1>1. TeamCacheInv'
  BY StepOfBus
<1>2. BusInv'
  BY StepOfBus, NextBusInv DEF IInv
<1>3. SystemTypeOK'
  BY <1>2, SameSystemTypes DEF BusInv, BusProofs!TypeOK
<1> QED
  BY <1>1, <1>2, <1>3 DEF IInv

\* The invariant holds of the cache when the program has set it up.
LEMMA InitCache ==
  ASSUME NEW policy, NEW mode, <<policy, mode>> \in Configurations
  PROVE  LET c == cache_storage_init(policy, mode)
         IN /\ CacheInv(c) /\ c.call = NULL /\ c.notified = NULL /\ ~c.exited
            /\ <<c.policy, c.write_buffer_mode>> \in Configurations
            /\ OrderInv(c, 0, 0)
            /\ DataAwaited(c) = {} /\ FlushAwaited(c) = {} /\ Usable(c) = {}
<1> DEFINE c == cache_storage_init(policy, mode)
<1>1. policy \in CachePolicies /\ mode \in {0, 1}
  <2>1. <<policy, mode>> \in CachePolicies \X {0, 1}
    BY ConfigurationsAssumption
  <2> QED
    BY <2>1
<1>2. /\ c.policy = policy /\ c.write_buffer_mode = mode
      /\ \A s \in SetIndices, w \in Ways :
           ~c.sets[s][w].valid /\ c.sets[s][w].time_stamp = 0
      /\ c.active = NULL /\ c.queue = <<>> /\ c.completion = NULL
      /\ c.request_queue = <<>> /\ c.write_buffer = NULL
      /\ c.access_sequence = 0 /\ c.call = NULL /\ c.notified = NULL
      /\ c.exited = FALSE
  BY DEF cache_storage_init
<1>3. c \in Cache
  <2>1. [s \in SetIndices |-> [w \in Ways |->
           [valid |-> FALSE, tag |-> NULL, dirty |-> FALSE, time_stamp |-> 0]]]
          \in [SetIndices -> [Ways -> Line]]
    BY DEF Line
  <2>2. <<>> \in Seq(Request) /\ <<>> \in Seq(Original)
    OBVIOUS
  <2>3. 0 \in 0 .. SequenceMax
    BY SequenceAssumption
  <2> QED
    BY <1>1, <2>1, <2>2, <2>3 DEF Cache, cache_storage_init
<1> HIDE DEF c
<1>4. \A status : Awaiting(c, status) = {}
  BY <1>2 DEF Awaiting, Present
<1>5. DataAwaited(c) = {} /\ FlushAwaited(c) = {} /\ Usable(c) = {}
  BY <1>2, <1>4 DEF DataAwaited, FlushAwaited, Usable
<1>6. LinesSound(c) /\ EvictionsAimed(c) /\ FetchesAimed(c)
  BY <1>2, <1>4 DEF LinesSound, EvictionsAimed, FetchesAimed
<1>7. Stamped(c)
  BY <1>2, RripAssumption DEF Stamped
<1>8. CountInv(c) /\ BufferInv(c) /\ PlaceInv(c) /\ ExitInv(c)
  BY <1>2 DEF CountInv, Unnotified, BufferInv, PlaceInv, ExitInv
<1>9. Len(c.request_queue) = 0
  BY <1>2
<1>10. RequestsFit(c) /\ OrderInv(c, 0, 0)
  BY <1>2, <1>9 DEF RequestsFit, OrderInv
<1>11. CacheInv(c)
  BY <1>3, <1>6, <1>7, <1>8, <1>10 DEF CacheInv
<1> QED
  BY <1>2, <1>5, <1>10, <1>11 DEF c

\* The invariant holds at the start, where the bus starts too.
LEMMA InitIInv == Init => IInv /\ BusProofs!Init
<1> SUFFICES ASSUME Init PROVE IInv /\ BusProofs!Init
  OBVIOUS
<1>1. /\ SystemInit /\ event = NULL /\ turn = "processor"
      /\ issued = 0 /\ memOpTag = 0
  BY DEF Init
<1>2. PICK options \in Configurations :
        cache = cache_storage_init(options[1], options[2])
  BY DEF Init
<1>3. options = <<options[1], options[2]>>
  BY ConfigurationsAssumption
<1>4. /\ CacheInv(cache) /\ cache.call = NULL /\ cache.notified = NULL
      /\ ~cache.exited
      /\ <<cache.policy, cache.write_buffer_mode>> \in Configurations
      /\ OrderInv(cache, 0, 0)
      /\ DataAwaited(cache) = {} /\ FlushAwaited(cache) = {}
      /\ Usable(cache) = {}
  BY <1>2, <1>3, InitCache
<1>5. BusProofs!Init
  <2>1. WaitingBlocks = {} /\ FlushingBlocks = {} /\ HeldBlocks = {}
    BY <1>1, <1>4 DEF WaitingBlocks, FlushingBlocks, HeldBlocks, Told
  <2>2. /\ {Proc} \X WaitingBlocks = {} /\ {Proc} \X FlushingBlocks = {}
        /\ {Proc} \X HeldBlocks = {}
    BY <2>1
  <2> QED
    BY <1>1, <2>2
       DEF SystemInit, MemInit, BusInit, CoherInit, Procs, BusProofs!Init,
           BusProofs!SystemInit, BusProofs!MemInit, BusProofs!BusInit,
           BusProofs!CoherInit, BusProofs!Procs
<1>6. BusInv
  BY <1>5, InitBusInv
<1>7. SystemTypeOK
  BY <1>6, SameSystemTypes DEF BusInv, BusProofs!TypeOK
<1>8. issued \in 0 .. MaxRequests /\ memOpTag \in 0 .. issued
  BY <1>1, MaxRequestsAssumption
<1>9. phase = "calls"
  BY <1>1 DEF SystemInit, BusInit, CoherInit
<1>10. EventInv /\ TurnInv
  BY <1>1, <1>9 DEF EventInv, TurnInv
<1> QED
  BY <1>1, <1>4, <1>5, <1>6, <1>7, <1>8, <1>10 DEF IInv, TeamCacheInv

-----------------------------------------------------------------------------
(***************************************************************************)
(* BusSystem as TeamCacheSystem instantiates it is the one whose proofs    *)
(* are instantiated here.                                                  *)
(***************************************************************************)

\* What a cache has outstanding.
LEMMA SameOutstanding ==
  \A p : BusProofs!Cardinality(BusProofs!Outstanding(p))
           = Bus!Cardinality(Bus!Outstanding(p))
<1>1. \A p : BusProofs!Outstanding(p) = Bus!Outstanding(p)
  BY DEF BusProofs!Outstanding, Bus!Outstanding
<1>2. \A X : BusProofs!Cardinality(X) = Bus!Cardinality(X)
  BY DEF BusProofs!Cardinality, Bus!Cardinality
<1> QED
  BY <1>1, <1>2

\* The cache's calls into coherence.
LEMMA SameAccess == \A p, a : BusProofs!Access(p, a) <=> Bus!Access(p, a)
<1>1. \A p, a : BusProofs!permReq(p, a) <=> Bus!permReq(p, a)
  BY DEF Bus!permReq, Bus!cacheMI, Bus!SetState, Bus!busVars, Bus!memVars,
         Bus!busReq, Bus!BusReqStarts, Bus!BusReqAnswers, Bus!BusReqQueues,
         Bus!AnswersPending, Bus!NewBusReq, Bus!enqBusRequest,
         BusProofs!permReq, BusProofs!cacheMI, BusProofs!SetState,
         BusProofs!busVars, BusProofs!memVars, BusProofs!busReq,
         BusProofs!BusReqStarts, BusProofs!BusReqAnswers,
         BusProofs!BusReqQueues, BusProofs!AnswersPending,
         BusProofs!NewBusReq, BusProofs!enqBusRequest
<1>2. \A p, a : BusProofs!cacheMI(coherStates[p][a]).permAvail
                  = Bus!cacheMI(coherStates[p][a]).permAvail
  BY DEF BusProofs!cacheMI, Bus!cacheMI
<1>4. \A p : BusProofs!Cardinality(BusProofs!Outstanding(p))
               = Bus!Cardinality(Bus!Outstanding(p))
  BY SameOutstanding
<1>5. \A p : BusProofs!Running(p) <=> Bus!Running(p)
  BY DEF BusProofs!Running, Bus!Running
<1> QED
  BY <1>1, <1>2, <1>4, <1>5 DEF BusProofs!Access, Bus!Access

\* The calls that give blocks up.
LEMMA SameEvict == \A p, a : BusProofs!Evict(p, a) <=> Bus!Evict(p, a)
<1>1. \A p, a : BusProofs!invlReq(p, a) <=> Bus!invlReq(p, a)
  BY DEF Bus!invlReq, Bus!SetState, Bus!busVars, Bus!memVars,
         Bus!busReq, Bus!BusReqStarts, Bus!BusReqAnswers, Bus!BusReqQueues,
         Bus!AnswersPending, Bus!NewBusReq, Bus!enqBusRequest,
         BusProofs!invlReq, BusProofs!SetState,
         BusProofs!busVars, BusProofs!memVars, BusProofs!busReq,
         BusProofs!BusReqStarts, BusProofs!BusReqAnswers,
         BusProofs!BusReqQueues, BusProofs!AnswersPending,
         BusProofs!NewBusReq, BusProofs!enqBusRequest
<1>2. \A p : BusProofs!Cardinality(BusProofs!Outstanding(p))
               = Bus!Cardinality(Bus!Outstanding(p))
  BY SameOutstanding
<1>3. \A p : BusProofs!Running(p) <=> Bus!Running(p)
  BY DEF BusProofs!Running, Bus!Running
<1> QED
  BY <1>1, <1>2, <1>3 DEF BusProofs!Evict, Bus!Evict

\* The end of the traces.
LEMMA SameTracesEnd == BusProofs!TracesEnd <=> Bus!TracesEnd
BY DEF Bus!TracesEnd, BusProofs!TracesEnd

\* The tick that issues a request.
LEMMA SameIssue == BusProofs!Issue <=> Bus!Issue
BY DEF Bus!Issue, Bus!Invalidated, Bus!BusIssues, Bus!BusTicking, Bus!Elapses,
       Bus!MemBusReq, Bus!SnoopedOwners, Bus!Snooped, Bus!snoopMI,
       Bus!NewBusReq, Bus!Procs, BusProofs!Issue, BusProofs!Invalidated,
       BusProofs!BusIssues, BusProofs!BusTicking, BusProofs!Elapses,
       BusProofs!MemBusReq, BusProofs!SnoopedOwners, BusProofs!Snooped,
       BusProofs!snoopMI, BusProofs!NewBusReq, BusProofs!Procs

\* The tick that delivers.
LEMMA SameDeliver == BusProofs!Deliver <=> Bus!Deliver
BY DEF Bus!Deliver, Bus!BusDelivers, Bus!BusTicking, Bus!Elapses, Bus!Delivery,
       Bus!DeliveredType, Bus!snoopMI, Bus!SetState, Bus!enqBusRequest,
       Bus!NewBusReq, Bus!memVars, BusProofs!Deliver, BusProofs!BusDelivers,
       BusProofs!BusTicking, BusProofs!Elapses, BusProofs!Delivery,
       BusProofs!DeliveredType, BusProofs!snoopMI, BusProofs!SetState,
       BusProofs!enqBusRequest, BusProofs!NewBusReq, BusProofs!memVars

\* The ticks that call nothing back.
LEMMA SameQuiet == BusProofs!QuietTick <=> Bus!QuietTick
BY DEF Bus!QuietTick, Bus!clientVars, Bus!BusCounts, Bus!BusTicking,
       Bus!BusReleases, Bus!BusArbitrates, Bus!BusDequeues, Bus!HasTurn,
       Bus!Distance, Bus!busVars, Bus!Procs, Bus!memVars, Bus!MemIdle,
       Bus!MemCounts, Bus!MemSquelches, Bus!MemResponds, Bus!CacheTransfer,
       Bus!busReqCacheTransfer, Bus!memReqCallback, Bus!MemoryTick,
       BusProofs!QuietTick, BusProofs!clientVars, BusProofs!BusCounts,
       BusProofs!BusTicking, BusProofs!BusReleases, BusProofs!BusArbitrates,
       BusProofs!BusDequeues, BusProofs!HasTurn, BusProofs!Distance,
       BusProofs!busVars, BusProofs!Procs, BusProofs!memVars,
       BusProofs!MemIdle, BusProofs!MemCounts, BusProofs!MemSquelches,
       BusProofs!MemResponds, BusProofs!CacheTransfer,
       BusProofs!busReqCacheTransfer, BusProofs!memReqCallback,
       BusProofs!MemoryTick

\* The initial states.
LEMMA SameInit == BusProofs!Init <=> Bus!Init
BY DEF Bus!Init, Bus!SystemInit, Bus!MemInit, Bus!BusInit, Bus!CoherInit,
       Bus!Procs, BusProofs!Init, BusProofs!SystemInit, BusProofs!MemInit,
       BusProofs!BusInit, BusProofs!CoherInit, BusProofs!Procs

\* The variables.
LEMMA SameVars == BusProofs!vars = Bus!vars /\ BusProofs!vars' = Bus!vars'
BY DEF Bus!vars, Bus!systemVars, Bus!clientVars, Bus!busVars, Bus!memVars,
       BusProofs!vars, BusProofs!systemVars, BusProofs!clientVars,
       BusProofs!busVars, BusProofs!memVars

\* The steps.
LEMMA SameNext == BusProofs!Next <=> Bus!Next
BY SameAccess, SameEvict, SameTracesEnd, SameIssue, SameDeliver, SameQuiet
DEF BusProofs!Next, Bus!Next, BusProofs!Tick, Bus!Tick, BusProofs!Procs,
    Bus!Procs

-----------------------------------------------------------------------------
(***************************************************************************)
(* The theorems.                                                           *)
(***************************************************************************)

\* Everything the results below rest on holds throughout.
THEOREM StaysInvariant == Spec => []IInv
<1>1. Init => IInv
  BY InitIInv
<1>2. IInv /\ [Next]_vars => IInv'
  BY NextIInv
<1> QED
  BY <1>1, <1>2, PTL DEF Spec

\* The cache's structures keep their types: no call of coherence or callback
\* outlives the entry that makes it, and access_sequence does not wrap.
THEOREM TypeCorrect == Spec => []TypeOK
<1>1. IInv => TypeOK
  BY DEF IInv, TeamCacheInv, CacheInv, TypeOK
<1> QED
  BY <1>1, StaysInvariant, PTL

\* Without the write buffer the cache calls fail() at most when the access
\* numbers are used up: no event comes for a request that does not wait for
\* it, and coherence never grants at once what the cache has not.
THEOREM UnbufferedNeverFails == Spec => []NeverFailsUnbuffered
<1>1. IInv => NeverFailsUnbuffered
  BY DEF IInv, TeamCacheInv, CacheInv, ExitInv, NeverFailsUnbuffered, NeverFails
<1> QED
  BY <1>1, StaysInvariant, PTL

\* The cache has the requests that the processor expects, and no others.
LEMMA InOrder == IInv => InOrderOnce
<1> SUFFICES ASSUME IInv PROVE InOrderOnce
  OBVIOUS
<1> DEFINE queue == cache.request_queue
           left == issued - memOpTag
           queued == [i \in 1 .. Len(queue) |-> queue[i].tag]
           tags == [i \in 1 .. left |-> memOpTag + i - 1]
<1>1. /\ cache \in Cache /\ OrderInv(cache, memOpTag, issued)
      /\ issued \in Nat /\ memOpTag \in 0 .. issued
  BY MaxRequestsAssumption DEF IInv, TeamCacheInv, CacheInv
<1>2. /\ queue \in Seq(Original) /\ Len(queue) \in Nat /\ left \in Nat
      /\ memOpTag \in Nat
  BY <1>1 DEF Cache
<1>3. tags \in Seq(Nat) /\ Len(tags) = left
  BY <1>2
<1>4. \A i \in 1 .. Len(queue) : queue[i].tag \in Nat
  <2>1. \A i \in 1 .. Len(queue) : queue[i] \in Original
    BY <1>2
  <2> QED
    BY <2>1 DEF Original
<1>5. queued \in Seq(Nat) /\ Len(queued) = Len(queue)
  BY <1>2, <1>4
<1>6. CASE cache.completion = NULL
  <2>1. /\ Len(queue) = left
        /\ \A i \in 1 .. Len(queue) : queue[i].tag = memOpTag + i - 1
    BY <1>1, <1>6 DEF OrderInv
  <2>2. queued = tags
    BY <2>1
  <2>3. <<>> \o queued = queued
    BY <1>5
  <2> QED
    BY <1>6, <2>2, <2>3 DEF InOrderOnce, Unacknowledged
<1>7. CASE cache.completion # NULL
  <2> DEFINE first == <<memOpTag>>
             all == first \o queued
  <2>1. /\ cache.completion.tag = memOpTag
        /\ Len(queue) + 1 = left
        /\ \A i \in 1 .. Len(queue) : queue[i].tag = memOpTag + i
    BY <1>1, <1>7 DEF OrderInv
  <2>2. /\ all \in Seq(Nat) /\ Len(all) = Len(queue) + 1
        /\ all[1] = memOpTag
        /\ \A i \in 2 .. Len(queue) + 1 : all[i] = queued[i - 1]
    BY <1>2, <1>5
  <2>3. ASSUME NEW i \in 1 .. Len(all) PROVE all[i] = tags[i]
    <3>1. CASE i = 1
      BY <1>2, <2>1, <2>2, <3>1
    <3>2. CASE i \in 2 .. Len(queue) + 1
      <4>1. i - 1 \in 1 .. Len(queue) /\ i \in 1 .. left
        BY <1>2, <2>1, <3>2
      <4>2. all[i] = memOpTag + (i - 1)
        BY <2>1, <2>2, <3>2, <4>1
      <4> QED
        BY <4>1, <4>2
    <3> QED
      BY <1>2, <2>2, <3>1, <3>2
  <2>4. all = tags
    <3> HIDE DEF all, tags
    <3> QED
      BY <1>3, <2>1, <2>2, <2>3, SeqEqual
  <2> QED
    BY <1>7, <2>1, <2>4 DEF InOrderOnce, Unacknowledged
<1> QED
  BY <1>6, <1>7

\* Requests complete in the order in which they were made, each exactly
\* once, whether in one block or several, buffered or not.
THEOREM CompletesInOrder == Spec => []InOrderOnce
BY InOrder, StaysInvariant, PTL

\* The lines the cache uses are the blocks that coherence lets it modify.
THEOREM LinesArePermitted == Spec => []Inclusive
<1>1. IInv => Inclusive
  <2> SUFFICES ASSUME IInv, ~cache.exited
               PROVE  \A a \in Addrs :
                        (coherStates[Proc][a] = "MODIFIED")
                          <=> (a \in Usable(cache) \cup Told("DATA_RECV"))
    BY DEF Inclusive
  <2>1. HeldBlocks = InState("MODIFIED")
    BY BusFacts DEF IInv
  <2> QED
    BY <2>1 DEF HeldBlocks, InState
<1> QED
  BY <1>1, StaysInvariant, PTL

\* The assertions of split.c and eviction.c hold where they are evaluated.
THEOREM CacheAssertionsHold == Spec => []CacheAssertions
<1>1. IInv => CacheAssertions
  <2> SUFFICES ASSUME IInv PROVE CacheAssertions
    OBVIOUS
  <2>1. cache \in Cache /\ CountInv(cache) /\ EvictionsAimed(cache)
    BY DEF IInv, TeamCacheInv, CacheInv
  <2>2. cache.active # NULL =>
          /\ cache.completion # NULL
          /\ cache.completion.tag = cache.active.tag
          /\ cache.completion.completed = cache.active.block_index
          /\ cache.completion.completed + 1 + Len(cache.queue)
               = cache.completion.total
    BY <2>1 DEF CountInv, Counted
  <2>3. ASSUME Unnotified(cache)
        PROVE  /\ cache.completion # NULL
               /\ cache.completion.tag = cache.write_buffer.request.tag
               /\ cache.completion.total = 1 /\ cache.completion.completed = 0
               /\ cache.queue = <<>>
    <3>1. /\ cache.completion # NULL
          /\ cache.completion.tag = cache.write_buffer.request.tag
          /\ cache.completion.total = 1
          /\ cache.completion.completed + 1 + Len(cache.queue) = 1
      BY <2>1, <2>3 DEF CountInv, Counted
    <3>2. /\ cache.completion.completed \in Nat
          /\ cache.queue \in Seq(Request) /\ Len(cache.queue) \in Nat
      BY <2>1, <3>1 DEF Cache, Completion
    <3>3. cache.completion.completed = 0 /\ Len(cache.queue) = 0
      BY <3>1, <3>2
    <3> QED
      BY <3>1, <3>2, <3>3, EmptySeq
  <2>4. ASSUME NEW s \in SetIndices, NEW w \in Ways, Evicting(cache, s, w)
        PROVE  cache.sets[s][w].valid
    BY <2>1, <2>4 DEF Evicting, EvictionsAimed, TargetOf
  <2> QED
    BY <2>2, <2>3, <2>4 DEF CacheAssertions, Unnotified
<1> QED
  BY <1>1, StaysInvariant, PTL

\* The processor hears of a buffered store before its data comes.
THEOREM HeardBeforeData == Spec => []ToldBeforeData
<1>1. IInv => ToldBeforeData
  BY DEF IInv, TeamCacheInv, CacheInv, BufferInv, ToldBeforeData
<1> QED
  BY <1>1, StaysInvariant, PTL

\* LRU stamps order the accesses, RRIP predictions stay within their bits.
THEOREM StampsStaySound == Spec => []StampsSound
<1>1. IInv => StampsSound
  BY DEF IInv, TeamCacheInv, CacheInv, StampsSound
<1> QED
  BY <1>1, StaysInvariant, PTL

\* Every request of the cache is split into its bytes.
THEOREM SplitsRequests == Spec => []SplitExact
<1>1. IInv => SplitExact
  <2> SUFFICES ASSUME IInv, NEW i \in DOMAIN cache.request_queue
               PROVE  SplitsExactly(cache.request_queue[i].memAddress,
                                    cache.request_queue[i].size)
    BY DEF SplitExact
  <2>1. cache.request_queue \in Seq(Original) /\ RequestsFit(cache)
    BY DEF IInv, TeamCacheInv, CacheInv, Cache
  <2>2. i \in 1 .. Len(cache.request_queue)
    BY <2>1
  <2>3. /\ cache.request_queue[i].memAddress \in 0 .. AddressMax
        /\ cache.request_queue[i].size \in Nat
    <3>1. cache.request_queue[i] \in Original
      BY <2>1, <2>2
    <3> QED
      BY <3>1 DEF Original
  <2>4. ~Refused(cache.request_queue[i].memAddress, cache.request_queue[i].size)
    BY <2>1, <2>2 DEF RequestsFit
  <2> QED
    BY <2>3, <2>4, SplitsAll
<1> QED
  BY <1>1, StaysInvariant, PTL

\* Without the write buffer a line that is being evicted is the active
\* request's, and no entry but the end of the write-back goes on with it.
LEMMA EvictedLineStays ==
  ASSUME IInv, [Next]_vars, NEW s \in SetIndices, NEW w \in Ways,
         cache.write_buffer_mode = 0, Evicting(cache, s, w),
         cache'.sets[s][w].valid
  PROVE  cache'.sets[s][w] = cache.sets[s][w]
<1>1. CacheInv(cache) /\ cache \in Cache /\ TeamCacheInv
  BY DEF IInv, TeamCacheInv, CacheInv
<1>2. PICK who \in Awaiting(cache, "WAITING_EVICTION") :
        /\ RequestAt(cache, who).target = w
        /\ SetIndex(RequestAt(cache, who).block) = s
  BY DEF Evicting
<1>3. /\ who = "active" /\ cache.write_buffer = NULL
      /\ cache.active # NULL /\ cache.active.status = "WAITING_EVICTION"
  BY <1>1, <1>2 DEF CacheInv, BufferInv, Awaiting, Present, RequestAt, Places
<1>4. \A d : Runs(d) /\ d \in Cache => cache'.sets = d.sets
  BY DEF Runs, Cache
<1>5. CASE CacheTick
  <2>1. cache_access_tick(cache) = cache
    BY <1>3 DEF cache_access_tick, start_next_request, current_request_idle
  <2>2. cache'.sets = cache.sets
    BY <1>1, <1>4, <1>5, <2>1 DEF CacheTick
  <2> QED
    BY <2>2
<1>6. CASE CacheEvent /\ ~cache.exited
  <2>1. event # NULL /\ Runs(cache_access_event(cache, event.type, event.addr))
    BY <1>6 DEF CacheEvent
  <2>2. /\ Awaiting(cache, "WAITING_EVICTION") = {who}
        /\ Awaiting(cache, "WAITING_DATA") = {}
    BY <1>1, <1>2, <1>6, OneWaits
  <2>3. /\ event.type = "FLUSH_COMPLETE"
        /\ event.addr = RequestAt(cache, who).victim_address
    BY <1>1, <2>1, <2>2
       DEF TeamCacheInv, EventInv, DataAwaited, FlushAwaited
  <2> DEFINE x == cache_eviction_complete(cache, who)
             d == fetch(x, who)
  <2>4. Runs(d)
    BY <1>1, <1>2, <1>6, <2>1, <2>3, FlushFetches
  <2>5. SetIndex(cache.active.block) = s /\ cache.active.target = w
    BY <1>2, <1>3 DEF RequestAt
  <2>6. x = [cache EXCEPT !.sets[s][w].valid = FALSE]
    BY <1>3, <2>5 DEF cache_eviction_complete, RequestAt
  <2>7. cache.sets \in [SetIndices -> [Ways -> Line]]
    BY <1>1 DEF Cache
  <2>8. /\ x \in Cache /\ ~x.sets[s][w].valid /\ Present(x, who)
    <3> DEFINE line == [cache.sets[s][w] EXCEPT !.valid = FALSE]
               ways == [cache.sets[s] EXCEPT ![w] = line]
               sets == [cache.sets EXCEPT ![s] = ways]
    <3>1. x = [cache EXCEPT !.sets = sets]
      BY <1>1, <2>6, <2>7 DEF Cache
    <3>2. line \in Line /\ ~line.valid
      <4>1. cache.sets[s][w] \in Line
        BY <2>7
      <4> QED
        BY <4>1 DEF Line
    <3> HIDE DEF line
    <3>3. sets \in [SetIndices -> [Ways -> Line]] /\ ~sets[s][w].valid
      <4>1. [cache.sets[s] EXCEPT ![w] = line] \in [Ways -> Line]
        BY <2>7, <3>2
      <4> QED
        BY <2>7, <3>2, <4>1
    <3> HIDE DEF sets, x
    <3> QED
      <4>1. x \in Cache /\ x.sets = sets /\ x.active = cache.active
        BY <1>1, <3>1, <3>3, ZenonT(40) DEF Cache
      <4> QED
        BY <1>3, <3>3, <4>1 DEF Present
  <2> HIDE DEF x
  <2>9. d \in Cache /\ d.sets = x.sets
    BY <1>3, <2>8, Fetched DEF Places
  <2> HIDE DEF d
  <2>10. ~cache'.sets[s][w].valid
    BY <1>4, <2>4, <2>8, <2>9
  <2> QED
    BY <2>10
<1>7. ASSUME NEW op, NEW access, Issue(op, access[1], access[2])
      PROVE  cache'.sets = cache.sets
  BY <1>1, <1>7 DEF Issue, cache_access_request, Cache
<1>8. CASE UNCHANGED cache
  BY <1>8
<1> QED
  BY <1>5, <1>6, <1>7, <1>8
     DEF Next, Tick, CoherenceTick, CallsBack, CallbackReturns, NextTick, vars,
         cacheVars

\* Without the write buffer a line whose write-back is on its way is left as
\* it is until the write-back is over, so nothing written is lost.
THEOREM UnbufferedLinesStay == Spec => UnbufferedStays
<1>1. IInv /\ [Next]_vars =>
        [ \A s \in SetIndices, w \in Ways :
            cache.write_buffer_mode = 0 /\ Evicting(cache, s, w)
            /\ cache'.sets[s][w].valid
              => cache'.sets[s][w] = cache.sets[s][w] ]_vars
  BY EvictedLineStays
<1> QED
  BY <1>1, StaysInvariant, PTL DEF Spec, UnbufferedStays

\* teamCache keeps to the interface of BusSystem, step by step: whatever is
\* proved of every cache that does holds of the simulator with teamCache.
THEOREM UsesTheBusAsAllowed == Spec => KeepsToInterface
<1>1. Init => Bus!Init
  BY InitIInv, SameInit
<1>2. IInv /\ [Next]_vars => [Bus!Next]_(Bus!vars)
  <2>1. IInv /\ [Next]_vars => [BusProofs!Next]_(BusProofs!vars)
    BY StepOfBus
  <2> QED
    BY <2>1, SameNext, SameVars
<1> QED
  BY <1>1, <1>2, StaysInvariant, PTL DEF Spec, KeepsToInterface, Bus!Spec

\* The same as a behaviour of the bus about which the theorems are.
LEMMA OnTheBus == Spec => BusProofs!Spec
<1>1. Init => BusProofs!Init
  BY InitIInv
<1>2. IInv /\ [Next]_vars => [BusProofs!Next]_(BusProofs!vars)
  BY StepOfBus
<1> QED
  BY <1>1, <1>2, StaysInvariant, PTL DEF Spec, BusProofs!Spec

\* No wait of teamCache is lost or made twice: a block that a request or the
\* buffer waits for has its transaction on the bus or queued, one only, and
\* nothing is there that teamCache does not wait for.
THEOREM RequestsAccounted == Spec => []BusProofs!RequestAccounted
<1>1. BusProofs!Spec => []BusProofs!RequestAccounted
  BY BusProofs!RequestsAccounted, SameTypes, OneProc,
     ProcessorCountAssumption, NullAssumption,
     DramAssumption, BusDelayAssumption
<1> QED
  BY <1>1, OnTheBus, PTL

\* Nor is a write-back lost: teamCache is the one cache that evicts.
THEOREM FlushesAccounted == Spec => []BusProofs!FlushAccounted
<1>1. \A e, f \in {Proc} : e = f
  OBVIOUS
<1>2. BusProofs!Spec => []BusProofs!FlushAccounted
  BY <1>1, BusProofs!FlushesAccounted, SameTypes, OneProc,
     ProcessorCountAssumption, NullAssumption,
     DramAssumption, BusDelayAssumption
<1> QED
  BY <1>2, OnTheBus, PTL

\* So teamCache gets from the memory system what CoherencePort promises: it is
\* granted what it asked for and hears the end of each write-back it started.
THEOREM ImplementsPort == Spec => BusProofs!PortSpec
<1>1. BusProofs!Spec => BusProofs!PortSpec
  BY BusProofs!ImplementsPort, SameTypes, OneProc,
     ProcessorCountAssumption, NullAssumption,
     DramAssumption, BusDelayAssumption
<1> QED
  BY <1>1, OnTheBus, PTL
=============================================================================
