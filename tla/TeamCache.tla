----------------------------- MODULE TeamCache -----------------------------
(***************************************************************************)
(* teamCache: the state of one cache (cache_state) and what its functions  *)
(* make of it.  The code changes the state in place and calls functions    *)
(* from functions; here each is an operator from a state to a state, and   *)
(* an action of TeamCacheSystem applies one of the three entry points      *)
(* (cache_access_request, cache_access_event, cache_access_tick).          *)
(*                                                                         *)
(* Three components of the state are set and read within one entry only:   *)
(* `call` is the call to coherence that the entry makes, at most one that  *)
(* has an effect; `notified` the request whose callback it calls; `exited` *)
(* says that it called fail(), and the program is over.                    *)
(*                                                                         *)
(* One processor uses the cache: lines have no owner, so two processors    *)
(* would take each other's permissions for their own.  Addresses are block *)
(* numbers; a line's tag and set stand for its block.                      *)
(***************************************************************************)
EXTENDS MemorySystem, Replacement, Split

CONSTANT S   \* sets, 2^s for option -s

ASSUME SetsAssumption == S \in Nat \ {0}
ASSUME BlocksAssumption == Addrs = 0 .. BlockNumber(AddressMax)
ASSUME OneProcessorAssumption == ProcessorCount = 1

\* The processor, and where a block may be cached.
Proc == 0
SetIndex(block) == block % S
SetIndices == 0 .. (S - 1)

Statuses == {"QUEUED", "WAITING_BUFFER", "WAITING_EVICTION", "WAITING_DATA",
             "READY"}

\* What the calls to coherence return: permReq and invlReq.
Granted(block) == cacheMI(coherStates[Proc][block]).permAvail

Owned(block) == coherStates[Proc][block] # "INVALID"

\* cache_storage_init: every line invalid and zero, with the options -R and
\* -w (0 or 1).
cache_storage_init(policy, write_buffer_mode) ==
  [policy |-> policy, write_buffer_mode |-> write_buffer_mode,
   sets |-> [s \in SetIndices |-> [w \in Ways |->
               [valid |-> FALSE, tag |-> NULL, dirty |-> FALSE,
                time_stamp |-> 0]]],
   active |-> NULL, queue |-> <<>>, completion |-> NULL,
   request_queue |-> <<>>, write_buffer |-> NULL, access_sequence |-> 0,
   call |-> NULL, notified |-> NULL, exited |-> FALSE]

fail(c) == [c EXCEPT !.exited = TRUE]

-----------------------------------------------------------------------------
(***************************************************************************)
(* Requests.  `who` says where one is: the active request or the one in    *)
(* the write buffer.                                                       *)
(***************************************************************************)
Places == {"active", "write_buffer"}

Present(c, who) == IF who = "active" THEN c.active # NULL
                   ELSE c.write_buffer # NULL

RequestAt(c, who) == IF who = "active" THEN c.active
                     ELSE c.write_buffer.request

PutRequest(c, who, request) ==
  IF who = "active" THEN [c EXCEPT !.active = request]
  ELSE [c EXCEPT !.write_buffer.request = request]

\* Mutant of HitWays: the scan leaves out the last way.
HitWays_StopsEarly(c, block) ==
  {w \in Ways \ {E - 1} : c.sets[SetIndex(block)][w].valid
                         /\ c.sets[SetIndex(block)][w].tag = block}

\* cache_lookup: the ways that have the block.
HitWays(c, block) ==
  {w \in Ways : c.sets[SetIndex(block)][w].valid
                /\ c.sets[SetIndex(block)][w].tag = block}

\* fetch: ask coherence for the block.  To be granted at once contradicts
\* the miss.
fetch(c, who) ==
  LET request == RequestAt(c, who)
      asking == [PutRequest(c, who, [request EXCEPT !.status = "WAITING_DATA"])
                   EXCEPT !.call = [op |-> "permReq", addr |-> request.block]]
  IN IF Granted(request.block) THEN fail(asking) ELSE asking

\* Mutant of cache_eviction_complete: the line stays valid.
cache_eviction_complete_KeepsLine(c, who) == c

\* cache_eviction_complete: only now does the line lose its block.
cache_eviction_complete(c, who) ==
  LET request == RequestAt(c, who)
  IN [c EXCEPT !.sets[SetIndex(request.block)][request.target].valid = FALSE]

\* Mutant of cache_eviction_prepare: the line is given up when the eviction
\* begins.
cache_eviction_prepare_Early(c, who) ==
  LET request == RequestAt(c, who)
      set    == SetIndex(request.block)
      found  == cache_replacement_target(c.policy, c.sets[set])
      victim == found.lines[found.way]
      aimed(status, address) ==
        [PutRequest(c, who, [request EXCEPT !.target = found.way,
                                            !.status = status,
                                            !.victim_address = address])
           EXCEPT !.sets[set] = [found.lines EXCEPT ![found.way].valid = FALSE]]
  IN IF victim.valid
       THEN [aimed("WAITING_EVICTION", victim.tag) EXCEPT
               !.call = [op |-> "invlReq", addr |-> victim.tag]]
       ELSE fetch(aimed(request.status, NULL), who)

\* cache_eviction_prepare, then fetch unless the eviction must be waited for.
cache_eviction_prepare(c, who) ==
  LET request == RequestAt(c, who)
      set     == SetIndex(request.block)
      found   == cache_replacement_target(c.policy, c.sets[set])
      victim  == found.lines[found.way]
      aimed(status, address) ==
        [PutRequest(c, who, [request EXCEPT !.target = found.way,
                                            !.status = status,
                                            !.victim_address = address])
           EXCEPT !.sets[set] = found.lines]
      evicting == aimed("WAITING_EVICTION", victim.tag)
  IN CASE ~victim.valid -> fetch(aimed(request.status, NULL), who)
       [] victim.valid /\ Owned(victim.tag) ->
            [evicting EXCEPT !.call = [op |-> "invlReq", addr |-> victim.tag]]
       [] victim.valid /\ ~Owned(victim.tag) ->
            fetch(cache_eviction_complete(evicting, who), who)

\* Only a store that is a request of its own goes to the write buffer.
cache_write_buffer_eligible(c) ==
  /\ c.write_buffer_mode = 1
  /\ c.active.op = "STORE"
  /\ c.completion.total = 1

cache_write_buffer_adopt(c) ==
  [c EXCEPT !.write_buffer = [request |-> c.active,
                              processor_notified |-> FALSE,
                              data_complete |-> FALSE],
            !.active = NULL]

\* Mutant of start_miss: the occupied write buffer is not waited for.
start_miss_NoWait(c) ==
  IF c.write_buffer = NULL /\ cache_write_buffer_eligible(c)
    THEN cache_eviction_prepare(cache_write_buffer_adopt(c), "write_buffer")
    ELSE cache_eviction_prepare(c, "active")

\* start_miss: the active request waits for the write buffer, moves to it,
\* or goes ahead.
start_miss(c) ==
  CASE c.write_buffer # NULL -> [c EXCEPT !.active.status = "WAITING_BUFFER"]
    [] c.write_buffer = NULL /\ cache_write_buffer_eligible(c) ->
         cache_eviction_prepare(cache_write_buffer_adopt(c), "write_buffer")
    [] c.write_buffer = NULL /\ ~cache_write_buffer_eligible(c) ->
         cache_eviction_prepare(c, "active")

\* A line that was hit, or filled, is renewed, and dirty after a store.
Touch(c, set, way, stamp, dirty) ==
  [c EXCEPT !.sets[set][way].time_stamp = stamp,
            !.sets[set][way].dirty = dirty,
            !.access_sequence = NextSequence(c.policy, @)]

\* start_next_block: the next block of the current request, hit or miss.  A
\* hit past the last access number ends the program.
start_next_block(c) ==
  LET request == [Head(c.queue) EXCEPT !.status = "WAITING_DATA"]
      taken == [c EXCEPT !.active = request, !.queue = Tail(@)]
      set   == SetIndex(request.block)
      hits  == HitWays(c, request.block)
      way   == FirstWay(hits)
  IN CASE hits = {} -> start_miss(taken)
       [] hits # {} /\ Exhausted(c.policy, c.access_sequence) -> fail(taken)
       [] hits # {} /\ ~Exhausted(c.policy, c.access_sequence) ->
            Touch([taken EXCEPT !.active.status = "READY"], set, way,
                  HitStamp(c.policy, c.access_sequence),
                  c.sets[set][way].dirty \/ request.op = "STORE")

\* Mutant of Blocks: one block too many.
Blocks_OneMore(original, pieces) ==
  [i \in 1 .. Len(pieces) + 1 |->
     [tag |-> original.tag, op |-> original.op,
      block |-> BlockNumber(original.memAddress) + i - 1, block_index |-> i - 1,
      status |-> "QUEUED", target |-> NULL, victim_address |-> NULL]]

\* The requests for blocks that the pieces of a request become.
Blocks(original, pieces) ==
  [i \in 1 .. Len(pieces) |->
     [tag |-> original.tag, op |-> original.op,
      block |-> BlockNumber(pieces[i].memAddress),
      block_index |-> pieces[i].block_index,
      status |-> "QUEUED", target |-> NULL, victim_address |-> NULL]]

\* cache_split_prepare: a request for each block, in ascending order.
cache_split_prepare(c, original) ==
  LET pieces == Pieces(original.memAddress, original.size)
  IN [c EXCEPT
        !.completion = [tag |-> original.tag, completed |-> 0,
                        total |-> Total(original.memAddress, original.size)],
        !.queue = Blocks(original, pieces)]

\* Mutant of current_request_idle: the active request is not looked at.
current_request_idle_QueueOnly(c) == c.queue = <<>>

current_request_idle(c) ==
  c.active = NULL /\ c.completion = NULL /\ c.queue = <<>>

\* start_next_request: a request that cannot be split ends the program.
start_next_request(c) ==
  LET original == Head(c.request_queue)
      taken == [c EXCEPT !.request_queue = Tail(@)]
  IN CASE ~current_request_idle(c) \/ c.request_queue = <<>> -> c
       [] current_request_idle(c) /\ c.request_queue # <<>> ->
            IF Refused(original.memAddress, original.size) THEN fail(taken)
            ELSE start_next_block(cache_split_prepare(taken, original))

\* complete_one: count a block of the current request; the last ends it.
complete_one(c) ==
  LET count == c.completion
  IN [c EXCEPT !.completion = IF count.completed + 1 = count.total THEN NULL
                              ELSE [count EXCEPT !.completed = @ + 1]]

-----------------------------------------------------------------------------
(***************************************************************************)
(* The entry points.                                                       *)
(***************************************************************************)

\* Mutant of cache_access_request: a new request goes to the front.
cache_access_request_Front(c, original) ==
  [c EXCEPT !.request_queue = <<original>> \o @]

\* cache_access_request: the processor's call only queues the request.
cache_access_request(c, original) ==
  [c EXCEPT !.request_queue = Append(@, original)]

\* The requests that an event of coherence for a block may be about.
Matching(c, status, block) ==
  {who \in Places :
     /\ Present(c, who)
     /\ RequestAt(c, who).status = status
     /\ block = IF status = "WAITING_EVICTION"
                  THEN RequestAt(c, who).victim_address
                  ELSE RequestAt(c, who).block}

\* Mutant of Released: a miss that waits for the buffer is not resumed.
Released_NoResume(c) == [c EXCEPT !.write_buffer = NULL]

\* The buffer is free for a miss that waits for it, or the next request.
Released(c) ==
  LET freed == [c EXCEPT !.write_buffer = NULL]
  IN CASE c.active = NULL -> start_next_request(freed)
       [] c.active # NULL /\ c.active.status = "WAITING_BUFFER" ->
            start_miss(freed)
       [] c.active # NULL /\ c.active.status # "WAITING_BUFFER" -> freed

\* The block has come: unless the access numbers are used up, the line is
\* valid and the request is ready.  If that was the buffered store, and the
\* processor knows of it, the buffer is free.
Fill(c, who) ==
  LET request == RequestAt(c, who)
      set == SetIndex(request.block)
      claimed == [c EXCEPT !.sets[set][request.target].tag = request.block]
      filled ==
        Touch([PutRequest(claimed, who, [request EXCEPT !.status = "READY"])
                 EXCEPT !.sets[set][request.target].valid = TRUE],
              set, request.target, FillStamp(c.policy, c.access_sequence),
              request.op = "STORE")
  IN CASE c.sets[set][request.target].valid -> fail(c)
       [] /\ ~c.sets[set][request.target].valid
          /\ Exhausted(c.policy, c.access_sequence) -> fail(claimed)
       [] /\ ~c.sets[set][request.target].valid
          /\ ~Exhausted(c.policy, c.access_sequence) ->
            IF who = "active" THEN filled
            ELSE IF ~c.write_buffer.processor_notified
                   THEN [filled EXCEPT !.write_buffer.data_complete = TRUE]
            ELSE Released(filled)

\* cache_access_event: coherence's callback.
cache_access_event(c, type, block) ==
  LET evictions == Matching(c, "WAITING_EVICTION", block)
      fetches   == Matching(c, "WAITING_DATA", block)
      The(whos) == CHOOSE who \in whos : TRUE
  IN CASE evictions = Places -> fail(c)
       [] /\ evictions # Places
          /\ type = "FLUSH_COMPLETE" \/ (type = "NO_ACTION" /\ evictions # {}) ->
            IF evictions = {} THEN fail(c)
            ELSE fetch(cache_eviction_complete(c, The(evictions)),
                       The(evictions))
       [] evictions = {} /\ type = "NO_ACTION" -> c
       [] evictions # Places /\ type = "DATA_RECV" ->
            IF Cardinality(fetches) # 1 THEN fail(c)
            ELSE Fill(c, The(fetches))
       [] type = "INVALIDATE" -> fail(c)

\* Mutant of Acknowledged: that the processor was told is not recorded.
Acknowledged_Forgets(c) == [c EXCEPT !.notified = c.write_buffer.request.tag]

\* The buffered store completes for the processor before its data arrives.
Acknowledged(c) ==
  [complete_one(c) EXCEPT !.write_buffer.processor_notified = TRUE,
                          !.notified = c.write_buffer.request.tag]

\* A ready request retires; the last block of a request tells the processor.
Retired(c) ==
  LET done == [complete_one(c) EXCEPT !.active = NULL]
  IN IF done.completion = NULL THEN [done EXCEPT !.notified = c.active.tag]
     ELSE start_next_block(done)

\* cache_access_tick, up to its call of coherence's tick.
cache_access_tick(c) ==
  CASE c.write_buffer # NULL /\ ~c.write_buffer.processor_notified ->
         IF c.write_buffer.data_complete
           THEN start_next_request([Acknowledged(c) EXCEPT !.write_buffer = NULL])
           ELSE Acknowledged(c)
    [] c.write_buffer = NULL /\ c.active # NULL /\ c.active.status = "READY" ->
         Retired(c)
    [] OTHER -> start_next_request(c)
=============================================================================
