----------------------------- MODULE BusSystem -----------------------------
(***************************************************************************)
(* The memory system with the caches that use it.  A cache is reduced to   *)
(* what it knows at this interface, kept in the variables of CoherencePort *)
(* and changed only by the values permReq and invlReq return and by the    *)
(* callbacks: the model of a cache never looks at coherStates.             *)
(*                                                                         *)
(* A cache keeps to the interface as teamCache and simpleCache do: it does *)
(* not ask for a block whose write-back it awaits, nor give up one it is   *)
(* waiting for.  Evictors are the caches that ever give a block up         *)
(* (simpleCache never does).  `tracing` says that the traces have accesses *)
(* left; when they end, caches make no more calls and the engine ticks on. *)
(***************************************************************************)
EXTENDS MemorySystem

CONSTANTS Evictors,        \* the processors whose caches evict
          MaxOutstanding   \* bound: calls a cache has unanswered at a time

ASSUME EvictorsAssumption == Evictors \subseteq Procs
ASSUME MaxOutstandingAssumption == MaxOutstanding \in Nat

VARIABLES waiting, flushing, held, tracing

clientVars == <<waiting, flushing, held>>
vars == <<systemVars, clientVars, tracing>>

TypeOK ==
  /\ SystemTypeOK
  /\ waiting \subseteq Procs \X Addrs
  /\ flushing \subseteq Procs \X Addrs
  /\ held \subseteq Procs \X Addrs
  /\ tracing \in BOOLEAN

Init ==
  /\ SystemInit
  /\ waiting = {} /\ flushing = {} /\ held = {}
  /\ tracing = TRUE

Outstanding(p) == {a \in Addrs : <<p, a>> \in waiting \cup flushing}

\* p's cache needs block a: permReq.  Told no, it waits for DATA_RECV.
Access(p, a) ==
  /\ tracing
  /\ Running(p)
  /\ <<p, a>> \notin flushing
  /\ Cardinality(Outstanding(p)) < MaxOutstanding
  /\ permReq(p, a)
  /\ waiting' = IF cacheMI(coherStates[p][a]).permAvail THEN waiting
                ELSE waiting \cup {<<p, a>>}
  /\ UNCHANGED <<flushing, held, tracing>>

\* p's cache gives block a up: invlReq.  Told to wait, it awaits
\* FLUSH_COMPLETE.
Evict(p, a) ==
  /\ tracing
  /\ p \in Evictors
  /\ Running(p)
  /\ <<p, a>> \notin waiting \cup flushing
  /\ Cardinality(Outstanding(p)) < MaxOutstanding
  /\ invlReq(p, a)
  /\ flushing' = IF coherStates[p][a] = "INVALID" THEN flushing
                 ELSE flushing \cup {<<p, a>>}
  /\ held' = held \ {<<p, a>>}
  /\ UNCHANGED <<waiting, tracing>>

\* The moment after which no cache makes another call.
TracesEnd ==
  /\ tracing
  /\ tracing' = FALSE
  /\ UNCHANGED <<systemVars, clientVars>>

\* The snoop's callbacks: a cache told INVALIDATE lost the block.
Issue ==
  /\ BusIssues
  /\ held' = IF pendingRequest.brt = "DATA" THEN held
             ELSE held \ {<<i, pendingRequest.addr>> : i \in Invalidated}
  /\ UNCHANGED <<waiting, flushing, tracing>>

\* The requester's callback.  DATA_RECV grants, FLUSH_COMPLETE ends a
\* write-back, INVALIDATE takes the block away.
Deliver ==
  /\ BusDelivers
  /\ LET pa == <<pendingRequest.procNum, pendingRequest.addr>>
     IN /\ waiting' = IF Delivery.ca = "DATA_RECV" THEN waiting \ {pa}
                      ELSE waiting
        /\ flushing' = IF Delivery.ca = "FLUSH_COMPLETE" THEN flushing \ {pa}
                       ELSE flushing
        /\ held' = CASE Delivery.ca = "DATA_RECV" -> held \cup {pa}
                     [] Delivery.ca = "INVALIDATE" -> held \ {pa}
                     [] OTHER -> held
  /\ UNCHANGED tracing

QuietTick ==
  /\ MemoryTick \/ BusCounts \/ BusReleases \/ BusArbitrates
  /\ UNCHANGED <<clientVars, tracing>>

Tick == QuietTick \/ Issue \/ Deliver

Next ==
  \/ \E p \in Procs, a \in Addrs : Access(p, a) \/ Evict(p, a)
  \/ TracesEnd
  \/ Tick

Spec == Init /\ [][Next]_vars

(***************************************************************************)
(* The engine's loop ticks for as long as a processor has work, and traces *)
(* are finite.                                                             *)
(***************************************************************************)
FairSpec == Spec /\ WF_vars(Tick) /\ WF_vars(TracesEnd)

-----------------------------------------------------------------------------
(***************************************************************************)
(* Safety.                                                                 *)
(***************************************************************************)

\* The point of the protocol (protocol.c): two caches never hold the same
\* block, as the caches themselves were told.
SingleHolder ==
  \A p, q \in Procs, a \in Addrs :
    <<p, a>> \in held /\ <<q, a>> \in held => p = q

\* What the caches were told agrees with coherence's states: the callbacks
\* leave no cache with a permission it lost or without one it has.
CachesAgree ==
  \A p \in Procs, a \in Addrs :
    /\ <<p, a>> \in held <=> coherStates[p][a] = "MODIFIED"
    /\ <<p, a>> \in waiting <=> coherStates[p][a] = "INVALID_MODIFIED"

\* Where p's transactions for block a are: 0 is the bus, until the
\* requester is told, and n > 0 the n-th place in p's queue.
Places(p, a) ==
  {n \in 1 .. Len(queuedRequests[p]) : queuedRequests[p][n].addr = a}
  \cup {n \in {0} : /\ pendingRequest # NULL
                    /\ phase # "callback"
                    /\ pendingRequest.procNum = p
                    /\ pendingRequest.addr = a}

\* No request is lost and none is made twice: a cache waits for a block
\* exactly while one transaction for it is on the bus or queued, and a
\* cache that waits for nothing has none.
RequestAccounted ==
  \A p \in Procs, a \in Addrs :
    /\ <<p, a>> \in waiting => Places(p, a) # {}
    /\ Places(p, a) # {} => <<p, a>> \in waiting \cup flushing
    /\ \A m, n \in Places(p, a) : m = n

\* A cache that invlReq told to wait has its write-back on the bus or
\* queued, so it will be told of its end.  (teamCache/eviction.c resumes a
\* request only when it is told.)
FlushAccounted ==
  \A p \in Procs, a \in Addrs :
    <<p, a>> \in flushing => Places(p, a) # {}

\* Two countdowns that are set in different files run in step: while the
\* bus waits for memory, memory is working on that very request and will
\* answer in the tick the bus's own countdown ends.
CountdownsInStep ==
  phase = "calls" /\ pendingRequest # NULL =>
    /\ pendingRequest.currentState = "WAITING_MEMORY" =>
         /\ memRequest = [addr |-> pendingRequest.addr,
                          procNum |-> pendingRequest.procNum]
         /\ memCountDown = busCountDown
    /\ pendingRequest.currentState = "WAITING_CACHE" => memRequest = NULL

(***************************************************************************)
(* Steps.                                                                  *)
(***************************************************************************)

\* The bus is given to a waiting processor in its turn: "for round robin
\* arbitration" (the comment at lastProc in interconnect.c).  The code does
\* not do this: a new request takes a bus it finds free.
RoundRobin ==
  [][ pendingRequest = NULL /\ pendingRequest' # NULL =>
        \A p \in Procs : HasTurn(p) => pendingRequest'.procNum = p ]_vars

\* The transaction on the bus goes in this step.
LeavesBus ==
  /\ pendingRequest # NULL
  /\ \/ pendingRequest' = NULL
     \/ pendingRequest'.addr # pendingRequest.addr
     \/ pendingRequest'.procNum # pendingRequest.procNum

\* The transaction on the bus takes an answer of memory in this step.
TakesAnswer ==
  /\ pendingRequest # NULL /\ ~pendingRequest.dataAvail
  /\ pendingRequest' # NULL /\ pendingRequest'.dataAvail

\* Memory begins to count for a new request.
MemoryAccepts == memCountDown' > memCountDown

\* A transaction leaves the bus only when memory or a cache has answered it,
\* and what it takes for memory's answer is not the answer to an earlier one
\* of the same processor and block, which memReqCallback cannot tell apart.
\* A transaction asks memory as it goes on from WAITING_CACHE: one that takes
\* an answer has asked, for it has gone on to WAITING_MEMORY, and the answer is
\* its own, for memory was idle when it asked and then worked for it alone.
ReleasedAnswered ==
  [][ /\ LeavesBus => pendingRequest.dataAvail \/ pendingRequest.data
      /\ TakesAnswer => pendingRequest.currentState = "WAITING_MEMORY"
      /\ MemoryAccepts =>
           /\ memRequest = NULL
           /\ pendingRequest # NULL
           /\ pendingRequest.currentState = "WAITING_CACHE"
           /\ memRequest' = [addr |-> pendingRequest.addr,
                             procNum |-> pendingRequest.procNum] ]_vars

(***************************************************************************)
(* Liveness and refinement.                                                *)
(***************************************************************************)

\* Every request is granted and every write-back completes.
RequestsServed ==
  \A p \in Procs, a \in Addrs :
    /\ <<p, a>> \in waiting ~> <<p, a>> \in held
    /\ <<p, a>> \in flushing ~> <<p, a>> \notin flushing

Port == INSTANCE CoherencePort WITH CacheIds <- Procs, Blocks <- Addrs

\* The system implements the interface the caches rely on: what they are
\* told by callbacks and return values is what CoherencePort promises.
PortSpec == Port!PortSpec
=============================================================================
