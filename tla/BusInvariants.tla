--------------------------- MODULE BusInvariants ---------------------------
(***************************************************************************)
(* The inductive invariants behind the safety properties of BusSystem: why *)
(* memory and bus stay in step, and why a grant finds nobody else holding  *)
(* the block.  TLC checks them on small instances, BusSystemProofs proves  *)
(* them inductive.                                                         *)
(***************************************************************************)
EXTENDS BusSystem

PendingIs(states) == pendingRequest.currentState \in states

\* Memory works on the transaction that is on the bus.
MemoryServesPending ==
  memRequest = [addr |-> pendingRequest.addr, procNum |-> pendingRequest.procNum]

\* The bus is free: nothing counts and memory is idle.
FreeBus == pendingRequest = NULL => busCountDown = 0 /\ memRequest = NULL

\* Memory counts exactly while it has a request.
MemoryCounting == memCountDown > 0 <=> memRequest # NULL

\* The requester is being told: its transaction is over for bus and memory.
InCallback ==
  phase = "callback" =>
    /\ pendingRequest # NULL
    /\ PendingIs({"TRANSFERING_CACHE", "TRANSFERING_MEMORY"})
    /\ busCountDown = 0
    /\ memRequest = NULL
    /\ pendingRequest.dataAvail \/ pendingRequest.data

\* Between ticks: memory is idle before the snoop, counts with the bus after
\* it, and may be left with a request that a cache has answered.
BetweenTicks ==
  phase = "calls" /\ pendingRequest # NULL =>
    /\ busCountDown > 0
    /\ ~pendingRequest.dataAvail
    /\ PendingIs({"WAITING_CACHE", "WAITING_MEMORY", "TRANSFERING_CACHE"})
    /\ PendingIs({"WAITING_CACHE"}) => memRequest = NULL
    /\ PendingIs({"WAITING_MEMORY"}) =>
         MemoryServesPending /\ memCountDown = busCountDown
    /\ PendingIs({"TRANSFERING_CACHE"}) =>
         /\ pendingRequest.data
         /\ memRequest # NULL => MemoryServesPending

\* Memory has ticked: it is one ahead of the bus, or has just answered.
WithinTick ==
  phase = "bus" /\ pendingRequest # NULL =>
    /\ busCountDown > 0
    /\ PendingIs({"WAITING_CACHE", "WAITING_MEMORY", "TRANSFERING_CACHE"})
    /\ PendingIs({"WAITING_CACHE", "TRANSFERING_CACHE"}) =>
         memRequest = NULL /\ ~pendingRequest.dataAvail
    /\ PendingIs({"TRANSFERING_CACHE"}) => pendingRequest.data
    /\ PendingIs({"WAITING_MEMORY"}) =>
         IF pendingRequest.dataAvail
           THEN busCountDown = 1 /\ memRequest = NULL
           ELSE MemoryServesPending /\ memCountDown = busCountDown - 1

\* Memory and bus in step.
Lockstep ==
  /\ FreeBus
  /\ MemoryCounting
  /\ InCallback
  /\ BetweenTicks
  /\ WithinTick

-----------------------------------------------------------------------------

\* The transaction on the bus, until its requester is told.
OnBus == pendingRequest # NULL /\ phase # "callback"

\* What a transaction stands for: BUSWR for a wait, DATA for a write-back.
Purpose(req) == IF req.brt = "BUSWR" THEN waiting ELSE flushing

\* Queued transactions are their processor's, each has its purpose, and a
\* processor has queued at most one for a block.
QueuesSound ==
  \A p \in Procs : \A n \in 1 .. Len(queuedRequests[p]) :
    /\ queuedRequests[p][n].procNum = p
    /\ <<p, queuedRequests[p][n].addr>> \in Purpose(queuedRequests[p][n])
    /\ \A m \in 1 .. Len(queuedRequests[p]) :
         queuedRequests[p][m].addr = queuedRequests[p][n].addr => m = n

\* The transaction on the bus is the only one of its processor for its
\* block.  Until it is snooped it has its purpose; after that, DATA may also
\* be a cache's answer to a BUSWR.
PendingSound ==
  OnBus =>
    LET p == pendingRequest.procNum
        a == pendingRequest.addr
    IN /\ \A n \in 1 .. Len(queuedRequests[p]) : queuedRequests[p][n].addr # a
       /\ <<p, a>> \in waiting \cup flushing
       /\ pendingRequest.data \/ <<p, a>> \in Purpose(pendingRequest)
       /\ PendingIs({"WAITING_CACHE", "WAITING_MEMORY"}) => ~pendingRequest.data
       /\ pendingRequest.data => pendingRequest.brt = "DATA"

\* A cache that writes a block back has no state for it.
FlushingInvalid ==
  \A p \in Procs, a \in Addrs :
    <<p, a>> \in flushing => coherStates[p][a] = "INVALID"

\* After the snoop, and until the grant, nobody holds the block that the
\* requester of the transaction waits for.
SnoopedClear ==
  OnBus /\ PendingIs({"WAITING_MEMORY", "TRANSFERING_CACHE"})
  /\ <<pendingRequest.procNum, pendingRequest.addr>> \in waiting
    => \A q \in Procs : coherStates[q][pendingRequest.addr] # "MODIFIED"

\* Everything a grant rests on.
GrantInv ==
  /\ CachesAgree
  /\ SingleHolder
  /\ FlushingInvalid
  /\ QueuesSound
  /\ PendingSound
  /\ SnoopedClear
=============================================================================
