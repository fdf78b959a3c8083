---------------------------- MODULE MemorySystem ----------------------------
(***************************************************************************)
(* Coherence, interconnect and memory as one tick runs them.  The engine   *)
(* is one thread: coherence.tick calls interconnect.tick, which calls      *)
(* memory.tick and then does the bus's own work, which calls back into     *)
(* coherence and, through it, into the caches.  Caches and processors run  *)
(* between two bus ticks, and inside a callback.  `phase` is the place in  *)
(* that call chain:                                                        *)
(*   "calls"     the bus is not ticking: caches may call permReq, invlReq  *)
(*   "bus"       memory has ticked, the interconnect has not               *)
(*   "callback"  the requester's cache is told of its transaction: it may  *)
(*               call back, and pendingRequest is still set                *)
(***************************************************************************)
EXTENDS Memory, Interconnect, Coherence, FiniteSets

VARIABLE phase

systemVars == <<memVars, busVars, coherStates, phase>>

Phases == {"calls", "bus", "callback"}

SystemTypeOK ==
  /\ MemTypeOK
  /\ BusTypeOK
  /\ CoherTypeOK
  /\ phase \in Phases

SystemInit ==
  /\ MemInit
  /\ BusInit
  /\ CoherInit
  /\ phase = "calls"

(***************************************************************************)
(* What caches call.                                                       *)
(***************************************************************************)

\* May code of p's cache run now?
Running(p) ==
  \/ phase = "calls"
  \/ phase = "callback" /\ p = pendingRequest.procNum

\* permReq: ask for a block; the call returns cacheMI's permAvail.
permReq(p, a) ==
  LET asked == cacheMI(coherStates[p][a])
  IN /\ SetState(p, a, asked.next)
     /\ IF asked.send THEN busReq("BUSWR", a, p) ELSE UNCHANGED busVars
     /\ UNCHANGED <<memVars, phase>>

\* invlReq: give a block up; the call returns whether it was not INVALID,
\* and then its data goes on the bus.
invlReq(p, a) ==
  /\ SetState(p, a, "INVALID")
  /\ IF coherStates[p][a] # "INVALID"
       THEN busReq("DATA", a, p) ELSE UNCHANGED busVars
  /\ UNCHANGED <<memVars, phase>>

(***************************************************************************)
(* memory.tick, the first thing interconnect.tick does.                    *)
(***************************************************************************)
CacheTransfer ==
  memRequest # NULL /\ busReqCacheTransfer(memRequest.addr, memRequest.procNum)

MemoryTick ==
  /\ phase = "calls"
  /\ phase' = "bus"
  /\ \/ (MemIdle \/ MemCounts(CacheTransfer) \/ MemSquelches(CacheTransfer))
        /\ UNCHANGED pendingRequest
     \/ MemResponds(CacheTransfer)
        /\ memReqCallback(memRequest.procNum, memRequest.addr)
  /\ UNCHANGED <<queuedRequests, busCountDown, lastProc, coherStates>>

(***************************************************************************)
(* The rest of interconnect.tick, by what the owner of the bus needs.      *)
(* Memory's answer ends the countdown whatever is left of it.              *)
(***************************************************************************)
BusTicking == phase = "bus" /\ busCountDown > 0

Elapses == busCountDown = 1 /\ ~pendingRequest.dataAvail

\* The countdown goes on, or it has run out for a request that memory has
\* yet to answer, and then nothing else is done.
BusCounts ==
  /\ BusTicking
  /\ ~pendingRequest.dataAvail
  /\ busCountDown = 1 => pendingRequest.currentState = "WAITING_MEMORY"
  /\ busCountDown' = busCountDown - 1
  /\ phase' = "calls"
  /\ UNCHANGED <<memVars, pendingRequest, queuedRequests, lastProc, coherStates>>

\* What the snoop does at processor i, before its state changes.
Snooped(i) ==
  snoopMI(pendingRequest.brt, coherStates[i][pendingRequest.addr])

\* The processors that answer the snoop with DATA, and those whose caches it
\* tells INVALIDATE (the rest is told NO_ACTION).
SnoopedOwners ==
  {i \in Procs \ {pendingRequest.procNum} : Snooped(i).send}

Invalidated ==
  {i \in Procs \ {pendingRequest.procNum} : Snooped(i).ca = "INVALIDATE"}

(***************************************************************************)
(* CACHE_DELAY is over: memory is asked, and unless the transaction is     *)
(* itself DATA the other processors snoop it, in ascending order.  The     *)
(* first that sends DATA answers it, which turns it into a cache-to-cache  *)
(* transfer with brt = DATA; DATA of any further one would be queued.      *)
(***************************************************************************)
BusIssues ==
  /\ BusTicking
  /\ Elapses
  /\ pendingRequest.currentState = "WAITING_CACHE"
  /\ MemBusReq(pendingRequest.addr, pendingRequest.procNum)
  /\ LET a == pendingRequest.addr
         snoops == pendingRequest.brt # "DATA"
         answered == snoops /\ SnoopedOwners # {}
         late == {i \in SnoopedOwners : \E j \in SnoopedOwners : j < i}
     IN /\ pendingRequest' =
             [pendingRequest EXCEPT
                !.currentState = IF answered THEN "TRANSFERING_CACHE"
                                 ELSE "WAITING_MEMORY",
                !.data = answered \/ @,
                !.brt = IF answered THEN "DATA" ELSE @]
        /\ busCountDown' = IF answered THEN CACHE_TRANSFER ELSE DRAM_FETCH_TICKS
        /\ queuedRequests' =
             [i \in Procs |-> IF snoops /\ i \in late
                                THEN Append(queuedRequests[i],
                                            NewBusReq("DATA", a, i, "QUEUED"))
                                ELSE queuedRequests[i]]
        /\ coherStates' =
             [i \in Procs |->
                IF snoops /\ i # pendingRequest.procNum
                  THEN [coherStates[i] EXCEPT ![a] = Snooped(i).next]
                  ELSE coherStates[i]]
  /\ phase' = "calls"
  /\ UNCHANGED lastProc

\* What the requester's coherence state is told at the end: DATA from
\* memory, the transaction's own type after a cache-to-cache transfer.
DeliveredType ==
  IF pendingRequest.dataAvail THEN "DATA" ELSE pendingRequest.brt

Delivery ==
  snoopMI(DeliveredType, coherStates[pendingRequest.procNum][pendingRequest.addr])

\* Memory has answered, or the transfer is over: coherence.busReq for the
\* requester, which ends in its cache's callback.
BusDelivers ==
  /\ BusTicking
  /\ \/ pendingRequest.dataAvail
     \/ Elapses /\ pendingRequest.currentState = "TRANSFERING_CACHE"
  /\ LET p == pendingRequest.procNum
         a == pendingRequest.addr
     IN /\ SetState(p, a, Delivery.next)
        /\ queuedRequests' = IF Delivery.send THEN enqBusRequest("DATA", a, p)
                             ELSE queuedRequests
  /\ pendingRequest' =
       [pendingRequest EXCEPT
          !.currentState = IF pendingRequest.dataAvail
                             THEN "TRANSFERING_MEMORY" ELSE @]
  /\ busCountDown' = 0
  /\ phase' = "callback"
  /\ UNCHANGED <<memVars, lastProc>>

\* The callback has returned: the bus is free.
BusReleases ==
  /\ phase = "callback"
  /\ pendingRequest' = NULL
  /\ phase' = "calls"
  /\ UNCHANGED <<memVars, queuedRequests, busCountDown, lastProc, coherStates>>

\* No countdown runs: the next queued transaction gets the bus.
BusArbitrates ==
  /\ phase = "bus"
  /\ busCountDown = 0
  /\ \/ \E p \in Procs : BusDequeues(p)
     \/ (\A p \in Procs : ~HasTurn(p)) /\ UNCHANGED busVars
  /\ phase' = "calls"
  /\ UNCHANGED <<memVars, coherStates>>

(***************************************************************************)
(* The assert() calls on the way, stated where each is evaluated.          *)
(***************************************************************************)
AssertionsHold ==
  \* memory.tick: assert(pendingRequest) while its countdown runs
  /\ memCountDown > 0 => memRequest # NULL
  \* busReqCacheTransfer, called by memory.tick: assert(pendingRequest)
  /\ phase = "calls" /\ memCountDown > 0 => pendingRequest # NULL
  \* interconnect.tick: assert(pendingRequest != NULL)
  /\ busCountDown > 0 => pendingRequest # NULL
  \* memory.busReq, called when CACHE_DELAY is over: assert(no request)
  /\ BusTicking /\ Elapses /\ pendingRequest.currentState = "WAITING_CACHE"
       => memRequest = NULL
=============================================================================
