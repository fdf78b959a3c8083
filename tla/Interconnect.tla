---------------------------- MODULE Interconnect ----------------------------
(***************************************************************************)
(* interconnect/interconnect.c: the snooping bus.  One transaction owns    *)
(* the bus (pendingRequest); the others wait in one FIFO per processor.    *)
(* countDown is the number of ticks to the next state change of the owner. *)
(* This module has the bus's state and the handlers others call; what a    *)
(* tick does also moves memory and coherence, and is in MemorySystem.      *)
(***************************************************************************)
EXTENDS BusTypes, Sequences

CONSTANTS CACHE_DELAY,    \* 10 in the code: ticks before the caches are asked
          CACHE_TRANSFER  \* 10 in the code: ticks of a cache-to-cache transfer

ASSUME BusDelayAssumption ==
  CACHE_DELAY \in Nat \ {0} /\ CACHE_TRANSFER \in Nat \ {0}

VARIABLES pendingRequest,   \* the transaction on the bus, or NULL
          queuedRequests,   \* per processor, the transactions waiting
          busCountDown,     \* interconnect.c's countDown
          lastProc          \* where the next arbitration scan starts

busVars == <<pendingRequest, queuedRequests, busCountDown, lastProc>>

BusReqStates == {"QUEUED", "WAITING_CACHE", "WAITING_MEMORY",
                 "TRANSFERING_CACHE", "TRANSFERING_MEMORY"}

BusReq == [brt : BusReqTypes, addr : Addrs, procNum : Procs,
           currentState : BusReqStates, data : BOOLEAN, dataAvail : BOOLEAN]

\* A queued request is one that nobody has answered yet.
QueuedReq == [brt : BusReqTypes, addr : Addrs, procNum : Procs,
              currentState : {"QUEUED"}, data : {FALSE}, dataAvail : {FALSE}]

BusTypeOK ==
  /\ pendingRequest \in BusReq \cup {NULL}
  /\ queuedRequests \in [Procs -> Seq(QueuedReq)]
  /\ busCountDown \in Nat
  /\ lastProc \in Procs

BusInit ==
  /\ pendingRequest = NULL
  /\ queuedRequests = [p \in Procs |-> <<>>]
  /\ busCountDown = 0
  /\ lastProc = 0

\* The request busReq allocates, in the state it gives it.
NewBusReq(brt, addr, procNum, currentState) ==
  [brt |-> brt, addr |-> addr, procNum |-> procNum,
   currentState |-> currentState, data |-> FALSE, dataAvail |-> FALSE]

\* Mutant of enqBusRequest: the list is not walked to its end, and what was
\* queued is overwritten.
enqBusRequest_Overwrites(brt, addr, procNum) ==
  [queuedRequests EXCEPT ![procNum] =
     <<NewBusReq(brt, addr, procNum, "QUEUED")>>]

\* enqBusRequest: at the end of the processor's own queue.
enqBusRequest(brt, addr, procNum) ==
  [queuedRequests EXCEPT ![procNum] =
     Append(@, NewBusReq(brt, addr, procNum, "QUEUED"))]

(***************************************************************************)
(* busReq.  A free bus is taken at once, whatever the queues hold.         *)
(***************************************************************************)
BusReqStarts(brt, addr, procNum) ==
  /\ pendingRequest = NULL
  /\ pendingRequest' = NewBusReq(brt, addr, procNum, "WAITING_CACHE")
  /\ busCountDown' = CACHE_DELAY
  /\ UNCHANGED <<queuedRequests, lastProc>>

\* Mutants of AnswersPending: the address, or the state, is not compared.
AnswersPending_AnyAddr(brt, addr) ==
  /\ pendingRequest # NULL
  /\ brt = "DATA"
  /\ pendingRequest.currentState = "WAITING_MEMORY"

AnswersPending_AnyState(brt, addr) ==
  /\ pendingRequest # NULL
  /\ brt = "DATA"
  /\ pendingRequest.addr = addr

\* Does DATA for addr answer the transaction on the bus?
AnswersPending(brt, addr) ==
  /\ pendingRequest # NULL
  /\ brt = "DATA"
  /\ pendingRequest.addr = addr
  /\ pendingRequest.currentState = "WAITING_MEMORY"

BusReqAnswers(brt, addr, procNum) ==
  /\ AnswersPending(brt, addr)
  /\ pendingRequest' = [pendingRequest EXCEPT
                          !.data = TRUE, !.currentState = "TRANSFERING_CACHE"]
  /\ busCountDown' = CACHE_TRANSFER
  /\ UNCHANGED <<queuedRequests, lastProc>>

BusReqQueues(brt, addr, procNum) ==
  /\ pendingRequest # NULL
  /\ ~AnswersPending(brt, addr)
  /\ queuedRequests' = enqBusRequest(brt, addr, procNum)
  /\ UNCHANGED <<pendingRequest, busCountDown, lastProc>>

busReq(brt, addr, procNum) ==
  \/ BusReqStarts(brt, addr, procNum)
  \/ BusReqAnswers(brt, addr, procNum)
  \/ BusReqQueues(brt, addr, procNum)

\* memReqCallback: memory has the block.  An answer to anything but the
\* transaction on the bus is dropped.
memReqCallback(procNum, addr) ==
  pendingRequest' =
    IF /\ pendingRequest # NULL
       /\ pendingRequest.addr = addr
       /\ pendingRequest.procNum = procNum
    THEN [pendingRequest EXCEPT !.dataAvail = TRUE]
    ELSE pendingRequest

\* Mutant of busReqCacheTransfer: memory is never told of a transfer.
busReqCacheTransfer_Never(addr, procNum) == FALSE

\* busReqCacheTransfer: is this request being answered by a cache?  It
\* asserts pendingRequest; see AssertionsHold in MemorySystem.
busReqCacheTransfer(addr, procNum) ==
  /\ pendingRequest # NULL
  /\ pendingRequest.addr = addr
  /\ pendingRequest.procNum = procNum
  /\ pendingRequest.currentState = "TRANSFERING_CACHE"

(***************************************************************************)
(* Arbitration.  tick scans the queues from lastProc, wrapping round, and  *)
(* takes the head of the first that is not empty: the one with the least   *)
(* distance from lastProc.                                                 *)
(***************************************************************************)
Distance(p) == IF p >= lastProc THEN p - lastProc
               ELSE p - lastProc + ProcessorCount

\* Mutant of HasTurn: the scan stops one processor early.
HasTurn_StopsEarly(p) ==
  /\ queuedRequests[p] # <<>>
  /\ Distance(p) < ProcessorCount - 1
  /\ \A q \in Procs : queuedRequests[q] # <<>> => Distance(p) <= Distance(q)

HasTurn(p) ==
  /\ queuedRequests[p] # <<>>
  /\ \A q \in Procs : queuedRequests[q] # <<>> => Distance(p) <= Distance(q)

\* Mutant of BusDequeues: lastProc is not taken modulo processorCount.
BusDequeues_NoWrap(p) ==
  /\ HasTurn(p)
  /\ pendingRequest' = [Head(queuedRequests[p]) EXCEPT
                          !.currentState = "WAITING_CACHE"]
  /\ queuedRequests' = [queuedRequests EXCEPT ![p] = Tail(@)]
  /\ busCountDown' = CACHE_DELAY
  /\ lastProc' = p + 1

\* deqBusRequest and the assignments after it.
BusDequeues(p) ==
  /\ HasTurn(p)
  /\ pendingRequest' = [Head(queuedRequests[p]) EXCEPT
                          !.currentState = "WAITING_CACHE"]
  /\ queuedRequests' = [queuedRequests EXCEPT ![p] = Tail(@)]
  /\ busCountDown' = CACHE_DELAY
  /\ lastProc' = IF p = ProcessorCount - 1 THEN 0 ELSE p + 1
=============================================================================
