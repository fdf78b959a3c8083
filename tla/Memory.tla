------------------------------- MODULE Memory -------------------------------
(***************************************************************************)
(* memory/memory.c: a DRAM that works on one request at a time.  busReq    *)
(* accepts it and starts a countdown; tick counts down and at zero calls   *)
(* the interconnect back, unless a cache has supplied the block meanwhile  *)
(* (busReqCacheTransfer), in which case the answer is squelched and the    *)
(* DRAM is free at once.                                                   *)
(***************************************************************************)
EXTENDS BusTypes

CONSTANT DRAM_FETCH_TICKS  \* 90 in the code

ASSUME DramAssumption == DRAM_FETCH_TICKS \in Nat \ {0}

VARIABLES memRequest,   \* memory.c's pendingRequest: NULL or the request
          memCountDown  \* memory.c's countDown

memVars == <<memRequest, memCountDown>>

MemRequest == [addr : Addrs, procNum : Procs]

MemTypeOK ==
  /\ memRequest \in MemRequest \cup {NULL}
  /\ memCountDown \in 0 .. DRAM_FETCH_TICKS

MemInit ==
  /\ memRequest = NULL
  /\ memCountDown = 0

\* Mutant of MemBusReq: the countdown starts one tick short of what is returned.
MemBusReq_OneShort(addr, procNum) ==
  /\ memRequest' = [addr |-> addr, procNum |-> procNum]
  /\ memCountDown' = DRAM_FETCH_TICKS - 1

\* busReq: accept a request.  It asserts memRequest = NULL; that is no
\* guard, and the assertion is checked as an invariant of the composition.
MemBusReq(addr, procNum) ==
  /\ memRequest' = [addr |-> addr, procNum |-> procNum]
  /\ memCountDown' = DRAM_FETCH_TICKS

(***************************************************************************)
(* tick, one operator per way through it.  cacheTransfer is what           *)
(* busReqCacheTransfer returns for the request in service.                 *)
(***************************************************************************)

\* No request in service.
MemIdle ==
  /\ memCountDown = 0
  /\ memRequest = NULL
  /\ UNCHANGED memVars

\* The fetch takes at least one more tick.
MemCounts(cacheTransfer) ==
  /\ memCountDown > 1
  /\ ~cacheTransfer
  /\ memCountDown' = memCountDown - 1
  /\ UNCHANGED memRequest

\* A cache is transferring the block: the request is dropped unanswered.
MemSquelches(cacheTransfer) ==
  /\ memCountDown > 0
  /\ cacheTransfer
  /\ memCountDown' = 0
  /\ memRequest' = NULL

\* The fetch is over: the caller is told and the DRAM is free.
MemResponds(cacheTransfer) ==
  /\ memCountDown = 1
  /\ ~cacheTransfer
  /\ memCountDown' = 0
  /\ memRequest' = NULL
=============================================================================
