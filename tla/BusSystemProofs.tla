-------------------------- MODULE BusSystemProofs --------------------------
(***************************************************************************)
(* Proofs about BusSystem, for any number of processors, any set of blocks *)
(* and any delays.  First that memory and bus stay in step (Lockstep),     *)
(* which gives type correctness and the code's assertions; then that a     *)
(* grant finds the block free (GrantInv), which gives SingleHolder.        *)
(***************************************************************************)
EXTENDS BusInvariants, TLAPS

\* NULL is no request.
LEMMA NullIsNoRequest == NULL \notin BusReq /\ NULL \notin MemRequest
BY NullAssumption DEF BusReq, MemRequest, BusReqStates

\* A request that busReq allocates has the type of one.
LEMMA NewBusReqType ==
  ASSUME NEW brt \in BusReqTypes, NEW a \in Addrs, NEW p \in Procs,
         NEW s \in BusReqStates
  PROVE  NewBusReq(brt, a, p, s) \in BusReq
BY DEF NewBusReq, BusReq

LEMMA QueuedReqType ==
  ASSUME NEW brt \in BusReqTypes, NEW a \in Addrs, NEW p \in Procs
  PROVE  NewBusReq(brt, a, p, "QUEUED") \in QueuedReq
BY DEF NewBusReq, QueuedReq

\* Queueing a request keeps the queues well typed.
LEMMA EnqueueType ==
  ASSUME BusTypeOK, NEW brt \in BusReqTypes, NEW a \in Addrs, NEW p \in Procs
  PROVE  enqBusRequest(brt, a, p) \in [Procs -> Seq(QueuedReq)]
<1>1. NewBusReq(brt, a, p, "QUEUED") \in QueuedReq
  BY QueuedReqType
<1>2. queuedRequests[p] \in Seq(QueuedReq)
  BY DEF BusTypeOK
<1>3. Append(queuedRequests[p], NewBusReq(brt, a, p, "QUEUED"))
        \in Seq(QueuedReq)
  BY <1>1, <1>2
<1> QED
  BY <1>3 DEF enqBusRequest, BusTypeOK

-----------------------------------------------------------------------------
(***************************************************************************)
(* Memory and bus in step.                                                 *)
(***************************************************************************)

LEMMA InitLockstep == Init => TypeOK /\ Lockstep
<1> SUFFICES ASSUME Init PROVE TypeOK /\ Lockstep
  OBVIOUS
<1> USE DEF Init, SystemInit, MemInit, BusInit, CoherInit
<1>1. 0 \in Procs
  BY ProcessorCountAssumption DEF Procs
<1>2. MemTypeOK
  BY DramAssumption DEF MemTypeOK
<1>3. BusTypeOK
  BY <1>1 DEF BusTypeOK
<1>4. CoherTypeOK
  BY DEF CoherTypeOK, States
<1>5. TypeOK
  BY <1>2, <1>3, <1>4 DEF TypeOK, SystemTypeOK, Phases
<1>6. Lockstep
  BY DEF Lockstep, FreeBus, MemoryCounting, InCallback, BetweenTicks, WithinTick
<1> QED
  BY <1>5, <1>6

\* A call of busReq by a cache keeps bus and memory in step.
LEMMA BusReqLockstep ==
  ASSUME TypeOK, Lockstep, phase # "bus",
         NEW brt \in BusReqTypes, NEW a \in Addrs, NEW p \in Procs,
         busReq(brt, a, p), UNCHANGED <<memVars, phase>>
  PROVE  BusTypeOK' /\ Lockstep'
<1> USE DEF TypeOK, SystemTypeOK, MemTypeOK, BusTypeOK, memVars
<1> USE NullIsNoRequest, DramAssumption, BusDelayAssumption
<1>1. CASE BusReqStarts(brt, a, p)
  <2>1. pendingRequest' \in BusReq
    BY <1>1, NewBusReqType DEF BusReqStarts, BusReqStates
  <2>2. BusTypeOK'
    BY <1>1, <2>1 DEF BusReqStarts
  <2>3. phase = "calls" /\ memRequest = NULL
    BY <1>1 DEF BusReqStarts, Lockstep, InCallback, FreeBus, Phases
  <2>4. /\ pendingRequest'.currentState = "WAITING_CACHE"
        /\ ~pendingRequest'.dataAvail
        /\ busCountDown' = CACHE_DELAY
    BY <1>1 DEF BusReqStarts, NewBusReq
  <2>5. Lockstep'
    BY <2>1, <2>3, <2>4
    DEF Lockstep, FreeBus, MemoryCounting, InCallback,
        BetweenTicks, WithinTick, PendingIs, MemoryServesPending
  <2> QED
    BY <2>2, <2>5
<1>2. CASE BusReqAnswers(brt, a, p)
  <2>1. pendingRequest \in BusReq /\ PendingIs({"WAITING_MEMORY"})
    BY <1>2 DEF BusReqAnswers, AnswersPending, PendingIs
  <2>2. pendingRequest' \in BusReq
    BY <1>2, <2>1 DEF BusReqAnswers, BusReq, BusReqStates
  <2>3. BusTypeOK'
    BY <1>2, <2>2 DEF BusReqAnswers
  <2>4. phase = "calls"
    BY <2>1 DEF Lockstep, InCallback, Phases, PendingIs
  <2>5. MemoryServesPending /\ ~pendingRequest.dataAvail
    BY <1>2, <2>1, <2>4
    DEF BusReqAnswers, AnswersPending, Lockstep, BetweenTicks, PendingIs
  <2>6. /\ pendingRequest'.currentState = "TRANSFERING_CACHE"
        /\ pendingRequest'.data /\ ~pendingRequest'.dataAvail
        /\ pendingRequest'.addr = pendingRequest.addr
        /\ pendingRequest'.procNum = pendingRequest.procNum
    BY <1>2, <2>1, <2>5 DEF BusReqAnswers, BusReq
  <2>7. Lockstep'
    BY <1>2, <2>2, <2>4, <2>5, <2>6
    DEF BusReqAnswers, Lockstep, FreeBus, MemoryCounting, InCallback,
        BetweenTicks, WithinTick, PendingIs, MemoryServesPending
  <2> QED
    BY <2>3, <2>7
<1>3. CASE BusReqQueues(brt, a, p)
  <2>1. BusTypeOK'
    BY <1>3, EnqueueType DEF BusReqQueues
  <2>2. Lockstep'
    BY <1>3
    DEF BusReqQueues, Lockstep, FreeBus, MemoryCounting, InCallback,
        BetweenTicks, WithinTick, PendingIs, MemoryServesPending
  <2> QED
    BY <2>1, <2>2
<1> QED
  BY <1>1, <1>2, <1>3 DEF busReq

\* Memory ticks: it moves one ahead of the bus, or answers, or drops the request.
LEMMA MemoryTickLockstep ==
  ASSUME TypeOK, Lockstep, MemoryTick
  PROVE  SystemTypeOK' /\ Lockstep'
<1> USE DEF TypeOK, SystemTypeOK, MemTypeOK, BusTypeOK, CoherTypeOK, MemoryTick,
            memVars
<1> USE NullIsNoRequest, DramAssumption
<1>1. phase = "calls" /\ phase' = "bus" /\ phase' \in Phases
  BY DEF Phases
<1>2. UNCHANGED <<queuedRequests, busCountDown, lastProc, coherStates>>
  OBVIOUS
<1>3. CASE MemIdle /\ UNCHANGED pendingRequest
  <2>1. SystemTypeOK'
    BY <1>1, <1>2, <1>3 DEF MemIdle
  <2>2. Lockstep'
    BY <1>1, <1>2, <1>3
    DEF MemIdle, Lockstep, FreeBus, MemoryCounting, InCallback,
        BetweenTicks, WithinTick, PendingIs, MemoryServesPending
  <2> QED
    BY <2>1, <2>2
<1>4. CASE MemCounts(CacheTransfer) /\ UNCHANGED pendingRequest
  <2>1. SystemTypeOK'
    BY <1>1, <1>2, <1>4 DEF MemCounts
  <2>2. pendingRequest # NULL /\ memRequest # NULL
    BY <1>4, <1>1 DEF MemCounts, Lockstep, FreeBus, MemoryCounting
  <2>3. ~PendingIs({"TRANSFERING_CACHE"})
    BY <2>2, <1>4, <1>1
    DEF MemCounts, CacheTransfer, busReqCacheTransfer, Lockstep, BetweenTicks,
        PendingIs, MemoryServesPending, MemRequest, BusReq
  <2>4. PendingIs({"WAITING_MEMORY"})
    BY <2>2, <2>3, <1>1 DEF Lockstep, BetweenTicks, PendingIs
  <2>5. /\ memCountDown > 1
        /\ memCountDown' = memCountDown - 1
        /\ UNCHANGED <<memRequest, pendingRequest>>
    BY <1>4 DEF MemCounts
  <2>6. Lockstep'
    BY <1>1, <1>2, <2>2, <2>4, <2>5
    DEF Lockstep, FreeBus, MemoryCounting, InCallback,
        BetweenTicks, WithinTick, PendingIs, MemoryServesPending
  <2> QED
    BY <2>1, <2>6
<1>5. CASE MemSquelches(CacheTransfer) /\ UNCHANGED pendingRequest
  <2>1. SystemTypeOK'
    BY <1>1, <1>2, <1>5 DEF MemSquelches
  <2>2. pendingRequest # NULL /\ PendingIs({"TRANSFERING_CACHE"})
    BY <1>5 DEF MemSquelches, CacheTransfer, busReqCacheTransfer, PendingIs
  <2>3. memRequest' = NULL /\ memCountDown' = 0 /\ UNCHANGED pendingRequest
    BY <1>5 DEF MemSquelches
  <2>4. Lockstep'
    BY <1>1, <1>2, <2>2, <2>3
    DEF Lockstep, FreeBus, MemoryCounting, InCallback,
        BetweenTicks, WithinTick, PendingIs, MemoryServesPending
  <2> QED
    BY <2>1, <2>4
<1>6. CASE MemResponds(CacheTransfer)
           /\ memReqCallback(memRequest.procNum, memRequest.addr)
  <2>1. memRequest # NULL /\ pendingRequest # NULL
    BY <1>6, <1>1 DEF MemResponds, Lockstep, MemoryCounting, FreeBus
  <2>2. ~PendingIs({"TRANSFERING_CACHE"})
    BY <2>1, <1>6, <1>1
    DEF MemResponds, CacheTransfer, busReqCacheTransfer, Lockstep, BetweenTicks,
        PendingIs, MemoryServesPending
  <2>3. PendingIs({"WAITING_MEMORY"})
    BY <2>1, <2>2, <1>1 DEF Lockstep, BetweenTicks, PendingIs
  <2>4. MemoryServesPending /\ busCountDown = 1
    BY <2>1, <2>3, <1>1, <1>6 DEF MemResponds, Lockstep, BetweenTicks
  <2>5. pendingRequest' = [pendingRequest EXCEPT !.dataAvail = TRUE]
    BY <2>1, <2>4, <1>6 DEF memReqCallback, MemoryServesPending
  <2>6. /\ pendingRequest' \in BusReq
        /\ pendingRequest'.dataAvail
        /\ pendingRequest'.currentState = "WAITING_MEMORY"
    BY <2>1, <2>3, <2>5 DEF BusReq, PendingIs
  <2>7. memRequest' = NULL /\ memCountDown' = 0
    BY <1>6 DEF MemResponds
  <2>8. SystemTypeOK'
    BY <1>1, <1>2, <2>6, <2>7
  <2>9. Lockstep'
    BY <1>1, <1>2, <2>4, <2>6, <2>7
    DEF Lockstep, FreeBus, MemoryCounting, InCallback,
        BetweenTicks, WithinTick, PendingIs, MemoryServesPending
  <2> QED
    BY <2>8, <2>9
<1> QED
  BY <1>3, <1>4, <1>5, <1>6

\* The bus counts: it catches up with memory.
LEMMA BusCountsLockstep ==
  ASSUME TypeOK, Lockstep, BusCounts
  PROVE  SystemTypeOK' /\ Lockstep'
<1> USE DEF TypeOK, SystemTypeOK, MemTypeOK, BusTypeOK, CoherTypeOK, memVars
<1>1. /\ phase = "bus" /\ phase' = "calls"
      /\ busCountDown > 0 /\ busCountDown' = busCountDown - 1
      /\ ~pendingRequest.dataAvail
      /\ busCountDown = 1 => pendingRequest.currentState = "WAITING_MEMORY"
      /\ UNCHANGED <<memRequest, memCountDown, pendingRequest, queuedRequests,
                     lastProc, coherStates>>
  BY DEF BusCounts, BusTicking
<1>2. pendingRequest # NULL
  BY <1>1 DEF Lockstep, FreeBus
<1>3. busCountDown > 1
  <2> SUFFICES ASSUME busCountDown = 1 PROVE FALSE
    BY <1>1
  <2>1. MemoryServesPending /\ memCountDown = 0
    BY <1>1, <1>2 DEF Lockstep, WithinTick, PendingIs
  <2>2. memRequest \in MemRequest
    BY <1>2, <2>1 DEF MemoryServesPending, MemRequest, BusReq
  <2> QED
    BY <2>1, <2>2, NullIsNoRequest DEF Lockstep, MemoryCounting
<1>4. SystemTypeOK'
  BY <1>1 DEF Phases
<1>5. Lockstep'
  BY <1>1, <1>2, <1>3
  DEF Lockstep, FreeBus, MemoryCounting, InCallback,
      BetweenTicks, WithinTick, PendingIs, MemoryServesPending
<1> QED
  BY <1>4, <1>5

\* The snoop: memory is idle, takes the request and counts with the bus,
\* unless a cache answers at once.
LEMMA BusIssuesLockstep ==
  ASSUME TypeOK, Lockstep, BusIssues
  PROVE  /\ SystemTypeOK' /\ Lockstep'
         /\ pendingRequest \in BusReq
<1> USE DEF TypeOK, SystemTypeOK, MemTypeOK, BusTypeOK, CoherTypeOK
<1> USE NullIsNoRequest, DramAssumption, BusDelayAssumption
<1> DEFINE a == pendingRequest.addr
           answered == pendingRequest.brt # "DATA" /\ SnoopedOwners # {}
<1>1. /\ phase = "bus" /\ phase' = "calls"
      /\ busCountDown > 0 /\ ~pendingRequest.dataAvail
      /\ pendingRequest.currentState = "WAITING_CACHE"
      /\ UNCHANGED lastProc
  BY DEF BusIssues, BusTicking, Elapses
<1>2. pendingRequest \in BusReq /\ a \in Addrs /\ pendingRequest.procNum \in Procs
  BY <1>1 DEF Lockstep, FreeBus, BusReq
<1>3. /\ memRequest' = [addr |-> a, procNum |-> pendingRequest.procNum]
      /\ memCountDown' = DRAM_FETCH_TICKS
  BY DEF BusIssues, MemBusReq
<1>4. MemTypeOK' /\ memRequest' # NULL
  BY <1>2, <1>3 DEF MemRequest
<1>5. /\ pendingRequest' \in BusReq
      /\ pendingRequest'.addr = a
      /\ pendingRequest'.procNum = pendingRequest.procNum
      /\ ~pendingRequest'.dataAvail
      /\ answered => /\ pendingRequest'.currentState = "TRANSFERING_CACHE"
                     /\ pendingRequest'.data
                     /\ busCountDown' = CACHE_TRANSFER
      /\ ~answered => /\ pendingRequest'.currentState = "WAITING_MEMORY"
                      /\ busCountDown' = DRAM_FETCH_TICKS
  BY <1>1, <1>2 DEF BusIssues, BusReq, BusReqStates, BusReqTypes
<1>6. queuedRequests' \in [Procs -> Seq(QueuedReq)]
  <2>1. ASSUME NEW i \in Procs
        PROVE  Append(queuedRequests[i], NewBusReq("DATA", a, i, "QUEUED"))
                 \in Seq(QueuedReq)
    <3>1. NewBusReq("DATA", a, i, "QUEUED") \in QueuedReq
      BY <1>2, QueuedReqType DEF BusReqTypes
    <3> QED
      BY <3>1
  <2> QED
    BY <2>1 DEF BusIssues
<1>7. CoherTypeOK'
  <2>1. ASSUME NEW i \in Procs
        PROVE  [coherStates[i] EXCEPT ![a] = Snooped(i).next]
                 \in [Addrs -> States]
    BY <1>2 DEF Snooped, snoopMI, States
  <2> QED
    BY <2>1 DEF BusIssues
<1>8. SystemTypeOK'
  BY <1>1, <1>4, <1>5, <1>6, <1>7 DEF Phases
<1>9. Lockstep'
  <2>1. FreeBus' /\ InCallback' /\ WithinTick'
    BY <1>1, <1>5 DEF FreeBus, InCallback, WithinTick
  <2>2. MemoryCounting'
    BY <1>3, <1>4 DEF MemoryCounting
  <2>3. MemoryServesPending'
    BY <1>3, <1>5 DEF MemoryServesPending
  <2>4. BetweenTicks'
    BY <1>3, <1>5, <2>3 DEF BetweenTicks, PendingIs
  <2> QED
    BY <2>1, <2>2, <2>4 DEF Lockstep
<1> QED
  BY <1>2, <1>8, <1>9

\* The requester is told: memory has nothing left to do for it.
LEMMA BusDeliversLockstep ==
  ASSUME TypeOK, Lockstep, BusDelivers
  PROVE  /\ SystemTypeOK' /\ Lockstep'
         /\ pendingRequest \in BusReq
<1> USE DEF TypeOK, SystemTypeOK, MemTypeOK, BusTypeOK, CoherTypeOK, memVars
<1> USE NullIsNoRequest
<1>1. /\ phase = "bus" /\ phase' = "callback"
      /\ busCountDown > 0 /\ busCountDown' = 0
      /\ \/ pendingRequest.dataAvail
         \/ pendingRequest.currentState = "TRANSFERING_CACHE"
      /\ UNCHANGED <<memRequest, memCountDown, lastProc>>
  BY DEF BusDelivers, BusTicking, Elapses
<1>2. /\ pendingRequest \in BusReq
      /\ pendingRequest.addr \in Addrs /\ pendingRequest.procNum \in Procs
  BY <1>1 DEF Lockstep, FreeBus, BusReq
<1>3. /\ pendingRequest' \in BusReq
      /\ pendingRequest'.currentState
           \in {"TRANSFERING_CACHE", "TRANSFERING_MEMORY"}
      /\ pendingRequest'.dataAvail = pendingRequest.dataAvail
      /\ pendingRequest'.data = pendingRequest.data
  BY <1>1, <1>2 DEF BusDelivers, BusReq, BusReqStates
<1>4. queuedRequests' \in [Procs -> Seq(QueuedReq)]
  BY <1>2, EnqueueType DEF BusDelivers, BusReqTypes
<1>5. CoherTypeOK'
  <2>1. Delivery.next \in States
    BY <1>2 DEF Delivery, snoopMI, States
  <2> QED
    BY <1>2, <2>1 DEF BusDelivers, SetState
<1>6. SystemTypeOK'
  BY <1>1, <1>3, <1>4, <1>5 DEF Phases
<1>7. memRequest = NULL
  BY <1>1, <1>2 DEF Lockstep, WithinTick, PendingIs
<1>8. pendingRequest.dataAvail \/ pendingRequest.data
  BY <1>1, <1>2 DEF Lockstep, WithinTick, PendingIs
<1>9. Lockstep'
  BY <1>1, <1>3, <1>7, <1>8
  DEF Lockstep, FreeBus, MemoryCounting, InCallback,
      BetweenTicks, WithinTick, PendingIs, MemoryServesPending
<1> QED
  BY <1>2, <1>6, <1>9

\* The bus is freed: memory is idle, so a free bus is what is left.
LEMMA BusReleasesLockstep ==
  ASSUME TypeOK, Lockstep, BusReleases
  PROVE  SystemTypeOK' /\ Lockstep'
<1> USE DEF TypeOK, SystemTypeOK, MemTypeOK, BusTypeOK, CoherTypeOK, memVars,
            BusReleases
<1>1. SystemTypeOK'
  BY DEF Phases
<1>2. busCountDown = 0 /\ memRequest = NULL
  BY DEF Lockstep, InCallback
<1>3. Lockstep'
  BY <1>2
  DEF Lockstep, FreeBus, MemoryCounting, InCallback, BetweenTicks, WithinTick
<1> QED
  BY <1>1, <1>3

\* A queued request gets the bus only when it is free.
LEMMA BusArbitratesLockstep ==
  ASSUME TypeOK, Lockstep, BusArbitrates
  PROVE  SystemTypeOK' /\ Lockstep' /\ pendingRequest = NULL
<1> USE DEF TypeOK, SystemTypeOK, MemTypeOK, BusTypeOK, CoherTypeOK, memVars
<1> USE NullIsNoRequest, BusDelayAssumption
<1>1. /\ phase = "bus" /\ phase' = "calls" /\ busCountDown = 0
      /\ UNCHANGED <<memRequest, memCountDown, coherStates>>
  BY DEF BusArbitrates
<1>2. pendingRequest = NULL /\ memRequest = NULL
  BY <1>1 DEF Lockstep, WithinTick, FreeBus
<1>3. CASE UNCHANGED busVars
  <2>1. SystemTypeOK'
    BY <1>1, <1>3 DEF busVars, Phases
  <2>2. Lockstep'
    BY <1>1, <1>2, <1>3
    DEF busVars, Lockstep, FreeBus, MemoryCounting, InCallback, BetweenTicks,
        WithinTick
  <2> QED
    BY <1>2, <2>1, <2>2
<1>4. ASSUME NEW p \in Procs, BusDequeues(p)
      PROVE  SystemTypeOK' /\ Lockstep'
  <2>1. queuedRequests[p] \in Seq(QueuedReq) /\ queuedRequests[p] # <<>>
    BY <1>4 DEF BusDequeues, HasTurn
  <2>2. Head(queuedRequests[p]) \in QueuedReq
        /\ Tail(queuedRequests[p]) \in Seq(QueuedReq)
    BY <2>1
  <2>3. /\ pendingRequest' \in BusReq
        /\ pendingRequest'.currentState = "WAITING_CACHE"
        /\ ~pendingRequest'.dataAvail
    BY <1>4, <2>2 DEF BusDequeues, BusReq, QueuedReq, BusReqStates
  <2>4. queuedRequests' \in [Procs -> Seq(QueuedReq)]
    BY <1>4, <2>2 DEF BusDequeues
  <2>5. busCountDown' = CACHE_DELAY /\ lastProc' \in Procs
    <3>1. /\ busCountDown' = CACHE_DELAY
          /\ lastProc' = IF p = ProcessorCount - 1 THEN 0 ELSE p + 1
      BY <1>4 DEF BusDequeues
    <3>2. (IF p = ProcessorCount - 1 THEN 0 ELSE p + 1) \in Procs
      BY ProcessorCountAssumption DEF Procs
    <3> QED
      BY <3>1, <3>2
  <2>6. SystemTypeOK'
    BY <1>1, <2>3, <2>4, <2>5 DEF Phases
  <2>7. Lockstep'
    BY <1>1, <1>2, <2>3, <2>5
    DEF Lockstep, FreeBus, MemoryCounting, InCallback, BetweenTicks,
        WithinTick, PendingIs
  <2> QED
    BY <2>6, <2>7
<1> QED
  BY <1>2, <1>3, <1>4 DEF BusArbitrates

\* What a cache's calls keep: they never run while memory or bus does.
LEMMA RunningPhase ==
  ASSUME TypeOK, NEW p \in Procs, Running(p)
  PROVE  phase # "bus"
BY DEF Running

LEMMA AccessLockstep ==
  ASSUME TypeOK, Lockstep, NEW p \in Procs, NEW a \in Addrs, Access(p, a)
  PROVE  TypeOK' /\ Lockstep'
<1>1. /\ phase # "bus" /\ permReq(p, a) /\ UNCHANGED <<memVars, phase>>
      /\ UNCHANGED <<flushing, held, tracing>>
  BY RunningPhase DEF Access, permReq
<1>2. BusTypeOK' /\ Lockstep'
  <2>1. CASE cacheMI(coherStates[p][a]).send
    <3>1. busReq("BUSWR", a, p)
      BY <1>1, <2>1 DEF permReq
    <3>2. "BUSWR" \in BusReqTypes
      BY DEF BusReqTypes
    <3> QED
      BY <1>1, <3>1, <3>2, BusReqLockstep
  <2>2. CASE ~cacheMI(coherStates[p][a]).send
    BY <1>1, <2>2
    DEF permReq, busVars, memVars, TypeOK, SystemTypeOK, BusTypeOK, Lockstep,
        FreeBus, MemoryCounting, InCallback, BetweenTicks, WithinTick,
        PendingIs, MemoryServesPending
  <2> QED
    BY <2>1, <2>2
<1>3. CoherTypeOK'
  <2>1. cacheMI(coherStates[p][a]).next \in States
    BY DEF cacheMI, TypeOK, SystemTypeOK, CoherTypeOK, States
  <2> QED
    BY <1>1, <2>1 DEF permReq, SetState, TypeOK, SystemTypeOK, CoherTypeOK
<1>4. SystemTypeOK'
  BY <1>1, <1>2, <1>3 DEF TypeOK, SystemTypeOK, MemTypeOK, memVars
<1>5. waiting' \subseteq Procs \X Addrs
  BY DEF Access, TypeOK
<1> QED
  BY <1>1, <1>2, <1>4, <1>5 DEF TypeOK

LEMMA EvictLockstep ==
  ASSUME TypeOK, Lockstep, NEW p \in Procs, NEW a \in Addrs, Evict(p, a)
  PROVE  TypeOK' /\ Lockstep'
<1>1. /\ phase # "bus" /\ invlReq(p, a) /\ UNCHANGED <<memVars, phase>>
      /\ UNCHANGED <<waiting, tracing>>
  BY RunningPhase DEF Evict, invlReq
<1>2. BusTypeOK' /\ Lockstep'
  <2>1. CASE coherStates[p][a] # "INVALID"
    <3>1. busReq("DATA", a, p)
      BY <1>1, <2>1 DEF invlReq
    <3>2. "DATA" \in BusReqTypes
      BY DEF BusReqTypes
    <3> QED
      BY <1>1, <3>1, <3>2, BusReqLockstep
  <2>2. CASE coherStates[p][a] = "INVALID"
    BY <1>1, <2>2
    DEF invlReq, busVars, memVars, TypeOK, SystemTypeOK, BusTypeOK, Lockstep,
        FreeBus, MemoryCounting, InCallback, BetweenTicks, WithinTick,
        PendingIs, MemoryServesPending
  <2> QED
    BY <2>1, <2>2
<1>3. CoherTypeOK'
  BY <1>1 DEF invlReq, SetState, TypeOK, SystemTypeOK, CoherTypeOK, States
<1>4. SystemTypeOK'
  BY <1>1, <1>2, <1>3 DEF TypeOK, SystemTypeOK, MemTypeOK, memVars
<1>5. flushing' \subseteq Procs \X Addrs /\ held' \subseteq Procs \X Addrs
  BY DEF Evict, TypeOK
<1> QED
  BY <1>1, <1>2, <1>4, <1>5 DEF TypeOK

\* Every step keeps types and lockstep: one case per action of Next.
LEMMA NextLockstep ==
  ASSUME TypeOK, Lockstep, [Next]_vars
  PROVE  TypeOK' /\ Lockstep'
<1>1. ASSUME NEW p \in Procs, NEW a \in Addrs, Access(p, a) \/ Evict(p, a)
      PROVE  TypeOK' /\ Lockstep'
  BY <1>1, AccessLockstep, EvictLockstep
<1>2. CASE QuietTick
  <2>1. UNCHANGED <<waiting, flushing, held, tracing>>
    BY <1>2 DEF QuietTick, clientVars
  <2>2. SystemTypeOK' /\ Lockstep'
    BY <1>2, MemoryTickLockstep, BusCountsLockstep, BusReleasesLockstep,
       BusArbitratesLockstep DEF QuietTick
  <2> QED
    BY <2>1, <2>2 DEF TypeOK
<1>3. CASE Issue
  <2>1. SystemTypeOK' /\ Lockstep'
    BY <1>3, BusIssuesLockstep DEF Issue
  <2> QED
    BY <1>3, <2>1 DEF Issue, TypeOK
<1>4. CASE Deliver
  <2>1. SystemTypeOK' /\ Lockstep' /\ pendingRequest \in BusReq
    BY <1>4, BusDeliversLockstep DEF Deliver
  <2>2. <<pendingRequest.procNum, pendingRequest.addr>> \in Procs \X Addrs
    BY <2>1 DEF BusReq
  <2>3. /\ waiting' \subseteq waiting
        /\ flushing' \subseteq flushing
        /\ held' \subseteq held \cup {<<pendingRequest.procNum,
                                        pendingRequest.addr>>}
        /\ tracing' = tracing
    BY <1>4 DEF Deliver
  <2> QED
    BY <2>1, <2>2, <2>3 DEF TypeOK
<1>5. CASE TracesEnd \/ UNCHANGED vars
  BY <1>5
  DEF TracesEnd, vars, systemVars, clientVars, memVars, busVars, TypeOK,
      SystemTypeOK, MemTypeOK, BusTypeOK, CoherTypeOK, Lockstep, FreeBus,
      MemoryCounting, InCallback, BetweenTicks, WithinTick, PendingIs,
      MemoryServesPending
<1> QED
  BY <1>1, <1>2, <1>3, <1>4, <1>5 DEF Next, Tick

\* The variables keep their types, and memory and bus stay in step.
THEOREM StaysInStep == Spec => [](TypeOK /\ Lockstep)
<1>1. Init => TypeOK /\ Lockstep
  BY InitLockstep
<1>2. TypeOK /\ Lockstep /\ [Next]_vars => (TypeOK /\ Lockstep)'
  BY NextLockstep
<1> QED
  BY <1>1, <1>2, PTL DEF Spec

\* TypeOK, for every number of processors, set of blocks and delay.
THEOREM TypeCorrect == Spec => []TypeOK
BY StaysInStep, PTL

\* The bus's countdown for memory is memory's own (interconnect.c sets it
\* from memory.busReq and counts it down separately).
THEOREM CountdownsStayInStep == Spec => []CountdownsInStep
<1>1. Lockstep => CountdownsInStep
  BY DEF Lockstep, BetweenTicks, CountdownsInStep, PendingIs,
         MemoryServesPending
<1> QED
  BY <1>1, StaysInStep, PTL

\* No assert() of memory.c and interconnect.c on the paths of a tick fails.
THEOREM AssertionsAlwaysHold == Spec => []AssertionsHold
<1>1. TypeOK /\ Lockstep => AssertionsHold
  BY NullIsNoRequest
  DEF TypeOK, SystemTypeOK, MemTypeOK, BusTypeOK, Lockstep, FreeBus,
      MemoryCounting, BetweenTicks, WithinTick, PendingIs,
      AssertionsHold, BusTicking, Elapses
<1> QED
  BY <1>1, StaysInStep, PTL

-----------------------------------------------------------------------------
(***************************************************************************)
(* That two caches never hold the same block.  A grant is safe because the *)
(* snoop cleared the block and nobody can have taken it since: there is    *)
(* one transaction on the bus, and every transaction stands for exactly    *)
(* one wait or write-back of its processor (GrantInv).                     *)
(***************************************************************************)
\* Nobody waits for a block while writing it back.
LEMMA WaitOrFlush ==
  ASSUME CachesAgree, FlushingInvalid, NEW p \in Procs, NEW a \in Addrs,
         <<p, a>> \in waiting
  PROVE  <<p, a>> \notin flushing
BY DEF CachesAgree, FlushingInvalid

\* A processor with no business about a block has no transaction for it.
LEMMA NothingQueued ==
  ASSUME TypeOK, QueuesSound, NEW p \in Procs, NEW a \in Addrs,
         <<p, a>> \notin waiting \cup flushing
  PROVE  \A n \in 1 .. Len(queuedRequests[p]) : queuedRequests[p][n].addr # a
BY DEF QueuesSound, Purpose

\* Appending to a queue: what is at each of its places.
LEMMA EnqueuePlaces ==
  ASSUME BusTypeOK, NEW brt \in BusReqTypes, NEW a \in Addrs, NEW p \in Procs,
         queuedRequests' = enqBusRequest(brt, a, p)
  PROVE  /\ \A q \in Procs \ {p} : queuedRequests'[q] = queuedRequests[q]
         /\ Len(queuedRequests'[p]) = Len(queuedRequests[p]) + 1
         /\ \A n \in 1 .. Len(queuedRequests[p]) :
              queuedRequests'[p][n] = queuedRequests[p][n]
         /\ queuedRequests'[p][Len(queuedRequests[p]) + 1]
              = NewBusReq(brt, a, p, "QUEUED")
         /\ Len(queuedRequests[p]) \in Nat
<1>1. queuedRequests[p] \in Seq(QueuedReq)
  BY DEF BusTypeOK
<1>2. NewBusReq(brt, a, p, "QUEUED") \in QueuedReq
  BY QueuedReqType
<1>3. queuedRequests'[p]
        = Append(queuedRequests[p], NewBusReq(brt, a, p, "QUEUED"))
      /\ \A q \in Procs \ {p} : queuedRequests'[q] = queuedRequests[q]
  BY DEF enqBusRequest, BusTypeOK
<1> QED
  BY <1>1, <1>2, <1>3

\* A new transaction that gets its purpose with it keeps the queues sound.
LEMMA EnqueueSound ==
  ASSUME TypeOK, QueuesSound, NEW brt \in BusReqTypes, NEW a \in Addrs,
         NEW p \in Procs, queuedRequests' = enqBusRequest(brt, a, p),
         <<p, a>> \notin waiting \cup flushing,
         waiting \subseteq waiting', flushing \subseteq flushing',
         <<p, a>> \in IF brt = "BUSWR" THEN waiting' ELSE flushing'
  PROVE  QueuesSound'
<1> DEFINE len == Len(queuedRequests[p])
<1>1. BusTypeOK
  BY DEF TypeOK, SystemTypeOK
<1>2. /\ \A q \in Procs \ {p} : queuedRequests'[q] = queuedRequests[q]
      /\ Len(queuedRequests'[p]) = len + 1
      /\ \A n \in 1 .. len : queuedRequests'[p][n] = queuedRequests[p][n]
      /\ queuedRequests'[p][len + 1] = NewBusReq(brt, a, p, "QUEUED")
      /\ len \in Nat
  BY <1>1, EnqueuePlaces
<1>3. \A n \in 1 .. len : queuedRequests[p][n].addr # a
  BY NothingQueued
<1>4. \A m \in 1 .. (len + 1) : m = len + 1 \/ m \in 1 .. len
  <2> HIDE DEF len
  <2> QED
    BY <1>2
<1>5. \A m \in 1 .. len : queuedRequests'[p][m].addr # a
  BY <1>2, <1>3
<1>6. ASSUME NEW q \in Procs, NEW n \in 1 .. Len(queuedRequests'[q])
      PROVE  /\ queuedRequests'[q][n].procNum = q
             /\ <<q, queuedRequests'[q][n].addr>>
                  \in Purpose(queuedRequests[q][n])'
             /\ \A m \in 1 .. Len(queuedRequests'[q]) :
                  queuedRequests'[q][m].addr = queuedRequests'[q][n].addr
                    => m = n
  <2>1. CASE q # p
    BY <1>2, <1>6, <2>1 DEF QueuesSound, Purpose
  <2>2. CASE q = p /\ n = len + 1
    <3>1. /\ queuedRequests'[q][n].procNum = q
          /\ queuedRequests'[q][n].addr = a
          /\ queuedRequests'[q][n].brt = brt
      BY <1>2, <2>2 DEF NewBusReq
    <3>2. \A m \in 1 .. Len(queuedRequests'[q]) :
            queuedRequests'[q][m].addr = a => m = n
      BY <1>2, <1>4, <1>5, <2>2
    <3> QED
      BY <2>2, <3>1, <3>2 DEF Purpose
  <2>3. CASE q = p /\ n \in 1 .. len
    <3>1. queuedRequests'[q][n] = queuedRequests[q][n]
      BY <1>2, <2>3
    <3>2. \A m \in 1 .. Len(queuedRequests'[q]) :
            queuedRequests'[q][m].addr = queuedRequests[q][n].addr => m = n
      <4> SUFFICES ASSUME NEW m \in 1 .. (len + 1),
                          queuedRequests'[p][m].addr = queuedRequests[p][n].addr
                   PROVE  m = n
        BY <1>2, <2>3
      <4>1. CASE m = len + 1
        BY <1>2, <1>3, <2>3, <4>1 DEF NewBusReq
      <4>2. CASE m \in 1 .. len
        <5>1. queuedRequests[p][m].addr = queuedRequests[p][n].addr
          BY <1>2, <4>2
        <5> QED
          BY <2>3, <4>2, <5>1 DEF QueuesSound
      <4> QED
        BY <1>4, <4>1, <4>2
    <3> QED
      BY <2>3, <3>1, <3>2 DEF QueuesSound, Purpose
  <2> QED
    BY <1>2, <1>6, <2>1, <2>2, <2>3
<1> QED
  BY <1>6 DEF QueuesSound

\* A call of a cache that sends a transaction: BUSWR for a block it has
\* nothing to do with yet, or DATA for one it holds.
LEMMA NewTransaction ==
  ASSUME TypeOK, Lockstep, GrantInv, phase # "bus",
         NEW brt \in BusReqTypes, NEW a \in Addrs, NEW p \in Procs,
         busReq(brt, a, p), UNCHANGED phase,
         <<p, a>> \notin waiting \cup flushing,
         waiting \subseteq waiting', waiting' \subseteq waiting \cup {<<p, a>>},
         flushing \subseteq flushing',
         <<p, a>> \in IF brt = "BUSWR" THEN waiting' ELSE flushing',
         brt = "DATA" => coherStates[p][a] = "MODIFIED"
                         /\ waiting' = waiting,
         \A q \in Procs, b \in Addrs :
           coherStates'[q][b] = "MODIFIED" => coherStates[q][b] = "MODIFIED"
  PROVE  QueuesSound' /\ PendingSound' /\ SnoopedClear'
<1> USE DEF GrantInv
<1>1. \A n \in 1 .. Len(queuedRequests[p]) : queuedRequests[p][n].addr # a
  BY NothingQueued
<1>2. OnBus => <<pendingRequest.procNum, pendingRequest.addr>> # <<p, a>>
  BY DEF PendingSound
<1>3. CASE BusReqStarts(brt, a, p)
  <2>1. /\ pendingRequest' = NewBusReq(brt, a, p, "WAITING_CACHE")
        /\ queuedRequests' = queuedRequests
    BY <1>3 DEF BusReqStarts
  <2>2. /\ pendingRequest'.procNum = p /\ pendingRequest'.addr = a
        /\ pendingRequest'.brt = brt
        /\ pendingRequest'.data = FALSE
        /\ pendingRequest'.currentState = "WAITING_CACHE"
    BY <2>1 DEF NewBusReq
  <2>3. QueuesSound'
    BY <2>1 DEF QueuesSound, Purpose
  <2>4. PendingSound'
    BY <1>1, <2>1, <2>2 DEF PendingSound, Purpose, PendingIs
  <2>5. SnoopedClear'
    BY <2>2 DEF SnoopedClear, PendingIs
  <2> QED
    BY <2>3, <2>4, <2>5
<1>4. CASE BusReqAnswers(brt, a, p)
  <2>1. /\ pendingRequest # NULL /\ brt = "DATA"
        /\ pendingRequest.addr = a
        /\ pendingRequest.currentState = "WAITING_MEMORY"
        /\ pendingRequest' = [pendingRequest EXCEPT
                                !.data = TRUE,
                                !.currentState = "TRANSFERING_CACHE"]
        /\ queuedRequests' = queuedRequests
    BY <1>4 DEF BusReqAnswers, AnswersPending
  <2>2. pendingRequest \in BusReq /\ OnBus
    BY <2>1 DEF TypeOK, SystemTypeOK, BusTypeOK, Lockstep, InCallback,
                PendingIs, OnBus
  <2>3. <<pendingRequest.procNum, a>> \in Purpose(pendingRequest)
    BY <2>1, <2>2 DEF PendingSound, PendingIs
  <2>4. pendingRequest.brt = "DATA" /\ <<pendingRequest.procNum, a>> \in flushing
    <3>1. <<pendingRequest.procNum, a>> \notin waiting
      BY <2>1, <2>2 DEF SnoopedClear, PendingIs
    <3> QED
      BY <2>2, <2>3, <3>1 DEF Purpose, BusReq, BusReqTypes
  <2>5. /\ pendingRequest'.procNum = pendingRequest.procNum
        /\ pendingRequest'.addr = a
        /\ pendingRequest'.brt = "DATA"
        /\ pendingRequest'.data = TRUE
        /\ pendingRequest'.currentState = "TRANSFERING_CACHE"
    BY <2>1, <2>2, <2>4 DEF BusReq
  <2>6. QueuesSound'
    BY <2>1 DEF QueuesSound, Purpose
  <2>7. PendingSound'
    BY <2>1, <2>2, <2>4, <2>5 DEF PendingSound, Purpose, PendingIs
  <2>8. <<pendingRequest.procNum, a>> \notin waiting'
    BY <2>1, <2>2, <2>4 DEF FlushingInvalid, CachesAgree, BusReq
  <2>9. SnoopedClear'
    BY <2>5, <2>8 DEF SnoopedClear
  <2> QED
    BY <2>6, <2>7, <2>9
<1>5. CASE BusReqQueues(brt, a, p)
  <2>1. /\ pendingRequest' = pendingRequest
        /\ queuedRequests' = enqBusRequest(brt, a, p)
    BY <1>5 DEF BusReqQueues
  <2>2. BusTypeOK
    BY DEF TypeOK, SystemTypeOK
  <2>3. QueuesSound'
    BY <2>1, EnqueueSound
  <2>4. PendingSound'
    <3> SUFFICES ASSUME OnBus PROVE PendingSound'
      BY <2>1 DEF PendingSound, OnBus
    <3>1. pendingRequest \in BusReq
      BY <2>2 DEF BusTypeOK, OnBus
    <3>2. \A n \in 1 .. Len(queuedRequests'[pendingRequest.procNum]) :
            queuedRequests'[pendingRequest.procNum][n].addr # pendingRequest.addr
      <4>1. CASE pendingRequest.procNum # p
        BY <2>1, <2>2, <3>1, <4>1, EnqueuePlaces DEF PendingSound, BusReq
      <4>2. CASE pendingRequest.procNum = p
        <5>1. pendingRequest.addr # a
          BY <1>2, <4>2
        <5>2. ASSUME NEW n \in 1 .. Len(queuedRequests'[p])
              PROVE  queuedRequests'[p][n].addr # pendingRequest.addr
          <6>1. n \in 1 .. Len(queuedRequests[p])
                \/ n = Len(queuedRequests[p]) + 1
            BY <2>1, <2>2, EnqueuePlaces
          <6>2. \A m \in 1 .. Len(queuedRequests[p]) :
                  /\ queuedRequests'[p][m] = queuedRequests[p][m]
                  /\ queuedRequests[p][m].addr # pendingRequest.addr
            BY <2>1, <2>2, <4>2, EnqueuePlaces DEF PendingSound
          <6>3. queuedRequests'[p][Len(queuedRequests[p]) + 1].addr = a
            <7>1. queuedRequests'[p][Len(queuedRequests[p]) + 1]
                    = NewBusReq(brt, a, p, "QUEUED")
              BY <2>1, <2>2, EnqueuePlaces
            <7> QED
              BY <7>1 DEF NewBusReq
          <6> QED
            BY <5>1, <6>1, <6>2, <6>3
        <5> QED
          BY <4>2, <5>2
      <4> QED
        BY <4>1, <4>2
    <3> QED
      BY <2>1, <3>2 DEF PendingSound, Purpose, PendingIs
  <2>5. SnoopedClear'
    <3> SUFFICES ASSUME OnBus,
                        PendingIs({"WAITING_MEMORY", "TRANSFERING_CACHE"}),
                        <<pendingRequest.procNum, pendingRequest.addr>>
                          \in waiting',
                        NEW q \in Procs
                 PROVE  coherStates'[q][pendingRequest.addr] # "MODIFIED"
      BY <2>1 DEF SnoopedClear, OnBus, PendingIs
    <3>1. pendingRequest.addr \in Addrs
      BY <2>2 DEF OnBus, BusTypeOK, BusReq
    <3>2. <<pendingRequest.procNum, pendingRequest.addr>> \in waiting
      BY <1>2
    <3> QED
      BY <3>1, <3>2 DEF SnoopedClear
  <2> QED
    BY <2>3, <2>4, <2>5
<1> QED
  BY <1>3, <1>4, <1>5 DEF busReq

\* A step that neither moves a transaction nor tells a cache anything.
LEMMA QuietGrant ==
  ASSUME GrantInv,
         UNCHANGED <<coherStates, queuedRequests, waiting, flushing, held>>,
         OnBus' => /\ OnBus
                   /\ pendingRequest'.procNum = pendingRequest.procNum
                   /\ pendingRequest'.addr = pendingRequest.addr
                   /\ pendingRequest'.brt = pendingRequest.brt
                   /\ pendingRequest'.data = pendingRequest.data
                   /\ pendingRequest'.currentState = pendingRequest.currentState
  PROVE  GrantInv'
<1>1. CachesAgree' /\ SingleHolder' /\ FlushingInvalid'
  BY DEF GrantInv, CachesAgree, SingleHolder, FlushingInvalid
<1>2. QueuesSound'
  BY DEF GrantInv, QueuesSound, Purpose
<1>3. PendingSound'
  BY DEF GrantInv, PendingSound, Purpose, PendingIs
<1>4. SnoopedClear'
  BY DEF GrantInv, SnoopedClear, PendingIs
<1> QED
  BY <1>1, <1>2, <1>3, <1>4 DEF GrantInv

LEMMA AccessGrant ==
  ASSUME TypeOK, Lockstep, GrantInv, NEW p \in Procs, NEW a \in Addrs,
         Access(p, a)
  PROVE  GrantInv'
<1>1. /\ phase # "bus" /\ UNCHANGED <<phase, flushing, held>>
      /\ <<p, a>> \notin flushing /\ permReq(p, a)
      /\ coherStates' = [coherStates EXCEPT
                           ![p][a] = cacheMI(coherStates[p][a]).next]
  BY RunningPhase DEF Access, permReq, SetState
<1>2. coherStates \in [Procs -> [Addrs -> States]]
  BY DEF TypeOK, SystemTypeOK, CoherTypeOK
<1>3. CASE coherStates[p][a] = "INVALID"
  <2>1. cacheMI(coherStates[p][a])
          = [next |-> "INVALID_MODIFIED", permAvail |-> FALSE, send |-> TRUE]
    BY <1>3 DEF cacheMI
  <2>2. /\ waiting' = waiting \cup {<<p, a>>}
        /\ busReq("BUSWR", a, p)
        /\ coherStates' = [coherStates EXCEPT ![p][a] = "INVALID_MODIFIED"]
    BY <1>1, <2>1 DEF Access, permReq
  <2>3. <<p, a>> \notin waiting \cup flushing \cup held
    BY <1>1, <1>3 DEF GrantInv, CachesAgree
  <2>4. \A q \in Procs, b \in Addrs :
          coherStates'[q][b] = IF q = p /\ b = a THEN "INVALID_MODIFIED"
                               ELSE coherStates[q][b]
    BY <1>2, <2>2
  <2>5. CachesAgree'
    <3> SUFFICES ASSUME NEW q \in Procs, NEW b \in Addrs
                 PROVE  /\ <<q, b>> \in held' <=> coherStates'[q][b] = "MODIFIED"
                        /\ <<q, b>> \in waiting'
                             <=> coherStates'[q][b] = "INVALID_MODIFIED"
      BY DEF CachesAgree
    <3>1. CASE q = p /\ b = a
      BY <1>1, <2>2, <2>3, <2>4, <3>1
    <3>2. CASE ~(q = p /\ b = a)
      <4>1. /\ <<q, b>> \in waiting' <=> <<q, b>> \in waiting
            /\ <<q, b>> \in held' <=> <<q, b>> \in held
        BY <1>1, <2>2, <3>2
      <4> QED
        BY <2>4, <3>2, <4>1 DEF GrantInv, CachesAgree
    <3> QED
      BY <3>1, <3>2
  <2>6. SingleHolder'
    BY <1>1 DEF GrantInv, SingleHolder
  <2>7. FlushingInvalid'
    BY <1>1, <2>4 DEF GrantInv, FlushingInvalid
  <2>8. "BUSWR" \in BusReqTypes
    BY DEF BusReqTypes
  <2>9. QueuesSound' /\ PendingSound' /\ SnoopedClear'
    <3>1. \A q \in Procs, b \in Addrs :
            coherStates'[q][b] = "MODIFIED" => coherStates[q][b] = "MODIFIED"
      BY <2>4
    <3>2. waiting \subseteq waiting' /\ waiting' \subseteq waiting \cup {<<p, a>>}
          /\ <<p, a>> \in waiting' /\ flushing \subseteq flushing'
      BY <1>1, <2>2
    <3> QED
      BY <1>1, <2>2, <2>3, <2>8, <3>1, <3>2, NewTransaction
  <2> QED
    BY <2>5, <2>6, <2>7, <2>9 DEF GrantInv
<1>4. CASE coherStates[p][a] # "INVALID"
  <2>1. /\ cacheMI(coherStates[p][a]).next = coherStates[p][a]
        /\ cacheMI(coherStates[p][a]).send = FALSE
        /\ cacheMI(coherStates[p][a]).permAvail
             = (coherStates[p][a] = "MODIFIED")
    BY <1>4 DEF cacheMI
  <2>2. coherStates' = coherStates
    BY <1>1, <1>2, <2>1
  <2>3. UNCHANGED busVars
    BY <1>1, <2>1 DEF permReq
  <2>4. waiting' = waiting
    <3>1. CASE coherStates[p][a] = "MODIFIED"
      BY <2>1, <3>1 DEF Access
    <3>2. CASE coherStates[p][a] # "MODIFIED"
      <4>1. coherStates[p][a] = "INVALID_MODIFIED"
        BY <1>2, <1>4, <3>2 DEF States
      <4>2. <<p, a>> \in waiting
        BY <4>1 DEF GrantInv, CachesAgree
      <4>3. waiting' = waiting \cup {<<p, a>>}
        BY <2>1, <3>2 DEF Access
      <4> QED
        BY <4>2, <4>3
    <3> QED
      BY <3>1, <3>2
  <2> QED
    BY <1>1, <2>2, <2>3, <2>4, QuietGrant DEF busVars, OnBus
<1> QED
  BY <1>3, <1>4

LEMMA EvictGrant ==
  ASSUME TypeOK, Lockstep, GrantInv, NEW p \in Procs, NEW a \in Addrs,
         Evict(p, a)
  PROVE  GrantInv'
<1>1. /\ phase # "bus" /\ UNCHANGED <<phase, waiting>>
      /\ <<p, a>> \notin waiting \cup flushing /\ invlReq(p, a)
      /\ coherStates' = [coherStates EXCEPT ![p][a] = "INVALID"]
      /\ held' = held \ {<<p, a>>}
  BY RunningPhase DEF Evict, invlReq, SetState
<1>2. coherStates \in [Procs -> [Addrs -> States]]
  BY DEF TypeOK, SystemTypeOK, CoherTypeOK
<1>3. CASE coherStates[p][a] # "INVALID"
  <2>1. coherStates[p][a] = "MODIFIED"
    BY <1>1, <1>2, <1>3 DEF States, GrantInv, CachesAgree
  <2>2. busReq("DATA", a, p) /\ flushing' = flushing \cup {<<p, a>>}
    BY <1>1, <1>3 DEF Evict, invlReq
  <2>3. \A q \in Procs, b \in Addrs :
          coherStates'[q][b] = IF q = p /\ b = a THEN "INVALID"
                               ELSE coherStates[q][b]
    BY <1>1, <1>2
  <2>4. CachesAgree'
    <3> SUFFICES ASSUME NEW q \in Procs, NEW b \in Addrs
                 PROVE  /\ <<q, b>> \in held' <=> coherStates'[q][b] = "MODIFIED"
                        /\ <<q, b>> \in waiting'
                             <=> coherStates'[q][b] = "INVALID_MODIFIED"
      BY DEF CachesAgree
    <3>1. CASE q = p /\ b = a
      BY <1>1, <2>3, <3>1
    <3>2. CASE ~(q = p /\ b = a)
      <4>1. /\ <<q, b>> \in waiting' <=> <<q, b>> \in waiting
            /\ <<q, b>> \in held' <=> <<q, b>> \in held
        BY <1>1, <3>2
      <4> QED
        BY <2>3, <3>2, <4>1 DEF GrantInv, CachesAgree
    <3> QED
      BY <3>1, <3>2
  <2>5. SingleHolder'
    BY <1>1 DEF GrantInv, SingleHolder
  <2>6. FlushingInvalid'
    BY <2>2, <2>3 DEF GrantInv, FlushingInvalid
  <2>7. QueuesSound' /\ PendingSound' /\ SnoopedClear'
    <3>1. "DATA" \in BusReqTypes
      BY DEF BusReqTypes
    <3>2. \A q \in Procs, b \in Addrs :
            coherStates'[q][b] = "MODIFIED" => coherStates[q][b] = "MODIFIED"
      BY <2>3
    <3>3. waiting \subseteq waiting' /\ waiting' \subseteq waiting \cup {<<p, a>>}
          /\ <<p, a>> \in flushing' /\ flushing \subseteq flushing'
      BY <1>1, <2>2
    <3> QED
      BY <1>1, <2>1, <2>2, <3>1, <3>2, <3>3, NewTransaction
  <2> QED
    BY <2>4, <2>5, <2>6, <2>7 DEF GrantInv
<1>4. CASE coherStates[p][a] = "INVALID"
  <2>1. UNCHANGED busVars /\ flushing' = flushing
    BY <1>1, <1>4 DEF Evict, invlReq
  <2>2. coherStates' = coherStates
    BY <1>1, <1>2, <1>4
  <2>3. held' = held
    BY <1>1, <1>4 DEF GrantInv, CachesAgree
  <2> QED
    BY <1>1, <2>1, <2>2, <2>3, QuietGrant DEF busVars, OnBus
<1> QED
  BY <1>3, <1>4

\* A queued transaction that gets the bus takes its purpose along.
LEMMA DequeueGrant ==
  ASSUME TypeOK, Lockstep, GrantInv, NEW p \in Procs, BusDequeues(p),
         UNCHANGED <<coherStates, waiting, flushing, held>>
  PROVE  GrantInv'
<1> DEFINE queue == queuedRequests[p]
           req == Head(queue)
<1>1. queue \in Seq(QueuedReq) /\ queue # <<>>
  BY DEF TypeOK, SystemTypeOK, BusTypeOK, BusDequeues, HasTurn
<1>2. /\ req = queue[1] /\ 1 \in 1 .. Len(queue)
      /\ Len(Tail(queue)) = Len(queue) - 1 /\ Len(queue) \in Nat \ {0}
      /\ \A n \in 1 .. Len(Tail(queue)) :
           Tail(queue)[n] = queue[n + 1] /\ n + 1 \in 1 .. Len(queue)
  BY <1>1
<1>3. req \in QueuedReq
  BY <1>1
<1>4. /\ pendingRequest' = [req EXCEPT !.currentState = "WAITING_CACHE"]
      /\ queuedRequests' = [queuedRequests EXCEPT ![p] = Tail(queue)]
  BY DEF BusDequeues
<1>5. /\ pendingRequest'.procNum = p
      /\ pendingRequest'.addr = req.addr
      /\ pendingRequest'.brt = req.brt
      /\ pendingRequest'.data = FALSE
      /\ pendingRequest'.currentState = "WAITING_CACHE"
  <2>1. req.procNum = p
    BY <1>2 DEF GrantInv, QueuesSound
  <2> HIDE DEF req
  <2> QED
    BY <1>3, <1>4, <2>1 DEF QueuedReq
<1>6. /\ queuedRequests'[p] = Tail(queue)
      /\ \A q \in Procs \ {p} : queuedRequests'[q] = queuedRequests[q]
  BY <1>4 DEF TypeOK, SystemTypeOK, BusTypeOK
<1>7. CachesAgree' /\ SingleHolder' /\ FlushingInvalid'
  BY DEF GrantInv, CachesAgree, SingleHolder, FlushingInvalid
<1>8. QueuesSound'
  <2>1. ASSUME NEW q \in Procs, NEW n \in 1 .. Len(queuedRequests'[q])
        PROVE  /\ queuedRequests'[q][n].procNum = q
               /\ <<q, queuedRequests'[q][n].addr>>
                    \in Purpose(queuedRequests[q][n])'
               /\ \A m \in 1 .. Len(queuedRequests'[q]) :
                    queuedRequests'[q][m].addr = queuedRequests'[q][n].addr
                      => m = n
    <3>1. CASE q # p
      BY <1>6, <2>1, <3>1 DEF GrantInv, QueuesSound, Purpose
    <3>2. CASE q = p
      <4>1. /\ queuedRequests'[q][n] = queue[n + 1]
            /\ n + 1 \in 1 .. Len(queue)
        BY <1>2, <1>6, <2>1, <3>2
      <4>2. \A m \in 1 .. Len(queuedRequests'[q]) :
              queuedRequests'[q][m].addr = queue[n + 1].addr => m = n
        <5> SUFFICES ASSUME NEW m \in 1 .. Len(Tail(queue)),
                            queue[m + 1].addr = queue[n + 1].addr
                     PROVE  m = n
          BY <1>2, <1>6, <3>2
        <5>1. m + 1 = n + 1
          BY <1>2, <4>1 DEF GrantInv, QueuesSound
        <5> QED
          BY <1>2, <1>6, <2>1, <3>2, <5>1
      <4> QED
        BY <3>2, <4>1, <4>2 DEF GrantInv, QueuesSound, Purpose
    <3> QED
      BY <3>1, <3>2
  <2> QED
    BY <2>1 DEF QueuesSound
<1>9. PendingSound'
  <2>1. \A n \in 1 .. Len(queuedRequests'[p]) :
          queuedRequests'[p][n].addr # req.addr
    <3> SUFFICES ASSUME NEW n \in 1 .. Len(Tail(queue)),
                        queue[n + 1].addr = queue[1].addr
                 PROVE  FALSE
      BY <1>2, <1>6
    <3>1. n + 1 = 1
      BY <1>2 DEF GrantInv, QueuesSound
    <3> QED
      BY <1>2, <3>1
  <2>2. <<p, req.addr>> \in Purpose(req)
    BY <1>2 DEF GrantInv, QueuesSound
  <2> QED
    BY <1>5, <2>1, <2>2 DEF PendingSound, Purpose, PendingIs
<1>10. SnoopedClear'
  BY <1>5 DEF SnoopedClear, PendingIs
<1> QED
  BY <1>7, <1>8, <1>9, <1>10 DEF GrantInv

LEMMA QuietTickGrant ==
  ASSUME TypeOK, Lockstep, GrantInv, QuietTick
  PROVE  GrantInv'
<1>1. UNCHANGED <<waiting, flushing, held>>
  BY DEF QuietTick, clientVars
<1>2. CASE MemoryTick
  <2>1. UNCHANGED <<coherStates, queuedRequests>> /\ phase = "calls"
    BY <1>2 DEF MemoryTick
  <2>2. CASE pendingRequest = NULL
    BY <1>1, <1>2, <2>1, <2>2, QuietGrant DEF MemoryTick, memReqCallback, OnBus
  <2>3. CASE pendingRequest # NULL
    <3>1. pendingRequest \in BusReq
      BY <2>3 DEF TypeOK, SystemTypeOK, BusTypeOK
    <3>2. \/ pendingRequest' = pendingRequest
          \/ pendingRequest' = [pendingRequest EXCEPT !.dataAvail = TRUE]
      BY <1>2 DEF MemoryTick, memReqCallback
    <3>3. /\ pendingRequest'.procNum = pendingRequest.procNum
          /\ pendingRequest'.addr = pendingRequest.addr
          /\ pendingRequest'.brt = pendingRequest.brt
          /\ pendingRequest'.data = pendingRequest.data
          /\ pendingRequest'.currentState = pendingRequest.currentState
      BY <3>1, <3>2 DEF BusReq
    <3>4. OnBus
      BY <2>1, <2>3 DEF OnBus
    <3> QED
      BY <1>1, <2>1, <3>3, <3>4, QuietGrant
  <2> QED
    BY <2>2, <2>3
<1>3. CASE BusCounts
  BY <1>1, <1>3, QuietGrant DEF BusCounts, BusTicking, OnBus
<1>4. CASE BusReleases
  BY <1>1, <1>4, QuietGrant DEF BusReleases, OnBus
<1>5. CASE BusArbitrates
  <2>1. phase = "bus" /\ UNCHANGED coherStates
    BY <1>5 DEF BusArbitrates
  <2>2. CASE UNCHANGED busVars
    BY <1>1, <2>1, <2>2, QuietGrant DEF busVars, OnBus
  <2>3. ASSUME NEW p \in Procs, BusDequeues(p)
        PROVE  GrantInv'
    BY <1>1, <2>1, <2>3, DequeueGrant
  <2> QED
    BY <1>5, <2>2, <2>3 DEF BusArbitrates
<1> QED
  BY <1>2, <1>3, <1>4, <1>5 DEF QuietTick

\* The snoop: the one holder of the block, if any, loses it and answers.
LEMMA IssueGrant ==
  ASSUME TypeOK, Lockstep, GrantInv, Issue
  PROVE  GrantInv'
<1> DEFINE p == pendingRequest.procNum
           a == pendingRequest.addr
<1>1. /\ BusIssues /\ phase = "bus" /\ phase' = "calls" /\ busCountDown > 0
      /\ pendingRequest.currentState = "WAITING_CACHE"
      /\ UNCHANGED <<waiting, flushing>>
  BY DEF Issue, BusIssues, BusTicking
<1>2. pendingRequest \in BusReq /\ p \in Procs /\ a \in Addrs /\ OnBus
  <2>1. pendingRequest \in BusReq
    BY <1>1, BusIssuesLockstep
  <2> QED
    BY <1>1, <2>1, NullIsNoRequest DEF BusReq, OnBus
<1>3. /\ coherStates \in [Procs -> [Addrs -> States]]
      /\ queuedRequests \in [Procs -> Seq(QueuedReq)]
  BY DEF TypeOK, SystemTypeOK, CoherTypeOK, BusTypeOK
<1>4. ~pendingRequest.data /\ <<p, a>> \in Purpose(pendingRequest)
  BY <1>1, <1>2 DEF GrantInv, PendingSound, PendingIs
<1>5. CASE pendingRequest.brt = "DATA"
  <2>1. <<p, a>> \in flushing /\ <<p, a>> \notin waiting
    BY <1>2, <1>4, <1>5, WaitOrFlush DEF Purpose, GrantInv
  <2>2. /\ queuedRequests' = queuedRequests
        /\ coherStates' = coherStates
        /\ held' = held
    BY <1>3, <1>5 DEF Issue, BusIssues
  <2>3. /\ pendingRequest'.procNum = p /\ pendingRequest'.addr = a
        /\ pendingRequest'.brt = "DATA"
        /\ pendingRequest'.data = FALSE
        /\ pendingRequest'.currentState = "WAITING_MEMORY"
    BY <1>2, <1>4, <1>5 DEF Issue, BusIssues, BusReq
  <2>4. CachesAgree' /\ SingleHolder' /\ FlushingInvalid' /\ QueuesSound'
    BY <1>1, <2>2
    DEF GrantInv, CachesAgree, SingleHolder, FlushingInvalid, QueuesSound, Purpose
  <2>5. PendingSound'
    BY <1>1, <1>2, <2>1, <2>2, <2>3
    DEF GrantInv, PendingSound, Purpose, PendingIs
  <2>6. SnoopedClear'
    BY <1>1, <2>1, <2>3 DEF SnoopedClear
  <2> QED
    BY <2>4, <2>5, <2>6 DEF GrantInv
<1>6. CASE pendingRequest.brt = "BUSWR"
  <2>1. <<p, a>> \in waiting /\ coherStates[p][a] = "INVALID_MODIFIED"
    BY <1>2, <1>4, <1>6 DEF Purpose, GrantInv, CachesAgree
  <2>2. /\ SnoopedOwners = {i \in Procs : coherStates[i][a] = "MODIFIED"}
        /\ Invalidated = {i \in Procs : coherStates[i][a] = "MODIFIED"}
    <3>1. ASSUME NEW i \in Procs
          PROVE  /\ Snooped(i).send <=> coherStates[i][a] = "MODIFIED"
                 /\ Snooped(i).ca = "INVALIDATE"
                      <=> coherStates[i][a] = "MODIFIED"
      BY <1>2, <1>3, <1>6 DEF Snooped, snoopMI, States
    <3> QED
      BY <2>1, <3>1 DEF SnoopedOwners, Invalidated
  <2>3. \A i, j \in SnoopedOwners : i = j
    BY <1>2, <2>2 DEF GrantInv, CachesAgree, SingleHolder
  <2>4. queuedRequests' = queuedRequests
    <3>1. {i \in SnoopedOwners : \E j \in SnoopedOwners : j < i} = {}
      BY <2>2, <2>3 DEF Procs
    <3> QED
      BY <1>3, <3>1 DEF Issue, BusIssues
  <2>5. \A i \in Procs, b \in Addrs :
          coherStates'[i][b] = IF b = a /\ coherStates[i][b] = "MODIFIED"
                                 THEN "INVALID" ELSE coherStates[i][b]
    <3> SUFFICES ASSUME NEW i \in Procs, NEW b \in Addrs
                 PROVE  coherStates'[i][b] =
                          IF b = a /\ coherStates[i][b] = "MODIFIED"
                            THEN "INVALID" ELSE coherStates[i][b]
      OBVIOUS
    <3>1. coherStates'[i] =
            IF i # p THEN [coherStates[i] EXCEPT ![a] = Snooped(i).next]
            ELSE coherStates[i]
      BY <1>6 DEF Issue, BusIssues
    <3>2. Snooped(i).next = IF coherStates[i][a] = "MODIFIED" THEN "INVALID"
                            ELSE coherStates[i][a]
      BY <1>2, <1>3, <1>6 DEF Snooped, snoopMI, States
    <3> QED
      BY <1>2, <1>3, <2>1, <3>1, <3>2
  <2>6. held' = held \ {<<i, a>> : i \in Invalidated}
    BY <1>6 DEF Issue
  <2>7. CachesAgree'
    <3> SUFFICES ASSUME NEW q \in Procs, NEW b \in Addrs
                 PROVE  /\ <<q, b>> \in held' <=> coherStates'[q][b] = "MODIFIED"
                        /\ <<q, b>> \in waiting'
                             <=> coherStates'[q][b] = "INVALID_MODIFIED"
      BY DEF CachesAgree
    <3>1. <<q, b>> \in held'
            <=> <<q, b>> \in held /\ ~(b = a /\ coherStates[q][b] = "MODIFIED")
      BY <2>2, <2>6
    <3> QED
      BY <1>1, <2>5, <3>1 DEF GrantInv, CachesAgree
  <2>8. SingleHolder'
    BY <2>6 DEF GrantInv, SingleHolder
  <2>9. FlushingInvalid'
    BY <1>1, <2>5 DEF GrantInv, FlushingInvalid
  <2>10. QueuesSound'
    BY <1>1, <2>4 DEF GrantInv, QueuesSound, Purpose
  <2>11. /\ pendingRequest'.procNum = p /\ pendingRequest'.addr = a
         /\ pendingRequest'.data = (SnoopedOwners # {})
         /\ pendingRequest'.brt = IF SnoopedOwners # {} THEN "DATA" ELSE "BUSWR"
         /\ pendingRequest'.currentState
              = IF SnoopedOwners # {} THEN "TRANSFERING_CACHE"
                ELSE "WAITING_MEMORY"
    BY <1>2, <1>4, <1>6 DEF Issue, BusIssues, BusReq
  <2>12. PendingSound'
    BY <1>1, <1>2, <2>1, <2>4, <2>11
    DEF GrantInv, PendingSound, Purpose, PendingIs
  <2>13. SnoopedClear'
    BY <1>2, <2>5, <2>11 DEF SnoopedClear
  <2> QED
    BY <2>7, <2>8, <2>9, <2>10, <2>12, <2>13 DEF GrantInv
<1> QED
  BY <1>2, <1>5, <1>6 DEF BusReq, BusReqTypes

\* What is delivered is an answer, to a processor that waits or writes back.
LEMMA DeliveredAnswer ==
  ASSUME TypeOK, Lockstep, GrantInv, BusDelivers
  PROVE  /\ pendingRequest \in BusReq
         /\ OnBus
         /\ PendingIs({"WAITING_MEMORY", "TRANSFERING_CACHE"})
         /\ DeliveredType = "DATA"
<1>1. BusDelivers /\ phase = "bus"
  BY DEF BusDelivers, BusTicking
<1>2. pendingRequest \in BusReq
  BY <1>1, BusDeliversLockstep
<1>3. OnBus
  BY <1>1, <1>2, NullIsNoRequest DEF BusReq, OnBus
<1>4. CASE pendingRequest.dataAvail
  BY <1>1, <1>2, <1>3, <1>4
  DEF Lockstep, WithinTick, OnBus, PendingIs, DeliveredType
<1>5. CASE ~pendingRequest.dataAvail
  <2>1. pendingRequest.currentState = "TRANSFERING_CACHE"
    BY <1>1, <1>5 DEF BusDelivers
  <2>2. pendingRequest.data
    BY <1>1, <1>3, <2>1 DEF Lockstep, WithinTick, OnBus, PendingIs
  <2>3. pendingRequest.brt = "DATA"
    BY <1>3, <2>2 DEF GrantInv, PendingSound
  <2> QED
    BY <1>2, <1>3, <1>5, <2>1, <2>3 DEF PendingIs, DeliveredType
<1> QED
  BY <1>4, <1>5, <1>2, <1>3

\* The requester is told: DATA_RECV if it waits, FLUSH_COMPLETE if it
\* writes back, and nothing else is possible.
LEMMA DeliverGrant ==
  ASSUME TypeOK, Lockstep, GrantInv, Deliver
  PROVE  GrantInv'
<1> DEFINE p == pendingRequest.procNum
           a == pendingRequest.addr
<1>1. /\ BusDelivers /\ phase = "bus" /\ phase' = "callback"
      /\ busCountDown > 0
  BY DEF Deliver, BusDelivers, BusTicking
<1>2. pendingRequest \in BusReq /\ p \in Procs /\ a \in Addrs /\ OnBus
  BY <1>1, DeliveredAnswer DEF BusReq
<1>3. coherStates \in [Procs -> [Addrs -> States]]
  BY DEF TypeOK, SystemTypeOK, CoherTypeOK
<1>4. /\ PendingIs({"WAITING_MEMORY", "TRANSFERING_CACHE"})
      /\ DeliveredType = "DATA"
  BY <1>1, DeliveredAnswer
<1>5. /\ \A n \in 1 .. Len(queuedRequests[p]) : queuedRequests[p][n].addr # a
      /\ <<p, a>> \in waiting \cup flushing
  BY <1>2 DEF GrantInv, PendingSound
<1>6. /\ coherStates' = [coherStates EXCEPT ![p][a] = Delivery.next]
      /\ ~Delivery.send => queuedRequests' = queuedRequests
  BY <1>1 DEF BusDelivers, SetState
<1>7. \A q \in Procs, b \in Addrs :
        coherStates'[q][b] = IF q = p /\ b = a THEN Delivery.next
                             ELSE coherStates[q][b]
  BY <1>2, <1>3, <1>6
<1>8. PendingSound' /\ SnoopedClear'
  BY <1>1 DEF PendingSound, SnoopedClear, OnBus
<1>9. CASE <<p, a>> \in waiting
  <2>1. coherStates[p][a] = "INVALID_MODIFIED" /\ <<p, a>> \notin flushing
    BY <1>2, <1>9, WaitOrFlush DEF GrantInv, CachesAgree
  <2>2. Delivery = [next |-> "MODIFIED", send |-> FALSE, ca |-> "DATA_RECV"]
    BY <1>4, <2>1 DEF Delivery, snoopMI
  <2>3. /\ waiting' = waiting \ {<<p, a>>}
        /\ flushing' = flushing
        /\ held' = held \cup {<<p, a>>}
    BY <2>2 DEF Deliver
  <2>4. queuedRequests' = queuedRequests /\ Delivery.next = "MODIFIED"
    BY <1>6, <2>2
  <2>5. CachesAgree'
    <3> SUFFICES ASSUME NEW q \in Procs, NEW b \in Addrs
                 PROVE  /\ <<q, b>> \in held' <=> coherStates'[q][b] = "MODIFIED"
                        /\ <<q, b>> \in waiting'
                             <=> coherStates'[q][b] = "INVALID_MODIFIED"
      BY DEF CachesAgree
    <3>1. CASE q = p /\ b = a
      BY <1>7, <2>3, <2>4, <3>1
    <3>2. CASE ~(q = p /\ b = a)
      <4>1. /\ <<q, b>> \in waiting' <=> <<q, b>> \in waiting
            /\ <<q, b>> \in held' <=> <<q, b>> \in held
        BY <2>3, <3>2
      <4> QED
        BY <1>7, <3>2, <4>1 DEF GrantInv, CachesAgree
    <3> QED
      BY <3>1, <3>2
  <2>6. SingleHolder'
    <3>1. \A q \in Procs : <<q, a>> \notin held
      BY <1>2, <1>4, <1>9 DEF GrantInv, SnoopedClear, CachesAgree
    <3> QED
      BY <2>3, <3>1 DEF GrantInv, SingleHolder
  <2>7. FlushingInvalid'
    BY <1>7, <2>1, <2>3 DEF GrantInv, FlushingInvalid
  <2>8. QueuesSound'
    <3> SUFFICES ASSUME NEW q \in Procs, NEW n \in 1 .. Len(queuedRequests[q])
                 PROVE  <<q, queuedRequests[q][n].addr>>
                          \in Purpose(queuedRequests[q][n])'
      BY <2>4 DEF GrantInv, QueuesSound
    <3>1. <<q, queuedRequests[q][n].addr>> # <<p, a>>
      BY <1>5
    <3> QED
      BY <2>3, <2>4, <3>1 DEF GrantInv, QueuesSound, Purpose
  <2> QED
    BY <1>8, <2>5, <2>6, <2>7, <2>8 DEF GrantInv
<1>10. CASE <<p, a>> \notin waiting
  <2>1. <<p, a>> \in flushing /\ coherStates[p][a] = "INVALID"
    BY <1>2, <1>5, <1>10 DEF GrantInv, FlushingInvalid
  <2>2. Delivery = [next |-> "INVALID", send |-> FALSE, ca |-> "FLUSH_COMPLETE"]
    BY <1>4, <2>1 DEF Delivery, snoopMI
  <2>3. /\ waiting' = waiting
        /\ flushing' = flushing \ {<<p, a>>}
        /\ held' = held
    BY <2>2 DEF Deliver
  <2>4. queuedRequests' = queuedRequests /\ coherStates' = coherStates
    BY <1>2, <1>3, <1>6, <2>1, <2>2
  <2>5. CachesAgree' /\ SingleHolder' /\ FlushingInvalid'
    BY <2>3, <2>4 DEF GrantInv, CachesAgree, SingleHolder, FlushingInvalid
  <2>6. QueuesSound'
    <3> SUFFICES ASSUME NEW q \in Procs, NEW n \in 1 .. Len(queuedRequests[q])
                 PROVE  <<q, queuedRequests[q][n].addr>>
                          \in Purpose(queuedRequests[q][n])'
      BY <2>4 DEF GrantInv, QueuesSound
    <3>1. <<q, queuedRequests[q][n].addr>> # <<p, a>>
      BY <1>5
    <3> QED
      BY <2>3, <2>4, <3>1 DEF GrantInv, QueuesSound, Purpose
  <2> QED
    BY <1>8, <2>5, <2>6 DEF GrantInv
<1> QED
  BY <1>9, <1>10

LEMMA InitGrant == Init => GrantInv
BY DEF Init, SystemInit, BusInit, CoherInit, GrantInv, CachesAgree,
       SingleHolder, FlushingInvalid, QueuesSound, PendingSound, SnoopedClear,
       OnBus

LEMMA NextGrant ==
  ASSUME TypeOK, Lockstep, GrantInv, [Next]_vars
  PROVE  GrantInv'
<1>1. ASSUME NEW p \in Procs, NEW a \in Addrs, Access(p, a) \/ Evict(p, a)
      PROVE  GrantInv'
  BY <1>1, AccessGrant, EvictGrant
<1>2. CASE Tick
  BY <1>2, QuietTickGrant, IssueGrant, DeliverGrant DEF Tick
<1>3. CASE TracesEnd \/ UNCHANGED vars
  BY <1>3, QuietGrant
  DEF TracesEnd, vars, systemVars, clientVars, busVars, OnBus
<1> QED
  BY <1>1, <1>2, <1>3 DEF Next

\* What every grant rests on holds throughout.
THEOREM GrantsAreSound == Spec => []GrantInv
<1>1. Init => TypeOK /\ Lockstep /\ GrantInv
  BY InitLockstep, InitGrant
<1>2. TypeOK /\ Lockstep /\ GrantInv /\ [Next]_vars
        => (TypeOK /\ Lockstep /\ GrantInv)'
  BY NextLockstep, NextGrant
<1> QED
  BY <1>1, <1>2, PTL DEF Spec

\* Two caches never hold the same block.
THEOREM OneHolder == Spec => []SingleHolder
<1>1. GrantInv => SingleHolder
  BY DEF GrantInv
<1> QED
  BY <1>1, GrantsAreSound, PTL

\* What the caches were told is what coherence has recorded.
THEOREM CachesAlwaysAgree == Spec => []CachesAgree
<1>1. GrantInv => CachesAgree
  BY DEF GrantInv
<1> QED
  BY <1>1, GrantsAreSound, PTL
=============================================================================
