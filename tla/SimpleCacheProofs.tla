-------------------------- MODULE SimpleCacheProofs --------------------------
(***************************************************************************)
(* Proofs about SimpleCacheSystem: the whole simulator with simpleCache,   *)
(* for any number of cores, any set of blocks, any delays and traces of    *)
(* any length.  Each step is shown to be a step of BusSystem, or to leave  *)
(* it alone, so what BusSystemProofs proves of any cache that keeps to the *)
(* interface holds here, and gives the cache's own invariants.             *)
(***************************************************************************)
EXTENDS SimpleCacheSystem, FiniteSetTheorems, SequenceTheorems, TLAPS

\* BusSystem with what has been proved about it.
BusProofs == INSTANCE BusAccountProofs WITH
  waiting <- Waiting, flushing <- {}, held <- Held,
  tracing <- TRUE, Evictors <- {}, MaxOutstanding <- 1

BusInv == BusProofs!TypeOK /\ BusProofs!Lockstep /\ BusProofs!GrantInv

-----------------------------------------------------------------------------
(***************************************************************************)
(* The inductive invariant.                                                *)
(***************************************************************************)

\* No core has two requests in the cache.
OneEach ==
  /\ \A i, j \in 1 .. Len(pendReq) :
       pendReq[i].procNum = pendReq[j].procNum => i = j
  /\ \A i, j \in 1 .. Len(readyReq) :
       readyReq[i].procNum = readyReq[j].procNum => i = j
  /\ \A i \in 1 .. Len(pendReq), j \in 1 .. Len(readyReq) :
       pendReq[i].procNum # readyReq[j].procNum

\* The core that made the request waits for it.
Awaited(r) ==
  /\ core[r.procNum].pendingMem
  /\ r.tag = makeTag(r.procNum, core[r.procNum].memOpTag)

\* A core waits exactly for its request.
WaitersMatch ==
  /\ \A i \in 1 .. Len(pendReq) : Awaited(pendReq[i])
  /\ \A i \in 1 .. Len(readyReq) : Awaited(readyReq[i])
  /\ \A p \in Procs :
       core[p].pendingMem =>
         \/ \E i \in 1 .. Len(pendReq) : pendReq[i].procNum = p
         \/ \E i \in 1 .. Len(readyReq) : readyReq[i].procNum = p

Waiters == {p \in Procs : core[p].pendingMem}

RequestInv ==
  /\ OneEach
  /\ WaitersMatch
  /\ Cardinality(Waiters) = Len(pendReq) + Len(readyReq)

\* What can be left of p's trace.  A text has no tasks and, where there is
\* no file, nothing left; a context that is complete has been read.
Readable(p, c) ==
  /\ input.format # "taskgraph" =>
       /\ c.actions = <<>> /\ ~c.isComplete
       /\ c.open \/ p \in input.found \/ c.left = 0
  /\ c.isComplete => c.left = 0 /\ c.actions = <<>>

ReaderInv == \A p \in Procs : Readable(p, trace[p])

\* Core p has nothing under way and nothing left to do.
Done(p) == Ready(p) /\ (input.clean => ReadToTheEnd(p))

\* The bus ticks only in coherence's turn; the cores that the loop has
\* visited without progress are done.
TurnInv ==
  /\ turn # "coherence" => phase = "calls"
  /\ turn = "cores" /\ ~progress => \A p \in Procs : p < visiting => Done(p)
  /\ turn = "ended" => \A p \in Procs : Done(p)

SimpleInv ==
  /\ TypeOK
  /\ BusInv
  /\ NeverAborts
  /\ RequestInv
  /\ ReaderInv
  /\ TurnInv

-----------------------------------------------------------------------------
(***************************************************************************)
(* Sequences and sets.                                                     *)
(***************************************************************************)

\* A set of naturals that is not empty has the minimum that SelectInSeq takes.
LEMMA MinOfNaturals ==
  ASSUME NEW I \in SUBSET Nat, I # {}
  PROVE  Min(I) \in I /\ \A i \in I : Min(I) <= i
<1> DEFINE less == {ss \in Nat \X Nat : ss[1] < ss[2]}
<1>1. IsWellFoundedOn(less, Nat)
  BY NatLessThanWellFounded, Zenon DEF OpToRel
<1>2. PICK n \in I : \A i \in I : ~ (<<i, n>> \in less)
  BY <1>1, WFMin, Zenon
<1>3. ASSUME NEW i \in I PROVE n <= i
  <2>1. i \in Nat /\ n \in Nat
    OBVIOUS
  <2>2. ~ (<<i, n>> \in less)
    BY <1>2
  <2>3. ~ (i < n)
    BY <2>1, <2>2
  <2> QED
    BY <2>1, <2>3
<1> QED
  BY <1>3 DEF Min

\* RemoveAt unlinks one element.
LEMMA RemoveAtProperties ==
  ASSUME NEW T, NEW s \in Seq(T), NEW n \in 1 .. Len(s)
  PROVE  /\ RemoveAt(s, n) \in Seq(T)
         /\ Len(RemoveAt(s, n)) = Len(s) - 1
         /\ \A i \in 1 .. Len(s) - 1 :
              RemoveAt(s, n)[i] = IF i < n THEN s[i] ELSE s[i + 1]
<1> DEFINE front == SubSeq(s, 1, n - 1)
           back == SubSeq(s, n + 1, Len(s))
<1>1. /\ front \in Seq(T) /\ Len(front) = n - 1
      /\ \A i \in 1 .. n - 1 : front[i] = s[i]
  OBVIOUS
<1>2. /\ back \in Seq(T) /\ Len(back) = Len(s) - n
      /\ \A i \in 1 .. Len(s) - n : back[i] = s[n + i]
  OBVIOUS
<1>3. RemoveAt(s, n) = front \o back
  BY DEF RemoveAt
<1> HIDE DEF front, back
<1>4. /\ front \o back \in Seq(T)
      /\ Len(front \o back) = Len(s) - 1
      /\ \A i \in 1 .. Len(s) - 1 :
           (front \o back)[i] = IF i <= n - 1 THEN front[i]
                                ELSE back[i - (n - 1)]
  <2>1. Len(front) + Len(back) = Len(s) - 1
    BY <1>1, <1>2
  <2>2. /\ front \o back \in Seq(T)
        /\ Len(front \o back) = Len(front) + Len(back)
        /\ \A i \in 1 .. Len(front) + Len(back) :
             (front \o back)[i] = IF i <= Len(front) THEN front[i]
                                  ELSE back[i - Len(front)]
    BY <1>1, <1>2, ConcatProperties, Zenon
  <2> QED
    BY <1>1, <2>1, <2>2
<1>5. ASSUME NEW i \in 1 .. Len(s) - 1
      PROVE  (front \o back)[i] = IF i < n THEN s[i] ELSE s[i + 1]
  <2>1. CASE i < n
    BY <1>1, <1>4, <2>1
  <2>2. CASE ~(i < n)
    <3>1. /\ i \in Nat /\ n \in Nat /\ Len(s) \in Nat
          /\ ~(i <= n - 1) /\ i - (n - 1) \in 1 .. Len(s) - n
          /\ n + (i - (n - 1)) = i + 1
      BY <2>2
    <3>2. (front \o back)[i] = back[i - (n - 1)]
      BY <1>4, <3>1
    <3>3. back[i - (n - 1)] = s[i + 1]
      BY <1>2, <3>1
    <3> QED
      BY <2>2, <3>2, <3>3
  <2> QED
    BY <2>1, <2>2
<1> QED
  BY <1>3, <1>4, <1>5

\* <<x>> \o s puts x in front.
LEMMA ConsProperties ==
  ASSUME NEW T, NEW s \in Seq(T), NEW x \in T
  PROVE  /\ <<x>> \o s \in Seq(T)
         /\ Len(<<x>> \o s) = Len(s) + 1
         /\ \A i \in 1 .. Len(s) + 1 :
              (<<x>> \o s)[i] = IF i = 1 THEN x ELSE s[i - 1]
         /\ Range(<<x>> \o s) = {x} \cup Range(s)
<1>1. <<x>> \in Seq(T) /\ Len(<<x>>) = 1 /\ <<x>>[1] = x
  OBVIOUS
<1>2. /\ <<x>> \o s \in Seq(T)
      /\ Len(<<x>> \o s) = Len(s) + 1
      /\ \A i \in 1 .. Len(s) + 1 :
           (<<x>> \o s)[i] = IF i = 1 THEN x ELSE s[i - 1]
  BY <1>1, ConcatProperties
<1>3. Range(<<x>> \o s) = {x} \cup Range(s)
  <2> DEFINE one == <<x>>
  <2>1. one \in Seq(T) /\ Range(one) = {x}
    BY DEF Range
  <2> HIDE DEF one
  <2>2. Range(one \o s) = Range(one) \cup Range(s)
    BY <2>1, RangeConcatenation
  <2> QED
    BY <2>1, <2>2 DEF one
<1> QED
  BY <1>2, <1>3

-----------------------------------------------------------------------------
(***************************************************************************)
(* The bus under simpleCache.  An instance's operators are its own: these  *)
(* lemmas say that they are this module's, definition by definition.       *)
(***************************************************************************)

\* The processors and the types of requests.
LEMMA SameTypes ==
  BusProofs!Procs = Procs /\ BusProofs!BusReqTypes = BusReqTypes
BY DEF Procs, BusReqTypes, BusProofs!Procs, BusProofs!BusReqTypes

\* The call from the cache, permReq.
LEMMA SamePermReq == \A p, a : BusProofs!permReq(p, a) <=> permReq(p, a)
BY DEF permReq, cacheMI, SetState, busVars, memVars, busReq, BusReqStarts,
       BusReqAnswers, BusReqQueues, AnswersPending, NewBusReq, enqBusRequest,
       BusProofs!permReq, BusProofs!cacheMI, BusProofs!SetState,
       BusProofs!busVars, BusProofs!memVars, BusProofs!busReq,
       BusProofs!BusReqStarts, BusProofs!BusReqAnswers, BusProofs!BusReqQueues,
       BusProofs!AnswersPending, BusProofs!NewBusReq, BusProofs!enqBusRequest

\* The ticks that call nothing back.
LEMMA SameQuietTicks ==
  /\ BusProofs!MemoryTick <=> MemoryTick
  /\ BusProofs!BusCounts <=> BusCounts
  /\ BusProofs!BusReleases <=> BusReleases
  /\ BusProofs!BusArbitrates <=> BusArbitrates
<1>1. BusProofs!MemoryTick <=> MemoryTick
  BY DEF memVars, MemIdle, MemCounts, MemSquelches, MemResponds, CacheTransfer,
         busReqCacheTransfer, memReqCallback, MemoryTick, BusProofs!memVars,
         BusProofs!MemIdle, BusProofs!MemCounts, BusProofs!MemSquelches,
         BusProofs!MemResponds, BusProofs!CacheTransfer,
         BusProofs!busReqCacheTransfer, BusProofs!memReqCallback,
         BusProofs!MemoryTick
<1>2. BusProofs!BusCounts <=> BusCounts
  BY DEF BusCounts, BusTicking, memVars,
         BusProofs!BusCounts, BusProofs!BusTicking, BusProofs!memVars
<1>3. BusProofs!BusReleases <=> BusReleases
  BY DEF BusReleases, memVars, BusProofs!BusReleases, BusProofs!memVars
<1>4. BusProofs!BusArbitrates <=> BusArbitrates
  BY DEF BusArbitrates, BusDequeues, HasTurn, Distance, busVars, memVars, Procs,
         BusProofs!BusArbitrates, BusProofs!BusDequeues, BusProofs!HasTurn,
         BusProofs!Distance, BusProofs!busVars, BusProofs!memVars,
         BusProofs!Procs
<1> QED
  BY <1>1, <1>2, <1>3, <1>4

\* The tick that issues a request and lets the others snoop it.
LEMMA SameBusIssues ==
  /\ BusProofs!BusIssues <=> BusIssues
  /\ BusProofs!Invalidated = Invalidated
<1>1. BusProofs!BusIssues <=> BusIssues
  BY DEF BusIssues, BusTicking, Elapses, MemBusReq, SnoopedOwners, Snooped,
         snoopMI, NewBusReq, Procs, BusProofs!BusIssues, BusProofs!BusTicking,
         BusProofs!Elapses, BusProofs!MemBusReq, BusProofs!SnoopedOwners,
         BusProofs!Snooped, BusProofs!snoopMI, BusProofs!NewBusReq,
         BusProofs!Procs
<1>2. BusProofs!Invalidated = Invalidated
  BY DEF Invalidated, Snooped, snoopMI, Procs, BusProofs!Invalidated,
         BusProofs!Snooped, BusProofs!snoopMI, BusProofs!Procs
<1> QED
  BY <1>1, <1>2

\* The tick that delivers the data to the requester.
LEMMA SameBusDelivers ==
  /\ BusProofs!BusDelivers <=> BusDelivers
  /\ BusProofs!Delivery = Delivery
  /\ BusProofs!DeliveredType = DeliveredType
<1>1. BusProofs!BusDelivers <=> BusDelivers
  BY DEF BusDelivers, BusTicking, Elapses, Delivery, DeliveredType, snoopMI,
         SetState, enqBusRequest, NewBusReq, memVars, BusProofs!BusDelivers,
         BusProofs!BusTicking, BusProofs!Elapses, BusProofs!Delivery,
         BusProofs!DeliveredType, BusProofs!snoopMI, BusProofs!SetState,
         BusProofs!enqBusRequest, BusProofs!NewBusReq, BusProofs!memVars
<1>2. BusProofs!Delivery = Delivery
  BY DEF Delivery, DeliveredType, snoopMI, BusProofs!Delivery,
         BusProofs!DeliveredType, BusProofs!snoopMI
<1>3. BusProofs!DeliveredType = DeliveredType
  BY DEF DeliveredType, BusProofs!DeliveredType
<1> QED
  BY <1>1, <1>2, <1>3

\* The types of the state that the bus, memory and coherence keep.
LEMMA SameSystemTypes ==
  /\ BusProofs!SystemTypeOK <=> SystemTypeOK
  /\ BusProofs!SystemTypeOK' <=> SystemTypeOK'
BY DEF SystemTypeOK, MemTypeOK, MemRequest, BusTypeOK, BusReq, BusReqStates,
       BusReqTypes, QueuedReq, CoherTypeOK, States, Phases, Procs,
       BusProofs!SystemTypeOK, BusProofs!MemTypeOK, BusProofs!MemRequest,
       BusProofs!BusTypeOK, BusProofs!BusReq, BusProofs!BusReqStates,
       BusProofs!BusReqTypes, BusProofs!QueuedReq, BusProofs!CoherTypeOK,
       BusProofs!States, BusProofs!Phases, BusProofs!Procs

-----------------------------------------------------------------------------
(***************************************************************************)
(* What has been proved of the bus, for this one.                          *)
(***************************************************************************)

\* BusInv holds when the bus starts.
LEMMA InitBusInv == BusProofs!Init => BusInv
<1>1. BusProofs!Init => BusProofs!TypeOK /\ BusProofs!Lockstep
  BY BusProofs!InitLockstep, SameTypes, ProcessorCountAssumption,
     NullAssumption, DramAssumption, BusDelayAssumption
<1>2. BusProofs!Init => BusProofs!GrantInv
  BY BusProofs!InitGrant, SameTypes, ProcessorCountAssumption,
     NullAssumption, DramAssumption, BusDelayAssumption
<1> QED
  BY <1>1, <1>2 DEF BusInv

\* Every step that the interface allows keeps BusInv.
LEMMA NextBusInv ==
  ASSUME BusInv, [BusProofs!Next]_(BusProofs!vars)
  PROVE  BusInv'
<1>1. BusProofs!TypeOK' /\ BusProofs!Lockstep'
  BY BusProofs!NextLockstep, SameTypes, ProcessorCountAssumption,
     NullAssumption, DramAssumption, BusDelayAssumption DEF BusInv
<1>2. BusProofs!GrantInv'
  BY BusProofs!NextGrant, SameTypes, ProcessorCountAssumption,
     NullAssumption, DramAssumption, BusDelayAssumption DEF BusInv
<1> QED
  BY <1>1, <1>2 DEF BusInv

\* The invariants of the bus, where no cache ever gives a block up: whoever
\* has a transaction queued or on the bus waits for its block.
LEMMA BusFacts ==
  ASSUME BusInv, SystemTypeOK
  PROVE  /\ \A p \in Procs, a \in Addrs :
              <<p, a>> \in Waiting <=> coherStates[p][a] = "INVALID_MODIFIED"
         /\ \A p \in Procs : \A n \in 1 .. Len(queuedRequests[p]) :
              <<p, queuedRequests[p][n].addr>> \in Waiting
         /\ pendingRequest # NULL /\ phase # "callback" =>
              /\ <<pendingRequest.procNum, pendingRequest.addr>> \in Waiting
              /\ pendingRequest.currentState = "WAITING_CACHE" =>
                   pendingRequest.brt = "BUSWR"
         /\ pendingRequest = NULL => busCountDown = 0 /\ memRequest = NULL
<1> USE SameTypes DEF BusInv, BusProofs!GrantInv
<1>1. \A p \in Procs, a \in Addrs :
        <<p, a>> \in Waiting <=> coherStates[p][a] = "INVALID_MODIFIED"
  BY DEF BusProofs!CachesAgree
<1>2. \A p \in Procs : \A n \in 1 .. Len(queuedRequests[p]) :
        <<p, queuedRequests[p][n].addr>> \in Waiting
  BY DEF BusProofs!QueuesSound, BusProofs!Purpose
<1>3. ASSUME pendingRequest # NULL, phase # "callback"
      PROVE  /\ <<pendingRequest.procNum, pendingRequest.addr>> \in Waiting
             /\ pendingRequest.currentState = "WAITING_CACHE" =>
                  pendingRequest.brt = "BUSWR"
  BY <1>3
  DEF BusProofs!PendingSound, BusProofs!OnBus, BusProofs!Purpose,
      BusProofs!PendingIs, SystemTypeOK, BusTypeOK, BusReq, BusReqTypes
<1>4. pendingRequest = NULL => busCountDown = 0 /\ memRequest = NULL
  BY DEF BusProofs!Lockstep, BusProofs!FreeBus
<1> QED
  BY <1>1, <1>2, <1>3, <1>4

-----------------------------------------------------------------------------
(***************************************************************************)
(* Each step is a step of the bus, or leaves it alone.                     *)
(***************************************************************************)

\* What leaves the bus and pendReq alone is a stutter of BusSystem.
LEMMA BusUnchanged ==
  ASSUME UNCHANGED <<systemVars, pendReq>>
  PROVE  UNCHANGED BusProofs!vars
BY DEF systemVars, memVars, busVars, Waiting, Held, BusProofs!vars,
       BusProofs!systemVars, BusProofs!memVars, BusProofs!busVars,
       BusProofs!clientVars

\* A tick that calls nothing back is one of BusSystem's.
LEMMA QuietStep ==
  ASSUME MemoryTick \/ BusCounts \/ BusReleases \/ BusArbitrates,
         UNCHANGED pendReq
  PROVE  BusProofs!Next
<1>1. UNCHANGED coherStates
  BY DEF MemoryTick, BusCounts, BusReleases, BusArbitrates
<1>2. BusProofs!QuietTick
  BY <1>1, SameQuietTicks
  DEF BusProofs!QuietTick, BusProofs!clientVars, Waiting, Held
<1> QED
  BY <1>2 DEF BusProofs!Next, BusProofs!Tick

\* The snoop: the blocks it takes away are held no longer.  Its callbacks
\* find the request that is on the bus pending.
LEMMA IssueStep ==
  ASSUME BusInv, SystemTypeOK, BusIssues, UNCHANGED pendReq
  PROVE  BusProofs!Next /\ Waiting # {}
<1> DEFINE p == pendingRequest.procNum
           a == pendingRequest.addr
<1>1. /\ pendingRequest # NULL /\ phase = "bus"
      /\ pendingRequest.currentState = "WAITING_CACHE"
      /\ pendingRequest \in BusReq /\ p \in Procs /\ a \in Addrs
  <2>1. phase = "bus" /\ busCountDown > 0
        /\ pendingRequest.currentState = "WAITING_CACHE"
    BY DEF BusIssues, BusTicking
  <2>2. pendingRequest # NULL
    BY <2>1, BusFacts DEF SystemTypeOK, BusTypeOK
  <2> QED
    BY <2>1, <2>2 DEF SystemTypeOK, BusTypeOK, BusReq
<1>2. <<p, a>> \in Waiting /\ pendingRequest.brt = "BUSWR"
  BY <1>1, BusFacts
<1>3. coherStates \in [Procs -> [Addrs -> States]]
  BY DEF SystemTypeOK, CoherTypeOK
<1>4. coherStates[p][a] = "INVALID_MODIFIED"
  BY <1>1, <1>2, BusFacts
<1>5. Invalidated = {i \in Procs : coherStates[i][a] = "MODIFIED"}
  <2>1. ASSUME NEW i \in Procs
        PROVE  Snooped(i).ca = "INVALIDATE" <=> coherStates[i][a] = "MODIFIED"
    BY <1>1, <1>2, <1>3 DEF Snooped, snoopMI, States
  <2> QED
    BY <1>4, <2>1 DEF Invalidated
<1>6. ASSUME NEW i \in Procs, NEW b \in Addrs
      PROVE  coherStates'[i][b] = "MODIFIED"
               <=> coherStates[i][b] = "MODIFIED" /\ b # a
  <2>1. coherStates'[i]
          = IF i # p THEN [coherStates[i] EXCEPT ![a] = Snooped(i).next]
            ELSE coherStates[i]
    BY <1>2 DEF BusIssues
  <2>2. Snooped(i).next # "MODIFIED"
    BY <1>1, <1>2, <1>3 DEF Snooped, snoopMI, States
  <2> QED
    BY <1>1, <1>3, <1>4, <2>1, <2>2
<1>7. Held' = Held \ {<<i, a>> : i \in Invalidated}
  <2>1. ASSUME NEW i \in Procs, NEW b \in Addrs
        PROVE  <<i, b>> \in Held'
                 <=> <<i, b>> \in Held \ {<<j, a>> : j \in Invalidated}
    BY <1>5, <1>6 DEF Held
  <2> QED
    BY <2>1 DEF Held
<1>8. BusProofs!Issue
  BY <1>2, <1>7, SameBusIssues DEF BusProofs!Issue, Waiting
<1> QED
  BY <1>2, <1>8 DEF BusProofs!Next, BusProofs!Tick

\* What waits is what is in pendReq.
LEMMA WaitingPlaces ==
  ASSUME pendReq \in Seq(PendingRequest)
  PROVE  \A p, a : <<p, a>> \in Waiting
           <=> \E i \in 1 .. Len(pendReq) :
                 pendReq[i].procNum = p /\ pendReq[i].addr = a
<1>1. DOMAIN pendReq = 1 .. Len(pendReq)
  OBVIOUS
<1> QED
  BY <1>1 DEF Waiting, Range

\* The request that coherence calls back about is found.
LEMMA FindsPending ==
  ASSUME CacheTypeOK, NEW p, NEW a, <<p, a>> \in Waiting
  PROVE  /\ FindPending(p, a) \in 1 .. Len(pendReq)
         /\ pendReq[FindPending(p, a)].procNum = p
         /\ pendReq[FindPending(p, a)].addr = a
<1> DEFINE I == {i \in 1 .. Len(pendReq) :
                   pendReq[i].procNum = p /\ pendReq[i].addr = a}
<1>1. I # {} /\ I \in SUBSET Nat
  BY WaitingPlaces DEF CacheTypeOK
<1>2. FindPending(p, a) = Min(I)
  BY <1>1 DEF FindPending, SelectInSeq
<1>3. Min(I) \in I
  <2> HIDE DEF I
  <2> QED
    BY <1>1, MinOfNaturals
<1> QED
  BY <1>2, <1>3

\* The requester's callback is always DATA_RECV, for a request that it moves
\* from pendReq to the front of readyReq.
LEMMA DeliverStep ==
  ASSUME BusInv, SystemTypeOK, CacheTypeOK, OneEach, BusDelivers,
         coherCallback(Delivery.ca, pendingRequest.procNum, pendingRequest.addr)
  PROVE  /\ BusProofs!Next
         /\ \E n \in 1 .. Len(pendReq) :
              /\ pendReq' = RemoveAt(pendReq, n)
              /\ readyReq' = <<pendReq[n]>> \o readyReq
         /\ UNCHANGED aborted
<1> DEFINE p == pendingRequest.procNum
           a == pendingRequest.addr
           n == FindPending(p, a)
           len == Len(pendReq)
<1>1. /\ pendingRequest # NULL /\ phase = "bus"
      /\ pendingRequest \in BusReq
      /\ DeliveredType = "DATA"
  <2>1. BusProofs!OnBus /\ BusProofs!DeliveredType = "DATA"
    BY BusProofs!DeliveredAnswer, SameBusDelivers, SameTypes,
       ProcessorCountAssumption, NullAssumption, DramAssumption,
       BusDelayAssumption DEF BusInv
  <2> QED
    BY <2>1, SameBusDelivers
    DEF BusProofs!OnBus, BusDelivers, BusTicking, SystemTypeOK, BusTypeOK
<1>2. p \in Procs /\ a \in Addrs
  BY <1>1 DEF BusReq
<1>3. <<p, a>> \in Waiting /\ coherStates[p][a] = "INVALID_MODIFIED"
  BY <1>1, <1>2, BusFacts
<1>4. Delivery = [next |-> "MODIFIED", send |-> FALSE, ca |-> "DATA_RECV"]
  BY <1>1, <1>3 DEF Delivery, snoopMI
<1>5. n \in 1 .. len /\ pendReq[n].procNum = p /\ pendReq[n].addr = a
  BY <1>3, FindsPending
<1>6. n > 0
  BY <1>5
<1>7. /\ pendReq' = RemoveAt(pendReq, n)
      /\ readyReq' = <<pendReq[n]>> \o readyReq
      /\ UNCHANGED aborted
  <2> HIDE DEF n
  <2>1. Delivery.ca = "DATA_RECV"
    BY <1>4
  <2> QED
    BY <1>6, <2>1 DEF coherCallback, n
<1>8. /\ pendReq' \in Seq(PendingRequest)
      /\ Len(pendReq') = len - 1
      /\ \A i \in 1 .. len - 1 :
           pendReq'[i] = IF i < n THEN pendReq[i] ELSE pendReq[i + 1]
  <2> HIDE DEF n
  <2> QED
    BY <1>5, <1>7, RemoveAtProperties DEF CacheTypeOK
<1>9. Waiting' = Waiting \ {<<p, a>>}
  <2>1. ASSUME NEW q, NEW b
        PROVE  <<q, b>> \in Waiting'
                 <=> <<q, b>> \in Waiting /\ <<q, b>> # <<p, a>>
    <3>1. <<q, b>> \in Waiting'
            <=> \E i \in 1 .. len - 1 :
                  pendReq'[i].procNum = q /\ pendReq'[i].addr = b
      <4>1. DOMAIN pendReq' = 1 .. len - 1
        BY <1>8
      <4> QED
        BY <4>1 DEF Waiting, Range
    <3>2. <<q, b>> \in Waiting
            <=> \E i \in 1 .. len :
                  pendReq[i].procNum = q /\ pendReq[i].addr = b
      BY WaitingPlaces DEF CacheTypeOK
    <3> HIDE DEF n
    <3>3. ASSUME NEW i \in 1 .. len - 1, pendReq'[i].procNum = q,
                 pendReq'[i].addr = b
          PROVE  <<q, b>> \in Waiting /\ <<q, b>> # <<p, a>>
      <4>1. PICK j \in 1 .. len : j # n /\ pendReq'[i] = pendReq[j]
        <5>1. CASE i < n
          BY <1>8, <5>1
        <5>2. CASE ~(i < n)
          <6>1. i + 1 \in 1 .. len /\ i + 1 # n
            BY <1>5, <5>2
          <6> QED
            BY <1>8, <5>2, <6>1
        <5> QED
          BY <5>1, <5>2
      <4>2. q # p
        BY <1>5, <3>3, <4>1 DEF OneEach
      <4> QED
        BY <3>2, <3>3, <4>1, <4>2
    <3>4. ASSUME NEW j \in 1 .. len, pendReq[j].procNum = q,
                 pendReq[j].addr = b, <<q, b>> # <<p, a>>
          PROVE  <<q, b>> \in Waiting'
      <4>1. j # n
        BY <1>5, <3>4
      <4>2. CASE j < n
        <5>1. j \in 1 .. len - 1
          BY <1>5, <4>2
        <5> QED
          BY <1>8, <3>1, <3>4, <4>2, <5>1
      <4>3. CASE j > n
        <5>1. j - 1 \in 1 .. len - 1 /\ ~(j - 1 < n) /\ (j - 1) + 1 = j
          BY <1>5, <4>3
        <5>2. pendReq'[j - 1] = pendReq[j]
          BY <1>8, <5>1
        <5> QED
          BY <3>1, <3>4, <5>1, <5>2
      <4> QED
        BY <1>5, <4>1, <4>2, <4>3
    <3> QED
      BY <3>1, <3>2, <3>3, <3>4
  <2> QED
    BY <2>1 DEF Waiting
<1>10. Held' = Held \cup {<<p, a>>}
  <2>1. coherStates \in [Procs -> [Addrs -> States]]
        /\ coherStates' = [coherStates EXCEPT ![p][a] = "MODIFIED"]
    BY <1>4 DEF BusDelivers, SetState, SystemTypeOK, CoherTypeOK
  <2>2. ASSUME NEW q \in Procs, NEW b \in Addrs
        PROVE  coherStates'[q][b] = "MODIFIED"
                 <=> coherStates[q][b] = "MODIFIED" \/ (q = p /\ b = a)
    BY <1>2, <2>1
  <2> QED
    BY <1>2, <2>2 DEF Held
<1>11. BusProofs!Deliver
  <2>1. BusProofs!BusDelivers /\ BusProofs!Delivery.ca = "DATA_RECV"
    BY <1>4, SameBusDelivers
  <2> QED
    BY <1>9, <1>10, <2>1 DEF BusProofs!Deliver
<1> QED
  BY <1>5, <1>7, <1>11 DEF BusProofs!Next, BusProofs!Tick

\* An access by a core that has no request: permReq, and the request waits
\* exactly when the answer is no.
LEMMA AccessStep ==
  ASSUME SystemTypeOK, CacheTypeOK, phase = "calls",
         NEW p \in Procs, NEW a \in Addrs, NEW tag \in Nat,
         \A i \in 1 .. Len(pendReq) : pendReq[i].procNum # p,
         memoryRequest(p, a, tag)
  PROVE  BusProofs!Next
<1> DEFINE pr == [tag |-> tag, addr |-> a, procNum |-> p]
           perm == cacheMI(coherStates[p][a]).permAvail
<1>1. /\ permReq(p, a)
      /\ pendReq' = IF perm THEN pendReq ELSE <<pr>> \o pendReq
  BY DEF memoryRequest
<1>2. BusProofs!permReq(p, a)
      /\ BusProofs!cacheMI(coherStates[p][a]).permAvail = perm
  BY <1>1, SamePermReq DEF cacheMI, BusProofs!cacheMI
<1>3. \A q, b : <<q, b>> \in Waiting => q # p
  BY WaitingPlaces DEF CacheTypeOK
<1>4. BusProofs!Outstanding(p) = {}
  BY <1>3 DEF BusProofs!Outstanding
<1>5. BusProofs!Cardinality(BusProofs!Outstanding(p)) < 1
  <2>1. BusProofs!Cardinality({}) = Cardinality({})
    BY DEF Cardinality, BusProofs!Cardinality
  <2> QED
    BY <1>4, <2>1, FS_EmptySet
<1>6. Waiting' = IF perm THEN Waiting ELSE Waiting \cup {<<p, a>>}
  <2>1. CASE perm
    BY <1>1, <2>1 DEF Waiting
  <2>2. CASE ~perm
    <3>1. pendReq \in Seq(PendingRequest) /\ pr \in PendingRequest
      BY DEF CacheTypeOK, PendingRequest
    <3> HIDE DEF pr
    <3>2. Range(<<pr>> \o pendReq) = {pr} \cup Range(pendReq)
      BY <3>1, ConsProperties
    <3>3. pr.procNum = p /\ pr.addr = a
      BY DEF pr
    <3> QED
      BY <1>1, <2>2, <3>2, <3>3 DEF Waiting
  <2> QED
    BY <2>1, <2>2
<1>7. Held' = Held
  <2>1. coherStates \in [Procs -> [Addrs -> States]]
        /\ coherStates' = [coherStates EXCEPT
                             ![p][a] = cacheMI(coherStates[p][a]).next]
    BY <1>1 DEF permReq, SetState, SystemTypeOK, CoherTypeOK
  <2>2. ASSUME NEW q \in Procs, NEW b \in Addrs
        PROVE  coherStates'[q][b] = "MODIFIED"
                 <=> coherStates[q][b] = "MODIFIED"
    BY <2>1 DEF cacheMI
  <2> QED
    BY <2>2 DEF Held
<1>8. BusProofs!Access(p, a)
  BY <1>2, <1>5, <1>6, <1>7 DEF BusProofs!Access, BusProofs!Running
<1> QED
  BY <1>8, SameTypes DEF BusProofs!Next

-----------------------------------------------------------------------------
(***************************************************************************)
(* The requests in the cache and the cores that wait for them.             *)
(***************************************************************************)

CoreRecord == [memOpTag : Nat, pendingMem : BOOLEAN, pendingBranch : {0, 1}]

\* What the processor assigns to a core.
LEMMA CoreUpdates ==
  ASSUME NEW c \in CoreRecord
  PROVE  /\ \A b \in BOOLEAN : [c EXCEPT !.pendingMem = b] \in CoreRecord
         /\ \A n \in {0, 1} : [c EXCEPT !.pendingBranch = n] \in CoreRecord
         /\ \A n \in Nat : [c EXCEPT !.memOpTag = n] \in CoreRecord
         /\ [c EXCEPT !.memOpTag = @ + 1, !.pendingMem = FALSE] \in CoreRecord
<1>1. \A b \in BOOLEAN : [c EXCEPT !.pendingMem = b] \in CoreRecord
  BY DEF CoreRecord
<1>2. \A n \in {0, 1} : [c EXCEPT !.pendingBranch = n] \in CoreRecord
  BY DEF CoreRecord
<1>3. \A x \in CoreRecord, n \in Nat : [x EXCEPT !.memOpTag = n] \in CoreRecord
  BY DEF CoreRecord
<1>4. [c EXCEPT !.memOpTag = @ + 1, !.pendingMem = FALSE] \in CoreRecord
  <2> DEFINE next == c.memOpTag + 1
             freed == [c EXCEPT !.pendingMem = FALSE]
  <2>1. next \in Nat
    BY DEF CoreRecord
  <2>2. freed \in CoreRecord
    BY <1>1
  <2>3. [freed EXCEPT !.memOpTag = next] \in CoreRecord
    BY <1>3, <2>1, <2>2
  <2>4. [c EXCEPT !.memOpTag = @ + 1, !.pendingMem = FALSE]
          = [freed EXCEPT !.memOpTag = next]
    BY DEF CoreRecord
  <2> QED
    BY <2>3, <2>4
<1> QED
  BY <1>1, <1>2, <1>3, <1>4

\* Waiters can be counted.
LEMMA WaitersFinite ==
  IsFiniteSet(Waiters)
<1>1. IsFiniteSet(Procs)
  BY FS_Interval, ProcessorCountAssumption DEF Procs
<1>2. Waiters \in SUBSET Procs
  BY DEF Waiters
<1> QED
  BY <1>1, <1>2, FS_Subset

\* The tag that memoryRequest is given tells core and operation apart.
LEMMA BaseTagOfMake ==
  ASSUME NEW p \in Procs, NEW t \in Nat
  PROVE  makeTag(p, t) \in Nat /\ BaseTag(makeTag(p, t)) = t
<1>1. p \in Nat /\ p < 256
  BY ProcessorCountAssumption, TagAssumption DEF Procs
<1> QED
  BY <1>1 DEF makeTag, BaseTag

\* A step that moves no request and no core's wait.
LEMMA RequestsKept ==
  ASSUME RequestInv, UNCHANGED <<pendReq, readyReq>>,
         core' \in [Procs -> CoreRecord],
         \A p \in Procs : /\ core'[p].pendingMem = core[p].pendingMem
                          /\ core'[p].memOpTag = core[p].memOpTag,
         CacheTypeOK
  PROVE  RequestInv'
<1>1. OneEach'
  BY DEF RequestInv, OneEach
<1>2. \A r \in PendingRequest : Awaited(r)' <=> Awaited(r)
  BY DEF Awaited, PendingRequest
<1>3. /\ \A i \in 1 .. Len(pendReq) : pendReq[i] \in PendingRequest
      /\ \A i \in 1 .. Len(readyReq) : readyReq[i] \in PendingRequest
  BY DEF CacheTypeOK
<1>4. WaitersMatch'
  <2>1. /\ \A i \in 1 .. Len(pendReq) : Awaited(pendReq[i])'
        /\ \A i \in 1 .. Len(readyReq) : Awaited(readyReq[i])'
    BY <1>2, <1>3 DEF RequestInv, WaitersMatch
  <2> QED
    BY <2>1 DEF RequestInv, WaitersMatch
<1>5. Waiters' = Waiters
  BY DEF Waiters
<1> QED
  BY <1>1, <1>4, <1>5 DEF RequestInv

\* A grant: the n-th request moves to the front of those to be completed.
LEMMA RequestGranted ==
  ASSUME RequestInv, CacheTypeOK, NEW n \in 1 .. Len(pendReq),
         pendReq' = RemoveAt(pendReq, n),
         readyReq' = <<pendReq[n]>> \o readyReq,
         UNCHANGED core
  PROVE  RequestInv' /\ pendReq' \in Seq(PendingRequest)
         /\ readyReq' \in Seq(PendingRequest)
<1> DEFINE len == Len(pendReq)
           ready == Len(readyReq)
           Skip(i) == IF i < n THEN i ELSE i + 1
<1>0. /\ pendReq \in Seq(PendingRequest) /\ readyReq \in Seq(PendingRequest)
      /\ len \in Nat /\ ready \in Nat /\ pendReq[n] \in PendingRequest
  BY DEF CacheTypeOK
<1>1. /\ pendReq' \in Seq(PendingRequest)
      /\ Len(pendReq') = len - 1
      /\ \A i \in 1 .. len - 1 :
           pendReq'[i] = IF i < n THEN pendReq[i] ELSE pendReq[i + 1]
  BY <1>0, RemoveAtProperties
<1>2. /\ readyReq' \in Seq(PendingRequest)
      /\ Len(readyReq') = ready + 1
      /\ \A i \in 1 .. ready + 1 :
           readyReq'[i] = IF i = 1 THEN pendReq[n] ELSE readyReq[i - 1]
  BY <1>0, ConsProperties
<1>3. \A i \in 1 .. len - 1 :
        /\ Skip(i) \in 1 .. len /\ Skip(i) # n
        /\ pendReq'[i] = pendReq[Skip(i)]
  BY <1>1
<1>4. \A i, j \in 1 .. len - 1 : Skip(i) = Skip(j) => i = j
  OBVIOUS
<1>5. \A j \in 1 .. len : j # n => \E i \in 1 .. len - 1 : Skip(i) = j
  <2> SUFFICES ASSUME NEW j \in 1 .. len, j # n
               PROVE  \E i \in 1 .. len - 1 : Skip(i) = j
    OBVIOUS
  <2>1. CASE j < n
    <3>1. j \in 1 .. len - 1 /\ Skip(j) = j
      BY <2>1
    <3> QED
      BY <3>1
  <2>2. CASE j > n
    <3>1. j - 1 \in 1 .. len - 1 /\ Skip(j - 1) = j
      BY <2>2
    <3> QED
      BY <3>1
  <2> QED
    BY <2>1, <2>2
<1>6. \A i \in 1 .. ready + 1 :
        \/ i = 1 /\ readyReq'[i] = pendReq[n]
        \/ i - 1 \in 1 .. ready /\ readyReq'[i] = readyReq[i - 1]
  BY <1>2
<1>7. /\ readyReq'[1] = pendReq[n]
      /\ \A i \in 1 .. ready : i + 1 \in 1 .. ready + 1
                               /\ readyReq'[i + 1] = readyReq[i]
  BY <1>0, <1>2
<1> HIDE DEF Skip
<1>8. OneEach'
  <2>1. \A i, j \in 1 .. len - 1 :
          pendReq'[i].procNum = pendReq'[j].procNum => i = j
    <3> SUFFICES ASSUME NEW i \in 1 .. len - 1, NEW j \in 1 .. len - 1,
                        pendReq'[i].procNum = pendReq'[j].procNum
                 PROVE  i = j
      OBVIOUS
    <3>1. /\ Skip(i) \in 1 .. len /\ Skip(j) \in 1 .. len
          /\ pendReq[Skip(i)].procNum = pendReq[Skip(j)].procNum
      BY <1>3
    <3>2. Skip(i) = Skip(j)
      BY <3>1 DEF RequestInv, OneEach
    <3> QED
      BY <1>4, <3>2
  <2>2. \A i, j \in 1 .. ready + 1 :
          readyReq'[i].procNum = readyReq'[j].procNum => i = j
    <3> SUFFICES ASSUME NEW i \in 1 .. ready + 1, NEW j \in 1 .. ready + 1,
                        readyReq'[i].procNum = readyReq'[j].procNum
                 PROVE  i = j
      OBVIOUS
    <3>1. CASE i = 1 /\ j = 1
      BY <3>1
    <3>2. CASE i = 1 /\ j - 1 \in 1 .. ready /\ readyReq'[j] = readyReq[j - 1]
      BY <1>7, <3>2 DEF RequestInv, OneEach
    <3>3. CASE j = 1 /\ i - 1 \in 1 .. ready /\ readyReq'[i] = readyReq[i - 1]
      BY <1>7, <3>3 DEF RequestInv, OneEach
    <3>4. CASE /\ i - 1 \in 1 .. ready /\ readyReq'[i] = readyReq[i - 1]
               /\ j - 1 \in 1 .. ready /\ readyReq'[j] = readyReq[j - 1]
      <4>1. i - 1 = j - 1
        BY <3>4 DEF RequestInv, OneEach
      <4> QED
        BY <1>0, <4>1
    <3> QED
      BY <1>6, <3>1, <3>2, <3>3, <3>4
  <2>3. \A i \in 1 .. len - 1, j \in 1 .. ready + 1 :
          pendReq'[i].procNum # readyReq'[j].procNum
    <3> SUFFICES ASSUME NEW i \in 1 .. len - 1, NEW j \in 1 .. ready + 1
                 PROVE  pendReq'[i].procNum # readyReq'[j].procNum
      OBVIOUS
    <3>1. /\ Skip(i) \in 1 .. len /\ Skip(i) # n
          /\ pendReq'[i] = pendReq[Skip(i)]
      BY <1>3
    <3> QED
      BY <1>6, <3>1 DEF RequestInv, OneEach
  <2>4. Len(pendReq') = len - 1 /\ Len(readyReq') = ready + 1
    BY <1>1, <1>2
  <2> QED
    BY <2>1, <2>2, <2>3, <2>4 DEF OneEach
<1>9. WaitersMatch'
  <2>1. \A r : Awaited(r)' <=> Awaited(r)
    BY DEF Awaited
  <2>2. \A i \in 1 .. len - 1 : Awaited(pendReq'[i])
    BY <1>3 DEF RequestInv, WaitersMatch
  <2>3. \A i \in 1 .. ready + 1 : Awaited(readyReq'[i])
    BY <1>6 DEF RequestInv, WaitersMatch
  <2>4. ASSUME NEW p \in Procs, core[p].pendingMem
        PROVE  \/ \E i \in 1 .. len - 1 : pendReq'[i].procNum = p
               \/ \E i \in 1 .. ready + 1 : readyReq'[i].procNum = p
    <3>1. CASE \E i \in 1 .. len : pendReq[i].procNum = p
      <4>1. PICK i \in 1 .. len : pendReq[i].procNum = p
        BY <3>1
      <4>2. CASE i = n
        BY <1>0, <1>7, <4>1, <4>2
      <4>3. CASE i # n
        BY <1>3, <1>5, <4>1, <4>3
      <4> QED
        BY <4>2, <4>3
    <3>2. CASE \E i \in 1 .. ready : readyReq[i].procNum = p
      BY <1>7, <3>2
    <3> QED
      BY <2>4, <3>1, <3>2 DEF RequestInv, WaitersMatch
  <2> QED
    BY <1>1, <1>2, <2>1, <2>2, <2>3, <2>4 DEF WaitersMatch
<1>10. Cardinality(Waiters)' = Len(pendReq)' + Len(readyReq)'
  <2>1. Waiters' = Waiters
    BY DEF Waiters
  <2>2. (len - 1) + (ready + 1) = len + ready
    BY <1>0
  <2> QED
    BY <1>1, <1>2, <2>1, <2>2 DEF RequestInv
<1> QED
  BY <1>1, <1>2, <1>8, <1>9, <1>10 DEF RequestInv

\* An element put in front: where the elements of the list are now.
LEMMA ConsPlaces ==
  ASSUME NEW T, NEW s \in Seq(T), NEW x \in T
  PROVE  LET t == <<x>> \o s
         IN /\ t \in Seq(T) /\ Len(t) = Len(s) + 1
            /\ 1 \in 1 .. Len(t) /\ t[1] = x
            /\ \A i \in 1 .. Len(t) :
                 i = 1 \/ (i - 1 \in 1 .. Len(s) /\ t[i] = s[i - 1])
            /\ \A i \in 1 .. Len(s) : i + 1 \in 1 .. Len(t) /\ t[i + 1] = s[i]
<1> DEFINE t == <<x>> \o s
<1>1. /\ t \in Seq(T) /\ Len(t) = Len(s) + 1
      /\ \A i \in 1 .. Len(s) + 1 : t[i] = IF i = 1 THEN x ELSE s[i - 1]
  BY ConsProperties
<1>2. Len(s) \in Nat
  OBVIOUS
<1> HIDE DEF t
<1>3. /\ 1 \in 1 .. Len(t) /\ t[1] = x
      /\ \A i \in 1 .. Len(t) :
           i = 1 \/ (i - 1 \in 1 .. Len(s) /\ t[i] = s[i - 1])
      /\ \A i \in 1 .. Len(s) : i + 1 \in 1 .. Len(t) /\ t[i + 1] = s[i]
  BY <1>1, <1>2
<1> QED
  BY <1>1, <1>3 DEF t

\* A core that waited for nothing makes a request, which one of the two
\* lists gets.
LEMMA RequestMade ==
  ASSUME RequestInv, CacheTypeOK, ProcessorTypeOK, NEW p \in Procs,
         ~core[p].pendingMem, core' = [core EXCEPT ![p].pendingMem = TRUE],
         NEW r \in PendingRequest, r.procNum = p,
         r.tag = makeTag(p, core[p].memOpTag),
         \/ pendReq' = <<r>> \o pendReq /\ readyReq' = readyReq
         \/ readyReq' = <<r>> \o readyReq /\ pendReq' = pendReq
  PROVE  RequestInv' /\ pendReq' \in Seq(PendingRequest)
         /\ readyReq' \in Seq(PendingRequest)
<1> DEFINE AwaitedNext(s) ==
             /\ core'[s.procNum].pendingMem
             /\ s.tag = makeTag(s.procNum, core'[s.procNum].memOpTag)
<1>0. /\ pendReq \in Seq(PendingRequest) /\ readyReq \in Seq(PendingRequest)
      /\ Len(pendReq) \in Nat /\ Len(readyReq) \in Nat
  BY DEF CacheTypeOK
<1>1. /\ \A i \in 1 .. Len(pendReq) : pendReq[i].procNum # p
      /\ \A i \in 1 .. Len(readyReq) : readyReq[i].procNum # p
  BY DEF RequestInv, WaitersMatch, Awaited
<1>2. core \in [Procs -> CoreRecord]
  BY DEF ProcessorTypeOK, CoreRecord
<1>3. /\ \A q \in Procs : core'[q].pendingMem = (q = p \/ core[q].pendingMem)
      /\ \A q \in Procs : core'[q].memOpTag = core[q].memOpTag
  BY <1>2 DEF CoreRecord
<1>4. \A s \in PendingRequest : Awaited(s) => AwaitedNext(s)
  BY <1>3 DEF Awaited, PendingRequest
<1>5. AwaitedNext(r)
  BY <1>3
<1> HIDE DEF AwaitedNext
<1>6. Cardinality(Waiters)' = Cardinality(Waiters) + 1
  <2>1. Waiters' = Waiters \cup {p} /\ p \notin Waiters
    BY <1>3 DEF Waiters
  <2> QED
    BY <2>1, WaitersFinite, FS_AddElement
<1>7. CASE pendReq' = <<r>> \o pendReq /\ readyReq' = readyReq
  <2>1. /\ pendReq' \in Seq(PendingRequest) /\ Len(pendReq') = Len(pendReq) + 1
        /\ 1 \in 1 .. Len(pendReq') /\ pendReq'[1] = r
        /\ \A i \in 1 .. Len(pendReq') :
             \/ i = 1
             \/ i - 1 \in 1 .. Len(pendReq) /\ pendReq'[i] = pendReq[i - 1]
        /\ \A i \in 1 .. Len(pendReq) :
             i + 1 \in 1 .. Len(pendReq') /\ pendReq'[i + 1] = pendReq[i]
    BY <1>0, <1>7, ConsPlaces
  <2>2. readyReq' = readyReq
    BY <1>7
  <2>3. \A i \in 1 .. Len(pendReq') :
          \/ i = 1 /\ pendReq'[i].procNum = p
          \/ /\ i - 1 \in 1 .. Len(pendReq) /\ pendReq'[i] = pendReq[i - 1]
             /\ pendReq'[i].procNum # p
    BY <1>1, <2>1
  <2>4. OneEach'
    <3>1. ASSUME NEW i \in 1 .. Len(pendReq'), NEW j \in 1 .. Len(pendReq'),
                 pendReq'[i].procNum = pendReq'[j].procNum
          PROVE  i = j
      <4>1. CASE pendReq'[i].procNum = p
        BY <2>3, <3>1, <4>1
      <4>2. CASE pendReq'[i].procNum # p
        <5>1. /\ i - 1 \in 1 .. Len(pendReq) /\ pendReq'[i] = pendReq[i - 1]
              /\ j - 1 \in 1 .. Len(pendReq) /\ pendReq'[j] = pendReq[j - 1]
          BY <2>3, <3>1, <4>2
        <5>2. i - 1 = j - 1
          BY <3>1, <5>1 DEF RequestInv, OneEach
        <5> QED
          BY <5>2
      <4> QED
        BY <4>1, <4>2
    <3>2. ASSUME NEW i \in 1 .. Len(pendReq'), NEW j \in 1 .. Len(readyReq)
          PROVE  pendReq'[i].procNum # readyReq[j].procNum
      <4>1. CASE pendReq'[i].procNum = p
        BY <1>1, <4>1
      <4>2. CASE pendReq'[i].procNum # p
        <5>1. i - 1 \in 1 .. Len(pendReq) /\ pendReq'[i] = pendReq[i - 1]
          BY <2>3, <4>2
        <5> QED
          BY <5>1 DEF RequestInv, OneEach
      <4> QED
        BY <4>1, <4>2
    <3> QED
      BY <2>2, <3>1, <3>2 DEF RequestInv, OneEach
  <2>5. WaitersMatch'
    <3>1. ASSUME NEW i \in 1 .. Len(pendReq')
          PROVE  AwaitedNext(pendReq'[i])
      <4>1. CASE i = 1
        BY <1>5, <2>1, <4>1
      <4>2. CASE i # 1
        <5>1. PICK j \in 1 .. Len(pendReq) : pendReq'[i] = pendReq[j]
          BY <2>1, <4>2
        <5>2. pendReq[j] \in PendingRequest /\ Awaited(pendReq[j])
          BY <1>0 DEF RequestInv, WaitersMatch
        <5> QED
          BY <1>4, <5>1, <5>2
      <4> QED
        BY <4>1, <4>2
    <3>2. ASSUME NEW i \in 1 .. Len(readyReq)
          PROVE  AwaitedNext(readyReq[i])
      <4>1. readyReq[i] \in PendingRequest /\ Awaited(readyReq[i])
        BY <1>0 DEF RequestInv, WaitersMatch
      <4> QED
        BY <1>4, <4>1
    <3>3. ASSUME NEW q \in Procs, core'[q].pendingMem
          PROVE  \/ \E i \in 1 .. Len(pendReq') : pendReq'[i].procNum = q
                 \/ \E i \in 1 .. Len(readyReq) : readyReq[i].procNum = q
      <4>1. q = p \/ core[q].pendingMem
        BY <1>3, <3>3
      <4>2. CASE q = p
        BY <2>1, <4>2
      <4>3. CASE \E i \in 1 .. Len(pendReq) : pendReq[i].procNum = q
        <5>1. PICK i \in 1 .. Len(pendReq) : pendReq[i].procNum = q
          BY <4>3
        <5> QED
          BY <2>1, <5>1
      <4>4. CASE \E i \in 1 .. Len(readyReq) : readyReq[i].procNum = q
        BY <4>4
      <4> QED
        BY <4>1, <4>2, <4>3, <4>4 DEF RequestInv, WaitersMatch
    <3>4. (\A i \in 1 .. Len(pendReq) : Awaited(pendReq[i]))'
      BY <2>2, <3>1, <3>2 DEF Awaited, AwaitedNext
    <3>5. (\A i \in 1 .. Len(readyReq) : Awaited(readyReq[i]))'
      BY <2>2, <3>1, <3>2 DEF Awaited, AwaitedNext
    <3> QED
      BY <2>2, <3>3, <3>4, <3>5 DEF WaitersMatch
  <2> QED
    BY <1>0, <1>6, <2>1, <2>2, <2>4, <2>5 DEF RequestInv
<1>8. CASE readyReq' = <<r>> \o readyReq /\ pendReq' = pendReq
  <2>1. /\ readyReq' \in Seq(PendingRequest)
        /\ Len(readyReq') = Len(readyReq) + 1
        /\ 1 \in 1 .. Len(readyReq') /\ readyReq'[1] = r
        /\ \A i \in 1 .. Len(readyReq') :
             \/ i = 1
             \/ i - 1 \in 1 .. Len(readyReq) /\ readyReq'[i] = readyReq[i - 1]
        /\ \A i \in 1 .. Len(readyReq) :
             i + 1 \in 1 .. Len(readyReq') /\ readyReq'[i + 1] = readyReq[i]
    BY <1>0, <1>8, ConsPlaces
  <2>2. pendReq' = pendReq
    BY <1>8
  <2>3. \A i \in 1 .. Len(readyReq') :
          \/ i = 1 /\ readyReq'[i].procNum = p
          \/ /\ i - 1 \in 1 .. Len(readyReq) /\ readyReq'[i] = readyReq[i - 1]
             /\ readyReq'[i].procNum # p
    BY <1>1, <2>1
  <2>4. OneEach'
    <3>1. ASSUME NEW i \in 1 .. Len(readyReq'), NEW j \in 1 .. Len(readyReq'),
                 readyReq'[i].procNum = readyReq'[j].procNum
          PROVE  i = j
      <4>1. CASE readyReq'[i].procNum = p
        BY <2>3, <3>1, <4>1
      <4>2. CASE readyReq'[i].procNum # p
        <5>1. /\ i - 1 \in 1 .. Len(readyReq) /\ readyReq'[i] = readyReq[i - 1]
              /\ j - 1 \in 1 .. Len(readyReq) /\ readyReq'[j] = readyReq[j - 1]
          BY <2>3, <3>1, <4>2
        <5>2. i - 1 = j - 1
          BY <3>1, <5>1 DEF RequestInv, OneEach
        <5> QED
          BY <5>2
      <4> QED
        BY <4>1, <4>2
    <3>2. ASSUME NEW i \in 1 .. Len(pendReq), NEW j \in 1 .. Len(readyReq')
          PROVE  pendReq[i].procNum # readyReq'[j].procNum
      <4>1. CASE readyReq'[j].procNum = p
        BY <1>1, <4>1
      <4>2. CASE readyReq'[j].procNum # p
        <5>1. j - 1 \in 1 .. Len(readyReq) /\ readyReq'[j] = readyReq[j - 1]
          BY <2>3, <4>2
        <5> QED
          BY <5>1 DEF RequestInv, OneEach
      <4> QED
        BY <4>1, <4>2
    <3> QED
      BY <2>2, <3>1, <3>2 DEF RequestInv, OneEach
  <2>5. WaitersMatch'
    <3>1. ASSUME NEW i \in 1 .. Len(readyReq')
          PROVE  AwaitedNext(readyReq'[i])
      <4>1. CASE i = 1
        BY <1>5, <2>1, <4>1
      <4>2. CASE i # 1
        <5>1. PICK j \in 1 .. Len(readyReq) : readyReq'[i] = readyReq[j]
          BY <2>1, <4>2
        <5>2. readyReq[j] \in PendingRequest /\ Awaited(readyReq[j])
          BY <1>0 DEF RequestInv, WaitersMatch
        <5> QED
          BY <1>4, <5>1, <5>2
      <4> QED
        BY <4>1, <4>2
    <3>2. ASSUME NEW i \in 1 .. Len(pendReq)
          PROVE  AwaitedNext(pendReq[i])
      <4>1. pendReq[i] \in PendingRequest /\ Awaited(pendReq[i])
        BY <1>0 DEF RequestInv, WaitersMatch
      <4> QED
        BY <1>4, <4>1
    <3>3. ASSUME NEW q \in Procs, core'[q].pendingMem
          PROVE  \/ \E i \in 1 .. Len(pendReq) : pendReq[i].procNum = q
                 \/ \E i \in 1 .. Len(readyReq') : readyReq'[i].procNum = q
      <4>1. q = p \/ core[q].pendingMem
        BY <1>3, <3>3
      <4>2. CASE q = p
        BY <2>1, <4>2
      <4>3. CASE \E i \in 1 .. Len(pendReq) : pendReq[i].procNum = q
        BY <4>3
      <4>4. CASE \E i \in 1 .. Len(readyReq) : readyReq[i].procNum = q
        <5>1. PICK i \in 1 .. Len(readyReq) : readyReq[i].procNum = q
          BY <4>4
        <5> QED
          BY <2>1, <5>1
      <4> QED
        BY <4>1, <4>2, <4>3, <4>4 DEF RequestInv, WaitersMatch
    <3>4. (\A i \in 1 .. Len(pendReq) : Awaited(pendReq[i]))'
      BY <2>2, <3>1, <3>2 DEF Awaited, AwaitedNext
    <3>5. (\A i \in 1 .. Len(readyReq) : Awaited(readyReq[i]))'
      BY <2>2, <3>1, <3>2 DEF Awaited, AwaitedNext
    <3> QED
      BY <2>2, <3>3, <3>4, <3>5 DEF WaitersMatch
  <2> QED
    BY <1>0, <1>6, <2>1, <2>2, <2>4, <2>5 DEF RequestInv
<1> QED
  BY <1>7, <1>8

\* The tag of the request completed is that of the operation its core waits
\* for, so memOpCallback ends that wait and no other.
LEMMA RequestCompleted ==
  ASSUME RequestInv, CacheTypeOK, ProcessorTypeOK, readyReq # <<>>,
         core' = memOpCallback(core, Head(readyReq).procNum,
                               Head(readyReq).tag),
         readyReq' = Tail(readyReq), UNCHANGED pendReq
  PROVE  RequestInv' /\ readyReq' \in Seq(PendingRequest)
         /\ core' \in [Procs -> CoreRecord]
<1> DEFINE p == Head(readyReq).procNum
           len == Len(readyReq)
           AwaitedNext(s) ==
             /\ core'[s.procNum].pendingMem
             /\ s.tag = makeTag(s.procNum, core'[s.procNum].memOpTag)
<1>0. /\ pendReq \in Seq(PendingRequest) /\ readyReq \in Seq(PendingRequest)
      /\ core \in [Procs -> CoreRecord]
  BY DEF CacheTypeOK, ProcessorTypeOK, CoreRecord
<1>1. /\ len \in Nat \ {0} /\ Head(readyReq) = readyReq[1]
      /\ readyReq' \in Seq(PendingRequest) /\ Len(readyReq') = len - 1
      /\ \A i \in 1 .. len - 1 : readyReq'[i] = readyReq[i + 1]
      /\ Head(readyReq) \in PendingRequest
  BY <1>0, HeadTailProperties
<1>2. p \in Procs
  BY <1>1 DEF PendingRequest
<1>3. core[p].pendingMem /\ Head(readyReq).tag = makeTag(p, core[p].memOpTag)
  BY <1>1 DEF RequestInv, WaitersMatch, Awaited
<1>4. core' = [core EXCEPT ![p].memOpTag = @ + 1, ![p].pendingMem = FALSE]
  <2>1. core[p].memOpTag \in Nat
    BY <1>0, <1>2 DEF CoreRecord
  <2>2. BaseTag(Head(readyReq).tag) = core[p].memOpTag
    BY <1>2, <1>3, <2>1, BaseTagOfMake
  <2> QED
    BY <2>2 DEF memOpCallback
<1>5. core' \in [Procs -> CoreRecord]
  <2> DEFINE done == [core[p] EXCEPT !.memOpTag = @ + 1, !.pendingMem = FALSE]
  <2>1. core' = [core EXCEPT ![p] = done]
    BY <1>4
  <2>2. core[p] \in CoreRecord
    BY <1>0, <1>2
  <2>3. done \in CoreRecord
    BY <2>2, CoreUpdates
  <2> HIDE DEF done
  <2> QED
    BY <1>0, <1>2, <2>1, <2>3
<1>6. /\ ~core'[p].pendingMem
      /\ \A q \in Procs : q # p => core'[q] = core[q]
  BY <1>0, <1>2, <1>4 DEF CoreRecord
<1>7. /\ \A i \in 1 .. len : readyReq[i].procNum = p => i = 1
      /\ \A i \in 1 .. Len(pendReq) : pendReq[i].procNum # p
  BY <1>1 DEF RequestInv, OneEach
<1>8. \A s \in PendingRequest : Awaited(s) /\ s.procNum # p => AwaitedNext(s)
  BY <1>6 DEF Awaited, PendingRequest
<1>9. \A i \in 1 .. len - 1 :
        i + 1 \in 1 .. len /\ readyReq'[i] = readyReq[i + 1]
        /\ readyReq'[i].procNum # p
  BY <1>1, <1>7
<1> HIDE DEF AwaitedNext
<1>10. OneEach'
  <2>1. ASSUME NEW i \in 1 .. len - 1, NEW j \in 1 .. len - 1,
               readyReq'[i].procNum = readyReq'[j].procNum
        PROVE  i = j
    <3>1. i + 1 = j + 1
      BY <1>9, <2>1 DEF RequestInv, OneEach
    <3> QED
      BY <3>1
  <2>2. \A i \in 1 .. Len(pendReq), j \in 1 .. len - 1 :
          pendReq[i].procNum # readyReq'[j].procNum
    BY <1>9 DEF RequestInv, OneEach
  <2> QED
    BY <1>1, <2>1, <2>2 DEF RequestInv, OneEach
<1>11. WaitersMatch'
  <2>1. ASSUME NEW i \in 1 .. Len(pendReq)
        PROVE  AwaitedNext(pendReq[i])
    <3>1. pendReq[i] \in PendingRequest /\ Awaited(pendReq[i])
          /\ pendReq[i].procNum # p
      BY <1>0, <1>7 DEF RequestInv, WaitersMatch
    <3> QED
      BY <1>8, <3>1
  <2>2. ASSUME NEW i \in 1 .. len - 1
        PROVE  AwaitedNext(readyReq'[i])
    <3>1. PICK j \in 1 .. len : readyReq'[i] = readyReq[j]
      BY <1>9
    <3>2. readyReq[j] \in PendingRequest /\ Awaited(readyReq[j])
          /\ readyReq[j].procNum # p
      BY <1>0, <1>9, <3>1 DEF RequestInv, WaitersMatch
    <3> QED
      BY <1>8, <3>1, <3>2
  <2>3. ASSUME NEW q \in Procs, core'[q].pendingMem
        PROVE  \/ \E i \in 1 .. Len(pendReq) : pendReq[i].procNum = q
               \/ \E i \in 1 .. len - 1 : readyReq'[i].procNum = q
    <3>1. q # p /\ core[q].pendingMem
      BY <1>6, <2>3
    <3>2. CASE \E i \in 1 .. len : readyReq[i].procNum = q
      <4>1. PICK i \in 1 .. len : readyReq[i].procNum = q
        BY <3>2
      <4>2. i # 1
        BY <1>1, <3>1, <4>1
      <4>3. i - 1 \in 1 .. len - 1 /\ (i - 1) + 1 = i
        BY <1>1, <4>2
      <4>4. readyReq'[i - 1] = readyReq[i]
        BY <1>1, <4>3
      <4> QED
        BY <4>1, <4>3, <4>4
    <3> QED
      BY <3>1, <3>2 DEF RequestInv, WaitersMatch
  <2> QED
    BY <1>1, <2>1, <2>2, <2>3 DEF WaitersMatch, Awaited, AwaitedNext
<1>12. Cardinality(Waiters)' = Len(pendReq)' + Len(readyReq)'
  <2>1. Waiters' = Waiters \ {p} /\ p \in Waiters
    BY <1>2, <1>3, <1>6 DEF Waiters
  <2>2. Cardinality(Waiters') = Cardinality(Waiters) - 1
    BY <2>1, WaitersFinite, FS_RemoveElement
  <2>3. Len(pendReq) \in Nat
    BY <1>0
  <2> QED
    BY <1>1, <2>2, <2>3 DEF RequestInv
<1> QED
  BY <1>1, <1>5, <1>10, <1>11, <1>12 DEF RequestInv

\* What the invariant says of a core, as OneRequestPerCore states it.
LEMMA RequestsOfCore ==
  ASSUME RequestInv, CacheTypeOK
  PROVE  OneRequestPerCore
<1>0. /\ pendReq \in Seq(PendingRequest) /\ readyReq \in Seq(PendingRequest)
      /\ Range(pendReq) = {pendReq[i] : i \in 1 .. Len(pendReq)}
      /\ Range(readyReq) = {readyReq[i] : i \in 1 .. Len(readyReq)}
  BY DEF CacheTypeOK, Range
<1>1. ASSUME NEW p \in Procs, core[p].pendingMem
      PROVE  \E r \in RequestsOf(p) :
               RequestsOf(p) = {r} /\ r.tag = makeTag(p, core[p].memOpTag)
  <2>1. CASE \E i \in 1 .. Len(pendReq) : pendReq[i].procNum = p
    <3>1. PICK i \in 1 .. Len(pendReq) : pendReq[i].procNum = p
      BY <2>1
    <3>2. RequestsOf(p) = {pendReq[i]}
      BY <1>0, <3>1 DEF RequestsOf, RequestInv, OneEach
    <3>3. pendReq[i].tag = makeTag(p, core[p].memOpTag)
      BY <3>1 DEF RequestInv, WaitersMatch, Awaited
    <3> QED
      BY <3>2, <3>3
  <2>2. CASE \E i \in 1 .. Len(readyReq) : readyReq[i].procNum = p
    <3>1. PICK i \in 1 .. Len(readyReq) : readyReq[i].procNum = p
      BY <2>2
    <3>2. RequestsOf(p) = {readyReq[i]}
      BY <1>0, <3>1 DEF RequestsOf, RequestInv, OneEach
    <3>3. readyReq[i].tag = makeTag(p, core[p].memOpTag)
      BY <3>1 DEF RequestInv, WaitersMatch, Awaited
    <3> QED
      BY <3>2, <3>3
  <2> QED
    BY <1>1, <2>1, <2>2 DEF RequestInv, WaitersMatch
<1>2. ASSUME NEW p \in Procs, ~core[p].pendingMem
      PROVE  RequestsOf(p) = {}
  <2>1. /\ \A i \in 1 .. Len(pendReq) : pendReq[i].procNum # p
        /\ \A i \in 1 .. Len(readyReq) : readyReq[i].procNum # p
    BY <1>2 DEF RequestInv, WaitersMatch, Awaited
  <2> QED
    BY <1>0, <2>1 DEF RequestsOf
<1> QED
  BY <1>1, <1>2 DEF OneRequestPerCore, RequestInv, Waiters

-----------------------------------------------------------------------------
(***************************************************************************)
(* The trace reader.                                                       *)
(***************************************************************************)

\* BoundedSeq(S, n) is the sequences over S of length at most n.
LEMMA BoundedSeqIs ==
  ASSUME NEW S, NEW n \in Nat
  PROVE  \A s : s \in BoundedSeq(S, n) <=> s \in Seq(S) /\ Len(s) <= n
<1>1. ASSUME NEW s \in BoundedSeq(S, n) PROVE s \in Seq(S) /\ Len(s) <= n
  <2>1. PICK m \in 0 .. n : s \in [1 .. m -> S]
    BY DEF BoundedSeq, SeqOf
  <2>2. s \in Seq(S) /\ Len(s) = m
    BY <2>1
  <2> QED
    BY <2>1, <2>2
<1>2. ASSUME NEW s \in Seq(S), Len(s) <= n PROVE s \in BoundedSeq(S, n)
  <2>1. Len(s) \in 0 .. n /\ s \in [1 .. Len(s) -> S]
    BY <1>2
  <2> QED
    BY <2>1 DEF BoundedSeq, SeqOf
<1> QED
  BY <1>1, <1>2

\* What the iterator leaves of a task is a task, or nothing.
LEMMA NextMemOpBounded ==
  ASSUME NEW s \in BoundedSeq(Actions, TaskLength), s # <<>>
  PROVE  NextMemOp(s) \in BoundedSeq(Actions, TaskLength)
<1> DEFINE t == Tail(s)
           I == {i \in 1 .. Len(t) : t[i] = "memOp"}
           next == SelectInSeq(t, LAMBDA a : a = "memOp")
<1>1. s \in Seq(Actions) /\ Len(s) <= TaskLength
  BY BoundedSeqIs, TaskLengthAssumption
<1>2. t \in Seq(Actions) /\ Len(t) = Len(s) - 1 /\ Len(s) \in Nat \ {0}
  BY <1>1, HeadTailProperties
<1>3. next = IF I # {} THEN Min(I) ELSE 0
  BY DEF SelectInSeq
<1>4. CASE I # {}
  <2>1. I \in SUBSET Nat
    OBVIOUS
  <2>2. Min(I) \in I
    <3> HIDE DEF I
    <3> QED
      BY <1>4, <2>1, MinOfNaturals
  <2>3. next \in 1 .. Len(t)
    BY <1>3, <1>4, <2>2
  <2> HIDE DEF t, I, next
  <2>4. /\ SubSeq(t, next, Len(t)) \in Seq(Actions)
        /\ Len(SubSeq(t, next, Len(t))) <= Len(t)
    BY <1>2, <2>3, SubSeqProperties
  <2>5. NextMemOp(s) = SubSeq(t, next, Len(t))
    <3>1. next # 0 /\ Len(s) - 1 = Len(t)
      BY <1>2, <2>3
    <3> QED
      BY <3>1 DEF NextMemOp, t, next
  <2>6. NextMemOp(s) \in Seq(Actions) /\ Len(NextMemOp(s)) <= TaskLength
    BY <1>1, <1>2, <2>4, <2>5, TaskLengthAssumption
  <2> QED
    BY <2>6, BoundedSeqIs, TaskLengthAssumption
<1>5. CASE I = {}
  <2>1. NextMemOp(s) = <<>>
    BY <1>3, <1>5 DEF NextMemOp
  <2>2. <<>> \in Seq(Actions) /\ Len(<<>>) <= TaskLength
    BY TaskLengthAssumption
  <2> QED
    BY <2>1, <2>2, BoundedSeqIs, TaskLengthAssumption
<1> QED
  BY <1>4, <1>5

\* What the reader assigns to a processor's trace.
LEMMA ReaderUpdates ==
  ASSUME NEW c \in Reader
  PROVE  /\ [c EXCEPT !.open = TRUE] \in Reader
         /\ \A n \in 0 .. TraceLength :
              [c EXCEPT !.open = TRUE, !.left = n] \in Reader
         /\ \A s \in BoundedSeq(Actions, TaskLength) :
              [c EXCEPT !.actions = s] \in Reader
BY DEF Reader

\* What is left of a context when some of its tasks are passed.
LEMMA PassesTasks ==
  ASSUME NEW c \in Reader, NEW n \in 0 .. c.left
  PROVE  /\ Passes(c, n) \in Reader
         /\ Passes(c, n).left = c.left - n
         /\ Passes(c, n).isComplete = c.isComplete
<1>1. c.left \in 0 .. TraceLength
  BY DEF Reader
<1>2. c.left - n \in 0 .. TraceLength
  BY <1>1, TraceLengthAssumption
<1> QED
  BY <1>2 DEF Reader, Passes

\* A context that ends, or goes on to a task.
LEMMA ContextIs ==
  ASSUME NEW c \in Reader
  PROVE  /\ <<>> \in BoundedSeq(Actions, TaskLength) =>
              /\ ContextEnds(c) \in Reader
              /\ ContextEnds(c).isComplete /\ ContextEnds(c).actions = <<>>
              /\ ContextEnds(c).left = c.left
         /\ \A s \in BoundedSeq(Actions, TaskLength) :
              c.left > 0 =>
                /\ TaskStarts(c, s) \in Reader
                /\ TaskStarts(c, s).isComplete = c.isComplete
                /\ TaskStarts(c, s).actions = s
<1>1. c.left \in 0 .. TraceLength
  BY DEF Reader
<1>2. c.left > 0 => c.left - 1 \in 0 .. TraceLength
  BY <1>1, TraceLengthAssumption
<1>3. ASSUME <<>> \in BoundedSeq(Actions, TaskLength)
      PROVE  /\ ContextEnds(c) \in Reader
             /\ ContextEnds(c).isComplete /\ ContextEnds(c).actions = <<>>
             /\ ContextEnds(c).left = c.left
  BY <1>3 DEF Reader, ContextEnds
<1>4. ASSUME NEW s \in BoundedSeq(Actions, TaskLength), c.left > 0
      PROVE  /\ TaskStarts(c, s) \in Reader
             /\ TaskStarts(c, s).isComplete = c.isComplete
             /\ TaskStarts(c, s).actions = s
  BY <1>2, <1>4 DEF Reader, TaskStarts
<1> QED
  BY <1>3, <1>4

\* A text: an item is read, or there is none.
LEMMA TextReads ==
  ASSUME ReaderTypeOK, ReaderInv, NEW p \in Procs, NEW op, textNextOp(p, op),
         input.format # "taskgraph"
  PROVE  \E c \in Reader :
           /\ trace' = [trace EXCEPT ![p] = c]
           /\ Readable(p, c)
           /\ op = NULL /\ input.clean => c.left = 0
<1>1. /\ trace \in [Procs -> Reader] /\ trace[p] \in Reader
      /\ Readable(p, trace[p])
  BY DEF ReaderTypeOK, ReaderInv
<1>2. CASE op = NULL /\ NoFile(p)
  <2>1. trace' = [trace EXCEPT ![p] = trace[p]]
    BY <1>1, <1>2 DEF NoFile
  <2>2. trace[p].left = 0
    BY <1>1, <1>2 DEF NoFile, Readable
  <2> QED
    BY <1>1, <2>1, <2>2
<1>3. CASE op = NULL /\ EndOfFile(p)
  <2> DEFINE c == [trace[p] EXCEPT !.open = TRUE]
  <2>1. trace' = [trace EXCEPT ![p] = c] /\ trace[p].left = 0
    BY <1>3 DEF EndOfFile
  <2>2. c \in Reader
    BY <1>1, ReaderUpdates
  <2>3. /\ c.left = trace[p].left /\ c.actions = trace[p].actions
        /\ c.isComplete = trace[p].isComplete /\ c.open
    BY <1>1 DEF Reader
  <2>4. Readable(p, c)
    BY <1>1, <2>3 DEF Readable
  <2> QED
    BY <2>1, <2>2, <2>3, <2>4
<1>4. CASE (op # NULL \/ ~input.clean) /\ ReadsItem(p)
  <2> DEFINE n == trace[p].left - 1
             c == [trace[p] EXCEPT !.open = TRUE, !.left = n]
  <2>1. trace' = [trace EXCEPT ![p] = c] /\ trace[p].left > 0
    BY <1>4 DEF ReadsItem
  <2>2. n \in 0 .. TraceLength
    <3>1. trace[p].left \in 0 .. TraceLength
      BY <1>1 DEF Reader
    <3> QED
      BY <2>1, <3>1, TraceLengthAssumption
  <2>3. c \in Reader
    BY <1>1, <2>2, ReaderUpdates
  <2>4. /\ c.actions = trace[p].actions
        /\ c.isComplete = trace[p].isComplete /\ c.open
    BY <1>1 DEF Reader
  <2>5. Readable(p, c)
    BY <1>1, <2>4, input.format # "taskgraph" DEF Readable
  <2> QED
    BY <1>4, <2>1, <2>3, <2>5
<1> QED
  BY <1>2, <1>3, <1>4 DEF textNextOp

\* A context: an action is handed out, or it is complete.
LEMMA GraphReads ==
  ASSUME ReaderTypeOK, ReaderInv, NEW p \in Procs, NEW op, graphNextOp(p, op),
         input.format = "taskgraph"
  PROVE  \E c \in Reader :
           /\ trace' = [trace EXCEPT ![p] = c]
           /\ Readable(p, c)
           /\ op = NULL => c.isComplete
<1>1. /\ trace \in [Procs -> Reader] /\ trace[p] \in Reader
      /\ Readable(p, trace[p])
  BY DEF ReaderTypeOK, ReaderInv
<1>2. CASE trace[p].isComplete /\ UNCHANGED trace
  <2>1. trace' = [trace EXCEPT ![p] = trace[p]]
    BY <1>1, <1>2
  <2> QED
    BY <1>1, <1>2, <2>1
<1>3. CASE ~trace[p].isComplete
  <2>1. PICK c \in IF ~trace[p].t \/ trace[p].actions = <<>>
                     THEN updateContext(trace[p]) ELSE {trace[p]} :
          /\ op = IF c.isComplete THEN NULL ELSE "memory"
          /\ trace' = [trace EXCEPT ![p] =
                         IF c.isComplete THEN c
                         ELSE [c EXCEPT !.actions = NextMemOp(c.actions)]]
    BY <1>3 DEF graphNextOp
  <2>2. <<>> \in BoundedSeq(Actions, TaskLength)
    <3>1. <<>> \in Seq(Actions) /\ Len(<<>>) <= TaskLength
      BY TaskLengthAssumption
    <3> QED
      BY <3>1, BoundedSeqIs, TaskLengthAssumption
  <2>3. /\ c \in Reader
        /\ \/ c.isComplete /\ c.left = 0 /\ c.actions = <<>>
           \/ ~c.isComplete /\ c.actions # <<>>
    <3> DEFINE finished == ContextEnds(Passes(trace[p], trace[p].left))
               Started(skipped, actions) ==
                 TaskStarts(Passes(trace[p], skipped), actions)
    <3>1. updateContext(trace[p])
            = {finished} \cup {Started(skipped, actions) :
                                 skipped \in 0 .. (trace[p].left - 1),
                                 actions \in TaskActions}
      BY DEF updateContext
    <3>2. /\ finished \in Reader
          /\ finished.isComplete /\ finished.left = 0 /\ finished.actions = <<>>
      <4>1. trace[p].left \in 0 .. TraceLength
        BY <1>1 DEF Reader
      <4>2. trace[p].left \in 0 .. trace[p].left
        BY <4>1, TraceLengthAssumption
      <4>3. /\ Passes(trace[p], trace[p].left) \in Reader
            /\ Passes(trace[p], trace[p].left).left = trace[p].left - trace[p].left
        BY <1>1, <4>2, PassesTasks
      <4>4. trace[p].left - trace[p].left = 0
        BY <4>1, TraceLengthAssumption
      <4> QED
        BY <2>2, <4>3, <4>4, ContextIs DEF finished
    <3>3. ASSUME NEW skipped \in 0 .. (trace[p].left - 1),
                 NEW actions \in TaskActions
          PROVE  /\ Started(skipped, actions) \in Reader
                 /\ ~Started(skipped, actions).isComplete
                 /\ Started(skipped, actions).actions # <<>>
      <4>1. trace[p].left \in 0 .. TraceLength
        BY <1>1 DEF Reader
      <4>2. skipped \in 0 .. trace[p].left /\ trace[p].left - skipped > 0
        BY <4>1, TraceLengthAssumption
      <4>3. /\ Passes(trace[p], skipped) \in Reader
            /\ Passes(trace[p], skipped).left = trace[p].left - skipped
            /\ Passes(trace[p], skipped).isComplete = trace[p].isComplete
        BY <1>1, <4>2, PassesTasks
      <4>4. actions \in BoundedSeq(Actions, TaskLength) /\ actions # <<>>
        BY DEF TaskActions
      <4> QED
        BY <1>3, <4>2, <4>3, <4>4, ContextIs DEF Started
    <3> HIDE DEF finished, Started
    <3>4. CASE ~trace[p].t \/ trace[p].actions = <<>>
      <4>1. c \in updateContext(trace[p])
        BY <2>1, <3>4
      <4>2. CASE c = finished
        BY <3>2, <4>2
      <4>3. CASE c # finished
        <5>1. PICK skipped \in 0 .. (trace[p].left - 1),
                   actions \in TaskActions : c = Started(skipped, actions)
          BY <3>1, <4>1, <4>3
        <5> QED
          BY <3>3, <5>1
      <4> QED
        BY <4>2, <4>3
    <3>5. CASE ~(~trace[p].t \/ trace[p].actions = <<>>)
      <4>1. c = trace[p] /\ trace[p].actions # <<>>
        BY <2>1, <3>5
      <4> QED
        BY <1>1, <1>3, <4>1
    <3> QED
      BY <3>4, <3>5
  <2>4. CASE c.isComplete
    BY <2>1, <2>3, <2>4, input.format = "taskgraph" DEF Readable
  <2>5. CASE ~c.isComplete
    <3> DEFINE d == [c EXCEPT !.actions = NextMemOp(c.actions)]
    <3>1. c.actions \in BoundedSeq(Actions, TaskLength) /\ c.actions # <<>>
      BY <2>3, <2>5 DEF Reader
    <3>2. d \in Reader
      BY <2>3, <3>1, NextMemOpBounded, ReaderUpdates
    <3>3. d.isComplete = c.isComplete
      BY <2>3 DEF Reader
    <3>4. op # NULL /\ trace' = [trace EXCEPT ![p] = d]
      BY <2>1, <2>5, NoOpAssumption
    <3> QED
      BY <2>5, <3>2, <3>3, <3>4, input.format = "taskgraph" DEF Readable
  <2> QED
    BY <2>4, <2>5
<1> QED
  BY <1>2, <1>3 DEF graphNextOp

\* What every call of getNextOp keeps, and what it means when there is no
\* operation.
LEMMA NextOpReads ==
  ASSUME ReaderTypeOK, ReaderInv, NEW p \in Procs, NEW op, getNextOp(p, op)
  PROVE  /\ ReaderTypeOK' /\ ReaderInv'
         /\ \A q \in Procs : q # p => trace'[q] = trace[q]
         /\ op = NULL /\ input.clean => ReadToTheEnd(p)'
<1>1. input' = input
  BY DEF getNextOp
<1>2. PICK c \in Reader :
        /\ trace' = [trace EXCEPT ![p] = c]
        /\ Readable(p, c)
        /\ op = NULL /\ input.clean =>
             IF input.format = "taskgraph" THEN c.isComplete ELSE c.left = 0
  BY TextReads, GraphReads DEF getNextOp
<1>3. /\ trace' \in [Procs -> Reader] /\ trace'[p] = c
      /\ \A q \in Procs : q # p => trace'[q] = trace[q]
  BY <1>2 DEF ReaderTypeOK
<1>4. ReaderTypeOK'
  BY <1>1, <1>3 DEF ReaderTypeOK
<1>5. ReaderInv'
  BY <1>1, <1>2, <1>3 DEF ReaderInv, Readable
<1>6. ASSUME op = NULL, input.clean PROVE ReadToTheEnd(p)'
  <2>1. /\ c.left = 0 /\ c.actions = <<>>
        /\ c.isComplete <=> input.format = "taskgraph"
    BY <1>2, <1>6 DEF Readable
  <2>2. c.isComplete \in BOOLEAN
    BY DEF Reader
  <2> QED
    BY <1>1, <1>3, <2>1, <2>2 DEF ReadToTheEnd
<1> QED
  BY <1>3, <1>4, <1>5, <1>6

-----------------------------------------------------------------------------
(***************************************************************************)
(* The steps of the whole simulator.                                       *)
(***************************************************************************)

\* Every step is a step of BusSystem or leaves it alone.
LEMMA StepOfBus ==
  ASSUME SimpleInv, [Next]_vars
  PROVE  [BusProofs!Next]_(BusProofs!vars)
<1> USE DEF SimpleInv, TypeOK
<1>1. CASE UNCHANGED <<systemVars, pendReq>>
  BY <1>1, BusUnchanged
<1>2. CASE CoherenceTick
  <2>1. CASE (MemoryTick \/ BusCounts \/ BusArbitrates \/ BusReleases)
             /\ UNCHANGED cacheVars
    BY <2>1, QuietStep DEF cacheVars
  <2>2. CASE BusIssues /\ SnoopCallbacks
    BY <2>2, IssueStep DEF SnoopCallbacks
  <2>3. CASE BusDelivers
             /\ coherCallback(Delivery.ca, pendingRequest.procNum,
                              pendingRequest.addr)
    BY <2>3, DeliverStep DEF RequestInv
  <2> QED
    BY <1>2, <2>1, <2>2, <2>3 DEF CoherenceTick
<1>3. ASSUME NEW p \in Procs, NEW a \in Addrs, Visit(p), CoreAccesses(p, a)
      PROVE  BusProofs!Next
  <2>1. phase = "calls"
    BY <1>3 DEF Visit, TurnInv
  <2>2. ~core[p].pendingMem
    BY <1>3 DEF CoreAccesses, FetchesMemOp, Fetches, Ready
  <2>3. \A i \in 1 .. Len(pendReq) : pendReq[i].procNum # p
    BY <2>2 DEF RequestInv, WaitersMatch, Awaited
  <2>4. makeTag(p, core[p].memOpTag) \in Nat
    BY BaseTagOfMake DEF ProcessorTypeOK
  <2>5. memoryRequest(p, a, makeTag(p, core[p].memOpTag))
    BY <1>3 DEF CoreAccesses
  <2> QED
    BY <2>1, <2>3, <2>4, <2>5, AccessStep
<1>4. CASE UNCHANGED vars \/ CompletesOne \/ AllCompleted \/ TickReturns
  BY <1>1, <1>4 DEF vars, cacheVars, CompletesOne, AllCompleted, TickReturns
<1>5. ASSUME NEW p \in Procs, Visit(p), CoreIdles(p) \/ CoreComputes(p)
      PROVE  UNCHANGED <<systemVars, pendReq>>
  BY <1>5 DEF CoreIdles, CoreComputes, cacheVars
<1> QED
  BY <1>1, <1>2, <1>3, <1>4, <1>5 DEF Next, Visit

\* The invariant but for the bus's part of it.
CacheInv ==
  /\ CacheTypeOK
  /\ ProcessorTypeOK
  /\ turn \in {"coherence", "ready", "cores", "ended"}
  /\ NeverAborts
  /\ RequestInv
  /\ ReaderInv
  /\ TurnInv

\* Done reads only the core and its trace.
LEMMA DoneKept ==
  ASSUME UNCHANGED <<core, readerVars>>
  PROVE  \A p : Done(p)' = Done(p)
BY DEF Done, Ready, ReadToTheEnd, readerVars

\* Coherence's tick.
LEMMA CoherenceTickKeeps ==
  ASSUME SimpleInv, CoherenceTick
  PROVE  CacheInv'
<1> USE DEF SimpleInv, TypeOK
<1>1. UNCHANGED <<core, readerVars, visiting, progress>> /\ turn = "coherence"
  BY DEF CoherenceTick, processorVars, coreVars
<1>2. ProcessorTypeOK' /\ ReaderInv'
  BY <1>1 DEF ProcessorTypeOK, ReaderTypeOK, ReaderInv, Readable, readerVars
<1>3. /\ turn' = "coherence" \/ (turn' = "ready" /\ phase' = "calls")
      /\ turn' \in {"coherence", "ready", "cores", "ended"}
  BY <1>1
  DEF CoherenceTick, BusCounts, BusArbitrates, BusIssues, BusReleases
<1>4. TurnInv'
  BY <1>3 DEF TurnInv
<1>5. core \in [Procs -> CoreRecord]
  BY DEF ProcessorTypeOK, CoreRecord
<1>6. CASE UNCHANGED <<pendReq, readyReq>>
  <2>1. CacheTypeOK' /\ RequestInv'
    <3>1. RequestInv'
      BY <1>1, <1>5, <1>6, RequestsKept
    <3>2. aborted' \in BOOLEAN
      BY DEF CoherenceTick, cacheVars, SnoopCallbacks, coherCallback,
             CacheTypeOK
    <3> QED
      BY <1>6, <3>1, <3>2 DEF CacheTypeOK
  <2>2. NeverAborts'
    <3>1. CASE UNCHANGED cacheVars
      BY <3>1 DEF NeverAborts, cacheVars
    <3>2. CASE BusIssues /\ SnoopCallbacks
      <4>1. Waiting # {}
        BY <3>2, IssueStep DEF SnoopCallbacks
      <4>2. pendReq # <<>>
        BY <4>1 DEF Waiting, Range
      <4> QED
        BY <3>2, <4>2 DEF SnoopCallbacks, NeverAborts
    <3>3. CASE BusDelivers
               /\ coherCallback(Delivery.ca, pendingRequest.procNum,
                                pendingRequest.addr)
      BY <3>3, DeliverStep DEF RequestInv, NeverAborts
    <3> QED
      BY <3>1, <3>2, <3>3 DEF CoherenceTick
  <2> QED
    BY <1>2, <1>3, <1>4, <2>1, <2>2 DEF CacheInv
<1>7. CASE ~ UNCHANGED <<pendReq, readyReq>>
  <2>1. BusDelivers /\ coherCallback(Delivery.ca, pendingRequest.procNum,
                                     pendingRequest.addr)
    BY <1>7 DEF CoherenceTick, cacheVars, SnoopCallbacks
  <2>2. PICK n \in 1 .. Len(pendReq) :
          /\ pendReq' = RemoveAt(pendReq, n)
          /\ readyReq' = <<pendReq[n]>> \o readyReq
    BY <2>1, DeliverStep DEF RequestInv
  <2>3. UNCHANGED aborted
    BY <2>1, DeliverStep DEF RequestInv
  <2>4. /\ RequestInv' /\ pendReq' \in Seq(PendingRequest)
        /\ readyReq' \in Seq(PendingRequest)
    BY <1>1, <2>2, RequestGranted
  <2> QED
    BY <1>2, <1>3, <1>4, <2>3, <2>4 DEF CacheInv, CacheTypeOK, NeverAborts
<1> QED
  BY <1>6, <1>7

\* The loop over what is ready, and its end.
LEMMA CompletionKeeps ==
  ASSUME SimpleInv, CompletesOne \/ AllCompleted
  PROVE  CacheInv'
<1> USE DEF SimpleInv, TypeOK
<1>1. phase' = "calls" /\ UNCHANGED <<pendReq, aborted, readerVars>>
  BY DEF CompletesOne, AllCompleted, TurnInv, systemVars, cacheVars, coreVars
<1>2. ReaderInv' /\ ReaderTypeOK'
  BY <1>1 DEF ReaderInv, Readable, readerVars, ProcessorTypeOK, ReaderTypeOK
<1>3. CASE CompletesOne
  <2>1. /\ RequestInv' /\ readyReq' \in Seq(PendingRequest)
        /\ core' \in [Procs -> CoreRecord]
    BY <1>1, <1>3, RequestCompleted DEF CompletesOne
  <2>2. UNCHANGED <<visiting, progress, turn>> /\ turn = "ready"
    BY <1>3 DEF CompletesOne
  <2>3. TurnInv'
    BY <1>1, <2>2 DEF TurnInv
  <2> QED
    BY <1>1, <1>2, <2>1, <2>2, <2>3
    DEF CacheInv, CacheTypeOK, NeverAborts, ProcessorTypeOK, CoreRecord
<1>4. CASE AllCompleted
  <2>1. /\ UNCHANGED <<core, readyReq>>
        /\ turn' = "cores" /\ visiting' = 0 /\ progress' = FALSE
    BY <1>4 DEF AllCompleted, cacheVars, coreVars
  <2>2. core \in [Procs -> CoreRecord]
    BY DEF ProcessorTypeOK, CoreRecord
  <2>3. RequestInv'
    BY <1>1, <2>1, <2>2, RequestsKept
  <2>4. \A p \in Procs : ~(p < 0)
    BY DEF Procs
  <2>5. TurnInv'
    BY <1>1, <2>1, <2>4 DEF TurnInv
  <2>6. 0 \in 0 .. ProcessorCount
    BY ProcessorCountAssumption
  <2> QED
    BY <1>1, <1>2, <2>1, <2>2, <2>3, <2>5, <2>6
    DEF CacheInv, CacheTypeOK, NeverAborts, ProcessorTypeOK, CoreRecord
<1> QED
  BY <1>3, <1>4

\* A core that goes on moves no request, and the wait of none ends.
LEMMA CoreUpdated ==
  ASSUME core \in [Procs -> CoreRecord], NEW p \in Procs, NEW n \in {0, 1},
         core' = [core EXCEPT ![p].pendingBranch = n]
  PROVE  /\ core' \in [Procs -> CoreRecord]
         /\ \A q \in Procs : /\ core'[q].pendingMem = core[q].pendingMem
                             /\ core'[q].memOpTag = core[q].memOpTag
<1> DEFINE c == [core[p] EXCEPT !.pendingBranch = n]
<1>1. core' = [core EXCEPT ![p] = c]
  OBVIOUS
<1>2. c \in CoreRecord
  BY CoreUpdates
<1>3. c.pendingMem = core[p].pendingMem /\ c.memOpTag = core[p].memOpTag
  BY DEF CoreRecord
<1> HIDE DEF c
<1> QED
  BY <1>1, <1>2, <1>3

\* A core's visit: what it does with the core, its trace and the requests.
LEMMA VisitOne ==
  ASSUME SimpleInv, NEW p \in Procs, Visit(p)
  PROVE  /\ CacheTypeOK' /\ RequestInv'
         /\ core' \in [Procs -> CoreRecord] /\ ReaderTypeOK' /\ ReaderInv'
         /\ progress' \in BOOLEAN /\ NeverAborts'
         /\ \/ progress' = TRUE
            \/ /\ progress' = progress /\ core' = core /\ input' = input
               /\ Done(p)'
               /\ \A q \in Procs : q # p => trace'[q] = trace[q]
<1> USE DEF SimpleInv, TypeOK, NeverAborts
<1>1. core \in [Procs -> CoreRecord] /\ core[p] \in CoreRecord
  BY DEF ProcessorTypeOK, CoreRecord
<1>2. ReaderTypeOK /\ progress \in BOOLEAN
  BY DEF ProcessorTypeOK
<1>3. CASE CoreIdles(p) \/ CoreComputes(p)
  <2>0. UNCHANGED cacheVars
    BY <1>3 DEF CoreIdles, CoreComputes
  <2>1. ASSUME core' \in [Procs -> CoreRecord],
               \A q \in Procs : /\ core'[q].pendingMem = core[q].pendingMem
                                /\ core'[q].memOpTag = core[q].memOpTag
        PROVE  CacheTypeOK' /\ RequestInv' /\ NeverAborts'
    <3>1. CacheTypeOK' /\ NeverAborts'
      BY <2>0 DEF CacheTypeOK, cacheVars
    <3>2. RequestInv'
      BY <2>0, <2>1, RequestsKept DEF cacheVars
    <3> QED
      BY <3>1, <3>2
  <2>2. CASE MemoryPending(p)
    <3>1. UNCHANGED <<core, input, trace>> /\ progress' = TRUE
      BY <2>2 DEF MemoryPending, coreVars, readerVars
    <3>2. ReaderTypeOK' /\ ReaderInv'
      BY <1>2, <3>1 DEF ReaderTypeOK, ReaderInv, Readable
    <3> QED
      BY <1>1, <2>1, <3>1, <3>2
  <2>3. CASE BranchPending(p)
    <3>1. /\ core' = [core EXCEPT ![p].pendingBranch = @ - 1]
          /\ core[p].pendingBranch > 0
          /\ UNCHANGED <<input, trace>> /\ progress' = TRUE
      BY <2>3 DEF BranchPending, readerVars
    <3>2. core[p].pendingBranch - 1 \in {0, 1}
      BY <1>1, <3>1 DEF CoreRecord
    <3>3. ReaderTypeOK' /\ ReaderInv'
      BY <1>2, <3>1 DEF ReaderTypeOK, ReaderInv, Readable
    <3>4. /\ core' \in [Procs -> CoreRecord]
          /\ \A q \in Procs : /\ core'[q].pendingMem = core[q].pendingMem
                              /\ core'[q].memOpTag = core[q].memOpTag
      BY <1>1, <3>1, <3>2, CoreUpdated
    <3> QED
      BY <2>1, <3>1, <3>3, <3>4
  <2>4. CASE TraceOver(p)
    <3>1. /\ UNCHANGED <<core, progress>> /\ Ready(p) /\ getNextOp(p, NULL)
          /\ input' = input
      BY <2>4 DEF TraceOver, getNextOp
    <3>2. /\ ReaderTypeOK' /\ ReaderInv'
          /\ \A q \in Procs : q # p => trace'[q] = trace[q]
          /\ input.clean => ReadToTheEnd(p)'
      BY <1>2, <3>1, NextOpReads
    <3>3. Done(p)'
      BY <3>1, <3>2 DEF Done, Ready
    <3> QED
      BY <1>1, <1>2, <2>1, <3>1, <3>2, <3>3
  <2>5. CASE FetchesAlu(p)
    <3>1. UNCHANGED core /\ getNextOp(p, "alu") /\ progress' = TRUE
      BY <2>5 DEF FetchesAlu, Fetches
    <3>2. ReaderTypeOK' /\ ReaderInv'
      BY <1>2, <3>1, NextOpReads
    <3> QED
      BY <1>1, <2>1, <3>1, <3>2
  <2>6. ASSUME NEW m \in Mispredicts, FetchesBranch(p, m)
        PROVE  /\ CacheTypeOK' /\ RequestInv' /\ NeverAborts'
               /\ core' \in [Procs -> CoreRecord] /\ ReaderTypeOK' /\ ReaderInv'
               /\ progress' = TRUE
    <3>1. /\ core' = [core EXCEPT ![p].pendingBranch = IF m THEN 1 ELSE 0]
          /\ getNextOp(p, "branch") /\ progress' = TRUE
      BY <2>6 DEF FetchesBranch, Fetches
    <3>2. ReaderTypeOK' /\ ReaderInv'
      BY <1>2, <3>1, NextOpReads
    <3>3. /\ core' \in [Procs -> CoreRecord]
          /\ \A q \in Procs : /\ core'[q].pendingMem = core[q].pendingMem
                              /\ core'[q].memOpTag = core[q].memOpTag
      BY <1>1, <3>1, CoreUpdated
    <3> QED
      BY <2>1, <3>1, <3>2, <3>3
  <2> QED
    BY <1>3, <2>2, <2>3, <2>4, <2>5, <2>6 DEF CoreIdles, CoreComputes
<1>4. ASSUME NEW a \in Addrs, CoreAccesses(p, a)
      PROVE  /\ CacheTypeOK' /\ RequestInv' /\ NeverAborts'
             /\ core' \in [Procs -> CoreRecord] /\ ReaderTypeOK' /\ ReaderInv'
             /\ progress' = TRUE
  <2> DEFINE r == [tag |-> makeTag(p, core[p].memOpTag),
                   addr |-> a, procNum |-> p]
  <2>1. /\ core' = [core EXCEPT ![p].pendingMem = TRUE]
        /\ ~core[p].pendingMem
        /\ getNextOp(p, "memory") /\ progress' = TRUE
    BY <1>4 DEF CoreAccesses, FetchesMemOp, Fetches, Ready
  <2>2. /\ \/ pendReq' = <<r>> \o pendReq /\ readyReq' = readyReq
           \/ readyReq' = <<r>> \o readyReq /\ pendReq' = pendReq
        /\ UNCHANGED aborted
    BY <1>4 DEF CoreAccesses, memoryRequest
  <2>3. /\ r \in PendingRequest /\ r.procNum = p
        /\ r.tag = makeTag(p, core[p].memOpTag)
    BY <1>1, BaseTagOfMake DEF CoreRecord, PendingRequest
  <2> HIDE DEF r
  <2>4. /\ RequestInv' /\ pendReq' \in Seq(PendingRequest)
        /\ readyReq' \in Seq(PendingRequest)
    BY <2>1, <2>2, <2>3, RequestMade
  <2>5. ReaderTypeOK' /\ ReaderInv'
    BY <1>2, <2>1, NextOpReads
  <2>6. core' \in [Procs -> CoreRecord]
    <3> DEFINE c == [core[p] EXCEPT !.pendingMem = TRUE]
    <3>1. core' = [core EXCEPT ![p] = c] /\ c \in CoreRecord
      BY <1>1, <2>1, CoreUpdates
    <3> HIDE DEF c
    <3> QED
      BY <1>1, <3>1
  <2> QED
    BY <2>1, <2>2, <2>4, <2>5, <2>6 DEF CacheTypeOK
<1> QED
  BY <1>3, <1>4 DEF Visit

\* A visit of main's loop to one core.
LEMMA VisitKeeps ==
  ASSUME SimpleInv, NEW p \in Procs, Visit(p)
  PROVE  CacheInv'
<1>1. /\ CacheTypeOK' /\ RequestInv'
      /\ core' \in [Procs -> CoreRecord] /\ ReaderTypeOK' /\ ReaderInv'
      /\ progress' \in BOOLEAN /\ NeverAborts'
      /\ \/ progress' = TRUE
         \/ /\ progress' = progress /\ core' = core /\ input' = input
            /\ Done(p)'
            /\ \A q \in Procs : q # p => trace'[q] = trace[q]
  BY VisitOne
<1>2. /\ turn = "cores" /\ turn' = "cores" /\ visiting = p /\ visiting' = p + 1
      /\ phase = "calls"
  BY DEF Visit, Advance, SimpleInv, TurnInv
<1>3. phase' = "calls"
  BY <1>2
  DEF Visit, CoreIdles, CoreComputes, CoreAccesses, memoryRequest, permReq,
      systemVars
<1>4. p \in Nat /\ p + 1 \in 0 .. ProcessorCount
  BY ProcessorCountAssumption DEF Procs
<1>5. TurnInv'
  <2> SUFFICES ASSUME ~progress', NEW q \in Procs, q < p + 1
               PROVE  Done(q)'
    BY <1>2, <1>3 DEF TurnInv
  <2>1. /\ progress' = progress /\ core' = core /\ input' = input /\ Done(p)'
        /\ \A r \in Procs : r # p => trace'[r] = trace[r]
    BY <1>1
  <2>2. CASE q = p
    BY <2>1, <2>2
  <2>3. CASE q # p
    <3>1. q < visiting
      BY <1>2, <1>4, <2>3 DEF Procs
    <3>2. Done(q)
      BY <1>2, <2>1, <3>1 DEF SimpleInv, TurnInv
    <3> QED
      BY <2>1, <2>3, <3>2 DEF Done, Ready, ReadToTheEnd
  <2> QED
    BY <2>2, <2>3
<1> QED
  BY <1>1, <1>2, <1>4, <1>5 DEF CacheInv, ProcessorTypeOK, CoreRecord

\* A step that leaves cache and processor alone but for whose turn it is.
LEMMA OthersKeep ==
  ASSUME SimpleInv, TickReturns \/ UNCHANGED vars
  PROVE  CacheInv'
<1> USE DEF SimpleInv, TypeOK
<1>1. UNCHANGED <<systemVars, cacheVars, processorVars>>
  BY DEF TickReturns, vars
<1>2. UNCHANGED <<phase, pendReq, readyReq, aborted, core, input, trace,
                  visiting, progress>>
  BY <1>1 DEF systemVars, cacheVars, processorVars, coreVars, readerVars
<1>3. CacheTypeOK' /\ ProcessorTypeOK' /\ NeverAborts' /\ ReaderInv'
  BY <1>2
  DEF CacheTypeOK, ProcessorTypeOK, ReaderTypeOK, NeverAborts, ReaderInv,
      Readable
<1>4. RequestInv'
  <2>1. core \in [Procs -> CoreRecord]
    BY DEF ProcessorTypeOK, CoreRecord
  <2> QED
    BY <1>2, <2>1, RequestsKept
<1>5. \A p : Done(p)' = Done(p)
  BY <1>2, DoneKept DEF readerVars
<1>6. CASE TickReturns
  <2>1. /\ turn = "cores" /\ visiting = ProcessorCount /\ phase = "calls"
        /\ turn' = IF progress THEN "coherence" ELSE "ended"
    BY <1>6 DEF TickReturns, TurnInv
  <2>2. \A p \in Procs : p < visiting
    BY <2>1, ProcessorCountAssumption DEF Procs
  <2>3. ~progress => \A p \in Procs : Done(p)
    BY <2>1, <2>2 DEF TurnInv
  <2>4. TurnInv'
    BY <1>2, <1>5, <2>1, <2>3 DEF TurnInv
  <2> QED
    BY <1>3, <1>4, <2>1, <2>4 DEF CacheInv
<1>7. CASE UNCHANGED vars
  <2>1. turn' = turn
    BY <1>7 DEF vars
  <2>2. TurnInv'
    BY <1>2, <1>5, <2>1 DEF TurnInv
  <2> QED
    BY <1>3, <1>4, <2>1, <2>2 DEF CacheInv
<1> QED
  BY <1>6, <1>7

\* Every step keeps the invariant.
LEMMA NextSimple ==
  ASSUME SimpleInv, [Next]_vars
  PROVE  SimpleInv'
<1>1. BusInv'
  BY StepOfBus, NextBusInv DEF SimpleInv
<1>2. SystemTypeOK'
  BY <1>1, SameSystemTypes DEF BusInv, BusProofs!TypeOK
<1>3. CacheInv'
  BY CoherenceTickKeeps, CompletionKeeps, VisitKeeps, OthersKeep DEF Next
<1> QED
  BY <1>1, <1>2, <1>3 DEF SimpleInv, CacheInv, TypeOK

\* The invariant holds at the start, where the bus starts too.
LEMMA InitSimple == Init => SimpleInv /\ BusProofs!Init
<1> SUFFICES ASSUME Init PROVE SimpleInv /\ BusProofs!Init
  OBVIOUS
<1>1. /\ SystemInit /\ pendReq = <<>> /\ readyReq = <<>> /\ aborted = FALSE
      /\ turn = "coherence" /\ ProcessorInit
  BY DEF Init, CacheInit
<1>2. BusProofs!Init
  <2>1. Waiting = {}
    BY <1>1 DEF Waiting, Range
  <2>2. Held = {}
    BY <1>1 DEF Held, SystemInit, CoherInit
  <2> QED
    BY <1>1, <2>1, <2>2
    DEF SystemInit, MemInit, BusInit, CoherInit, Procs, BusProofs!Init,
        BusProofs!SystemInit, BusProofs!MemInit, BusProofs!BusInit,
        BusProofs!CoherInit, BusProofs!Procs
<1>3. BusInv
  BY <1>2, InitBusInv
<1>4. SystemTypeOK
  BY <1>3, SameSystemTypes DEF BusInv, BusProofs!TypeOK
<1>5. CacheTypeOK /\ NeverAborts
  <2>1. <<>> \in Seq(PendingRequest)
    OBVIOUS
  <2> QED
    BY <1>1, <2>1 DEF CacheTypeOK, NeverAborts
<1>6. ProcessorTypeOK /\ ReaderInv
  <2>1. core \in [Procs -> CoreRecord]
    BY <1>1 DEF ProcessorInit, CoreRecord
  <2>2. PICK lengths \in [Procs -> 0 .. TraceLength] :
          trace = [p \in Procs |->
                     [open |-> input.format = "file" /\ p = 0,
                      left |-> lengths[p],
                      t |-> FALSE, actions |-> <<>>, isComplete |-> FALSE]]
    BY <1>1 DEF ProcessorInit, ReaderInit
  <2>3. <<>> \in BoundedSeq(Actions, TaskLength)
    <3>1. <<>> \in Seq(Actions) /\ Len(<<>>) <= TaskLength
      BY TaskLengthAssumption
    <3> QED
      BY <3>1, BoundedSeqIs, TaskLengthAssumption
  <2>4. trace \in [Procs -> Reader]
    BY <2>2, <2>3 DEF Reader
  <2>5. ReaderTypeOK
    BY <1>1, <2>4 DEF ProcessorInit, ReaderInit, ReaderTypeOK
  <2>6. ReaderInv
    BY <1>1, <2>2 DEF ProcessorInit, ReaderInit, ReaderInv, Readable
  <2>7. 0 \in 0 .. ProcessorCount
    BY ProcessorCountAssumption
  <2>8. visiting = 0 /\ progress = FALSE
    BY <1>1 DEF ProcessorInit
  <2> QED
    BY <2>1, <2>5, <2>6, <2>7, <2>8 DEF ProcessorTypeOK, CoreRecord
<1>7. RequestInv
  <2>1. Waiters = {}
    BY <1>1 DEF Waiters, ProcessorInit
  <2>2. Cardinality(Waiters) = 0
    BY <2>1, FS_EmptySet
  <2>3. \A p \in Procs : ~core[p].pendingMem
    BY <1>1 DEF ProcessorInit
  <2> QED
    BY <1>1, <2>2, <2>3 DEF RequestInv, OneEach, WaitersMatch
<1>8. TurnInv
  BY <1>1 DEF TurnInv
<1> QED
  BY <1>1, <1>2, <1>3, <1>4, <1>5, <1>6, <1>7, <1>8 DEF SimpleInv, TypeOK

-----------------------------------------------------------------------------
(***************************************************************************)
(* BusSystem as SimpleCacheSystem instantiates it is the one whose proofs  *)
(* are instantiated here.                                                  *)
(***************************************************************************)

\* The cache's calls into coherence.
LEMMA SameAccess == \A p, a : BusProofs!Access(p, a) <=> Bus!Access(p, a)
<1>1. \A p, a : BusProofs!permReq(p, a) <=> Bus!permReq(p, a)
  BY DEF Bus!permReq, Bus!cacheMI, Bus!SetState, Bus!busVars, Bus!memVars,
         Bus!busReq, Bus!BusReqStarts, Bus!BusReqAnswers, Bus!BusReqQueues,
         Bus!AnswersPending, Bus!NewBusReq, Bus!enqBusRequest,
         BusProofs!permReq, BusProofs!cacheMI, BusProofs!SetState,
         BusProofs!busVars, BusProofs!memVars, BusProofs!busReq,
         BusProofs!BusReqStarts, BusProofs!BusReqAnswers,
         BusProofs!BusReqQueues, BusProofs!AnswersPending,
         BusProofs!NewBusReq, BusProofs!enqBusRequest
<1>2. \A p, a : BusProofs!cacheMI(coherStates[p][a]).permAvail
                  = Bus!cacheMI(coherStates[p][a]).permAvail
  BY DEF BusProofs!cacheMI, Bus!cacheMI
<1>3. \A p : BusProofs!Outstanding(p) = Bus!Outstanding(p)
  BY DEF BusProofs!Outstanding, Bus!Outstanding
<1>4. \A p : BusProofs!Cardinality(BusProofs!Outstanding(p))
               = Bus!Cardinality(Bus!Outstanding(p))
  <2>1. \A S : BusProofs!Cardinality(S) = Bus!Cardinality(S)
    BY DEF BusProofs!Cardinality, Bus!Cardinality
  <2> QED
    BY <1>3, <2>1
<1>5. \A p : BusProofs!Running(p) <=> Bus!Running(p)
  BY DEF BusProofs!Running, Bus!Running
<1> QED
  BY <1>1, <1>2, <1>4, <1>5 DEF BusProofs!Access, Bus!Access

\* Evictions, which simpleCache never makes.
LEMMA SameEvict == \A p, a : BusProofs!Evict(p, a) <=> Bus!Evict(p, a)
BY DEF Bus!Evict, BusProofs!Evict

\* The end of the traces.
LEMMA SameTracesEnd == BusProofs!TracesEnd <=> Bus!TracesEnd
BY DEF Bus!TracesEnd, BusProofs!TracesEnd

\* The tick that issues a request.
LEMMA SameIssue == BusProofs!Issue <=> Bus!Issue
BY DEF Bus!Issue, Bus!Invalidated, Bus!BusIssues, Bus!BusTicking, Bus!Elapses,
       Bus!MemBusReq, Bus!SnoopedOwners, Bus!Snooped, Bus!snoopMI,
       Bus!NewBusReq, Bus!Procs, BusProofs!Issue, BusProofs!Invalidated,
       BusProofs!BusIssues, BusProofs!BusTicking, BusProofs!Elapses,
       BusProofs!MemBusReq, BusProofs!SnoopedOwners, BusProofs!Snooped,
       BusProofs!snoopMI, BusProofs!NewBusReq, BusProofs!Procs

\* The tick that delivers.
LEMMA SameDeliver == BusProofs!Deliver <=> Bus!Deliver
BY DEF Bus!Deliver, Bus!BusDelivers, Bus!BusTicking, Bus!Elapses, Bus!Delivery,
       Bus!DeliveredType, Bus!snoopMI, Bus!SetState, Bus!enqBusRequest,
       Bus!NewBusReq, Bus!memVars, BusProofs!Deliver, BusProofs!BusDelivers,
       BusProofs!BusTicking, BusProofs!Elapses, BusProofs!Delivery,
       BusProofs!DeliveredType, BusProofs!snoopMI, BusProofs!SetState,
       BusProofs!enqBusRequest, BusProofs!NewBusReq, BusProofs!memVars

\* The ticks that call nothing back.
LEMMA SameQuiet == BusProofs!QuietTick <=> Bus!QuietTick
BY DEF Bus!QuietTick, Bus!clientVars, Bus!BusCounts, Bus!BusTicking,
       Bus!BusReleases, Bus!BusArbitrates, Bus!BusDequeues, Bus!HasTurn,
       Bus!Distance, Bus!busVars, Bus!Procs, Bus!memVars, Bus!MemIdle,
       Bus!MemCounts, Bus!MemSquelches, Bus!MemResponds, Bus!CacheTransfer,
       Bus!busReqCacheTransfer, Bus!memReqCallback, Bus!MemoryTick,
       BusProofs!QuietTick, BusProofs!clientVars, BusProofs!BusCounts,
       BusProofs!BusTicking, BusProofs!BusReleases, BusProofs!BusArbitrates,
       BusProofs!BusDequeues, BusProofs!HasTurn, BusProofs!Distance,
       BusProofs!busVars, BusProofs!Procs, BusProofs!memVars,
       BusProofs!MemIdle, BusProofs!MemCounts, BusProofs!MemSquelches,
       BusProofs!MemResponds, BusProofs!CacheTransfer,
       BusProofs!busReqCacheTransfer, BusProofs!memReqCallback,
       BusProofs!MemoryTick

\* The initial states.
LEMMA SameInit == BusProofs!Init <=> Bus!Init
BY DEF Bus!Init, Bus!SystemInit, Bus!MemInit, Bus!BusInit, Bus!CoherInit,
       Bus!Procs, BusProofs!Init, BusProofs!SystemInit, BusProofs!MemInit,
       BusProofs!BusInit, BusProofs!CoherInit, BusProofs!Procs

\* The variables.
LEMMA SameVars == BusProofs!vars = Bus!vars /\ BusProofs!vars' = Bus!vars'
BY DEF Bus!vars, Bus!systemVars, Bus!clientVars, Bus!busVars, Bus!memVars,
       BusProofs!vars, BusProofs!systemVars, BusProofs!clientVars,
       BusProofs!busVars, BusProofs!memVars

\* The steps.
LEMMA SameNext == BusProofs!Next <=> Bus!Next
BY SameAccess, SameEvict, SameTracesEnd, SameIssue, SameDeliver, SameQuiet
DEF BusProofs!Next, Bus!Next, BusProofs!Tick, Bus!Tick, BusProofs!Procs,
    Bus!Procs

-----------------------------------------------------------------------------
(***************************************************************************)
(* The theorems.                                                           *)
(***************************************************************************)

\* Everything the results below rest on holds throughout.
THEOREM StaysSimple == Spec => []SimpleInv
<1>1. Init => SimpleInv
  BY InitSimple
<1>2. SimpleInv /\ [Next]_vars => SimpleInv'
  BY NextSimple
<1> QED
  BY <1>1, <1>2, PTL DEF Spec

\* Cache, processor and trace reader keep their variables' types: no queue
\* holds anything but requests, and no core's fields leave their ranges.
THEOREM TypeCorrect == Spec => []TypeOK
<1>1. SimpleInv => TypeOK
  BY DEF SimpleInv
<1> QED
  BY <1>1, StaysSimple, PTL

\* No assert() of simpleCache.c fails: whenever coherence calls back a
\* request is pending, and every grant finds its request.
THEOREM AssertsHold == Spec => []NeverAborts
<1>1. SimpleInv => NeverAborts
  BY DEF SimpleInv
<1> QED
  BY <1>1, StaysSimple, PTL

\* A waiting core has exactly one request in the cache, with the tag that
\* will complete it, and any other core has none.
THEOREM EachWaitsForOne == Spec => []OneRequestPerCore
<1>1. SimpleInv => OneRequestPerCore
  BY RequestsOfCore DEF SimpleInv, TypeOK
<1> QED
  BY <1>1, StaysSimple, PTL

\* When main's loop ends, the invariant leaves nothing under way.
LEMMA NothingLeft == SimpleInv => EndsQuiet
<1> SUFFICES ASSUME SimpleInv, turn = "ended"
             PROVE  /\ \A p \in Procs :
                         Ready(p) /\ (input.clean => ReadToTheEnd(p))
                    /\ pendReq = <<>> /\ readyReq = <<>>
                    /\ pendingRequest = NULL /\ memRequest = NULL
                    /\ \A p \in Procs : queuedRequests[p] = <<>>
  BY DEF EndsQuiet
<1> USE DEF SimpleInv, TypeOK
<1>1. phase = "calls" /\ \A p \in Procs : Done(p)
  BY DEF TurnInv
<1>2. Waiters = {}
  BY <1>1 DEF Waiters, Done, Ready
<1>3. pendReq = <<>> /\ readyReq = <<>>
  <2>1. Len(pendReq) + Len(readyReq) = 0
    BY <1>2, FS_EmptySet DEF RequestInv
  <2>2. pendReq \in Seq(PendingRequest) /\ readyReq \in Seq(PendingRequest)
    BY DEF CacheTypeOK
  <2>3. Len(pendReq) \in Nat /\ Len(readyReq) \in Nat
    BY <2>2
  <2>4. Len(pendReq) = 0 /\ Len(readyReq) = 0
    BY <2>1, <2>3
  <2> QED
    BY <2>2, <2>4, EmptySeq
<1>4. Waiting = {}
  BY <1>3 DEF Waiting, Range
<1>5. pendingRequest = NULL /\ memRequest = NULL
  BY <1>1, <1>4, BusFacts
<1>6. ASSUME NEW p \in Procs PROVE queuedRequests[p] = <<>>
  <2>1. queuedRequests[p] \in Seq(QueuedReq)
    BY DEF SystemTypeOK, BusTypeOK
  <2>2. \A n \in 1 .. Len(queuedRequests[p]) : FALSE
    BY <1>4, BusFacts
  <2>3. Len(queuedRequests[p]) = 0
    BY <2>1, <2>2
  <2> QED
    BY <2>1, <2>3, EmptySeq
<1> QED
  BY <1>1, <1>3, <1>5, <1>6 DEF Done

\* main's loop ends only when no operation is under way, in cache, bus or
\* memory, and clean traces have been read to their ends.
THEOREM QuietAtTheEnd == Spec => []EndsQuiet
<1> QED
  BY NothingLeft, StaysSimple, PTL

\* simpleCache keeps to the interface of BusSystem, step by step: whatever
\* is proved of every cache that does holds of the simulator with simpleCache.
THEOREM UsesTheBusAsAllowed == Spec => KeepsToInterface
<1>1. Init => Bus!Init
  BY InitSimple, SameInit
<1>2. SimpleInv /\ [Next]_vars => [Bus!Next]_(Bus!vars)
  <2>1. SimpleInv /\ [Next]_vars => [BusProofs!Next]_(BusProofs!vars)
    BY StepOfBus
  <2> QED
    BY <2>1, SameNext, SameVars
<1> QED
  BY <1>1, <1>2, StaysSimple, PTL DEF Spec, KeepsToInterface, Bus!Spec

\* The same as a behaviour of the bus about which the theorems are.
LEMMA OnTheBus == Spec => BusProofs!Spec
<1>1. Init => BusProofs!Init
  BY InitSimple
<1>2. SimpleInv /\ [Next]_vars => [BusProofs!Next]_(BusProofs!vars)
  BY StepOfBus
<1> QED
  BY <1>1, <1>2, StaysSimple, PTL DEF Spec, BusProofs!Spec

\* No two cores are let into the same block by coherence.
THEOREM OneHolder == Spec => []BusProofs!SingleHolder
<1>1. BusProofs!Spec => []BusProofs!SingleHolder
  BY BusProofs!OneHolder, SameTypes,
     ProcessorCountAssumption, NullAssumption,
     DramAssumption, BusDelayAssumption
<1> QED
  BY <1>1, OnTheBus, PTL

\* No request of simpleCache is lost or made twice: one that is pending has its
\* transaction on the bus or queued, one only, and nothing else is there.
THEOREM RequestsAccounted == Spec => []BusProofs!RequestAccounted
<1>1. BusProofs!Spec => []BusProofs!RequestAccounted
  BY BusProofs!RequestsAccounted, SameTypes,
     ProcessorCountAssumption, NullAssumption,
     DramAssumption, BusDelayAssumption
<1> QED
  BY <1>1, OnTheBus, PTL

\* So the cores get from simpleCache and the memory system what CoherencePort
\* promises: a block is taken from its holder before another one is granted it.
THEOREM ImplementsPort == Spec => BusProofs!PortSpec
<1>1. BusProofs!Spec => BusProofs!PortSpec
  BY BusProofs!ImplementsPort, SameTypes,
     ProcessorCountAssumption, NullAssumption,
     DramAssumption, BusDelayAssumption
<1> QED
  BY <1>1, OnTheBus, PTL
=============================================================================
