-------------------------- MODULE BusAccountProofs --------------------------
(***************************************************************************)
(* That no request is lost: a cache that waits has its transaction on the  *)
(* bus or in its processor's queue, through every merge, queueing and      *)
(* arbitration; that a transaction leaves the bus only answered; and that  *)
(* the memory system implements CoherencePort: every step, seen by the     *)
(* caches, is one of the interface's or none.                              *)
(***************************************************************************)
EXTENDS BusSystemProofs

\* Where a transaction of p for block a can be.
OnBusFor(p, a) ==
  OnBus /\ pendingRequest.procNum = p /\ pendingRequest.addr = a

QueuedFor(p, a) ==
  \E n \in 1 .. Len(queuedRequests[p]) : queuedRequests[p][n].addr = a

Placed(p, a) == OnBusFor(p, a) \/ QueuedFor(p, a)

\* What a step must keep.
PlacesKept ==
  \A p \in Procs, a \in Addrs : Placed(p, a) => Placed(p, a)'

\* The inductive half of RequestAccounted: who waits has a transaction.
WaitersPlaced ==
  \A p \in Procs, a \in Addrs : <<p, a>> \in waiting => Placed(p, a)

\* The same of write-backs, and who makes them.
FlushersPlaced ==
  \A p \in Procs, a \in Addrs :
    <<p, a>> \in flushing => p \in Evictors /\ Placed(p, a)

\* Queueing a transaction leaves those before it in their places.
LEMMA AppendedPlaces ==
  ASSUME TypeOK, NEW p \in Procs, NEW req \in QueuedReq,
         queuedRequests'[p] = Append(queuedRequests[p], req)
  PROVE  /\ \A a \in Addrs : QueuedFor(p, a) => QueuedFor(p, a)'
         /\ QueuedFor(p, req.addr)'
<1>1. queuedRequests[p] \in Seq(QueuedReq)
  BY DEF TypeOK, SystemTypeOK, BusTypeOK
<1>2. /\ Len(queuedRequests'[p]) = Len(queuedRequests[p]) + 1
      /\ Len(queuedRequests[p]) \in Nat
      /\ queuedRequests'[p][Len(queuedRequests[p]) + 1] = req
      /\ \A n \in 1 .. Len(queuedRequests[p]) :
           queuedRequests'[p][n] = queuedRequests[p][n]
  BY <1>1
<1>3. QueuedFor(p, req.addr)'
  <2>1. Len(queuedRequests[p]) + 1 \in 1 .. Len(queuedRequests'[p])
    BY <1>2
  <2> QED
    BY <1>2, <2>1 DEF QueuedFor
<1> QED
  BY <1>2, <1>3 DEF QueuedFor

\* A step that leaves the transaction where it is.
LEMMA QuietPlaces ==
  ASSUME UNCHANGED queuedRequests,
         OnBus => /\ OnBus'
                  /\ pendingRequest'.procNum = pendingRequest.procNum
                  /\ pendingRequest'.addr = pendingRequest.addr
  PROVE  PlacesKept
BY DEF PlacesKept, Placed, OnBusFor, QueuedFor

\* A call of busReq displaces no transaction and places the new one, unless
\* it is DATA that answers the one on the bus.
LEMMA BusReqPlaces ==
  ASSUME TypeOK, Lockstep, phase # "bus", UNCHANGED phase,
         NEW brt \in BusReqTypes, NEW a \in Addrs, NEW p \in Procs,
         busReq(brt, a, p)
  PROVE  PlacesKept /\ (AnswersPending(brt, a) \/ Placed(p, a)')
<1> USE DEF PlacesKept, Placed
<1>1. CASE BusReqStarts(brt, a, p)
  <2>1. /\ pendingRequest = NULL /\ queuedRequests' = queuedRequests
        /\ pendingRequest' = NewBusReq(brt, a, p, "WAITING_CACHE")
    BY <1>1 DEF BusReqStarts
  <2>2. phase' # "callback"
    BY <2>1 DEF Lockstep, InCallback
  <2>3. pendingRequest' # NULL
    BY <2>1, NewBusReqType, NullIsNoRequest DEF BusReqStates
  <2>4. OnBusFor(p, a)'
    BY <2>1, <2>2, <2>3 DEF OnBusFor, OnBus, NewBusReq
  <2> QED
    BY <2>1, <2>4 DEF OnBusFor, OnBus, QueuedFor
<1>2. CASE BusReqAnswers(brt, a, p)
  <2>1. /\ pendingRequest # NULL /\ brt = "DATA"
        /\ queuedRequests' = queuedRequests
        /\ pendingRequest' = [pendingRequest EXCEPT
                                !.data = TRUE,
                                !.currentState = "TRANSFERING_CACHE"]
    BY <1>2 DEF BusReqAnswers, AnswersPending
  <2>2. pendingRequest \in BusReq
    BY <2>1 DEF TypeOK, SystemTypeOK, BusTypeOK
  <2>3. /\ pendingRequest'.procNum = pendingRequest.procNum
        /\ pendingRequest'.addr = pendingRequest.addr
        /\ pendingRequest' \in BusReq
    BY <2>1, <2>2 DEF BusReq, BusReqStates
  <2> QED
    BY <1>2, <2>1, <2>3, NullIsNoRequest
    DEF BusReqAnswers, OnBusFor, OnBus, QueuedFor
<1>3. CASE BusReqQueues(brt, a, p)
  <2>1. /\ pendingRequest' = pendingRequest
        /\ queuedRequests' = enqBusRequest(brt, a, p)
    BY <1>3 DEF BusReqQueues
  <2>2. /\ NewBusReq(brt, a, p, "QUEUED") \in QueuedReq
        /\ NewBusReq(brt, a, p, "QUEUED").addr = a
    BY QueuedReqType DEF NewBusReq
  <2>3. /\ queuedRequests'[p]
             = Append(queuedRequests[p], NewBusReq(brt, a, p, "QUEUED"))
        /\ \A q \in Procs \ {p} : queuedRequests'[q] = queuedRequests[q]
    BY <2>1 DEF enqBusRequest, TypeOK, SystemTypeOK, BusTypeOK
  <2>4. /\ \A b \in Addrs : QueuedFor(p, b) => QueuedFor(p, b)'
        /\ QueuedFor(p, a)'
    BY <2>2, <2>3, AppendedPlaces
  <2>5. \A q \in Procs, b \in Addrs : QueuedFor(q, b) => QueuedFor(q, b)'
    BY <2>3, <2>4 DEF QueuedFor
  <2>6. \A q \in Procs, b \in Addrs : OnBusFor(q, b) => OnBusFor(q, b)'
    BY <2>1 DEF OnBusFor, OnBus
  <2> QED
    BY <2>4, <2>5, <2>6
<1> QED
  BY <1>1, <1>2, <1>3 DEF busReq

LEMMA AccessPlaces ==
  ASSUME TypeOK, Lockstep, GrantInv, NEW p \in Procs, NEW a \in Addrs,
         Access(p, a)
  PROVE  /\ PlacesKept
         /\ \/ waiting' = waiting
            \/ waiting' = waiting \cup {<<p, a>>} /\ Placed(p, a)'
<1>1. /\ phase # "bus" /\ UNCHANGED phase /\ permReq(p, a)
      /\ coherStates[p][a] \in States
  BY RunningPhase DEF Access, permReq, TypeOK, SystemTypeOK, CoherTypeOK
<1>2. CASE coherStates[p][a] = "INVALID"
  <2>1. /\ busReq("BUSWR", a, p) /\ "BUSWR" \in BusReqTypes
        /\ waiting' = waiting \cup {<<p, a>>}
    BY <1>1, <1>2 DEF Access, permReq, cacheMI, BusReqTypes
  <2>2. ~AnswersPending("BUSWR", a)
    BY DEF AnswersPending
  <2> QED
    BY <1>1, <2>1, <2>2, BusReqPlaces
<1>3. CASE coherStates[p][a] # "INVALID"
  <2>1. UNCHANGED <<pendingRequest, queuedRequests, phase>>
    BY <1>1, <1>3 DEF permReq, cacheMI, busVars
  <2>2. waiting' = waiting
    <3>1. coherStates[p][a] = "INVALID_MODIFIED" => <<p, a>> \in waiting
      BY DEF GrantInv, CachesAgree
    <3> QED
      BY <1>1, <1>3, <3>1 DEF Access, cacheMI, States
  <2> QED
    BY <2>1, <2>2, QuietPlaces DEF OnBus
<1> QED
  BY <1>2, <1>3

\* A write-back gets a place if nobody else writes back: it could lose it
\* only to a write-back of the same block, and there is none.
LEMMA EvictPlaces ==
  ASSUME TypeOK, Lockstep, GrantInv, NEW p \in Procs, NEW a \in Addrs,
         Evict(p, a)
  PROVE  /\ PlacesKept
         /\ \/ flushing' = flushing
            \/ /\ flushing' = flushing \cup {<<p, a>>}
               /\ \/ Placed(p, a)'
                  \/ \E q \in Procs \ {p} : <<q, a>> \in flushing
<1>1. /\ phase # "bus" /\ UNCHANGED <<phase, waiting>> /\ invlReq(p, a)
      /\ <<p, a>> \notin waiting \cup flushing
      /\ coherStates[p][a] \in States
  BY RunningPhase
  DEF Evict, invlReq, TypeOK, SystemTypeOK, CoherTypeOK
<1>2. CASE coherStates[p][a] # "INVALID"
  <2>1. /\ busReq("DATA", a, p) /\ "DATA" \in BusReqTypes
        /\ flushing' = flushing \cup {<<p, a>>}
        /\ coherStates[p][a] = "MODIFIED"
    BY <1>1, <1>2
    DEF Evict, invlReq, BusReqTypes, GrantInv, CachesAgree, States
  <2>2. PlacesKept /\ (AnswersPending("DATA", a) \/ Placed(p, a)')
    BY <1>1, <2>1, BusReqPlaces
  <2>3. ASSUME AnswersPending("DATA", a)
        PROVE  \E q \in Procs \ {p} : <<q, a>> \in flushing
    <3>1. /\ pendingRequest # NULL /\ pendingRequest.addr = a
          /\ pendingRequest.currentState = "WAITING_MEMORY"
      BY <2>3 DEF AnswersPending
    <3>2. pendingRequest \in BusReq /\ OnBus
      BY <3>1 DEF TypeOK, SystemTypeOK, BusTypeOK, Lockstep, InCallback,
                  PendingIs, OnBus
    <3>3. <<pendingRequest.procNum, a>> \in waiting \cup flushing
      BY <3>1, <3>2 DEF GrantInv, PendingSound
    <3>4. <<pendingRequest.procNum, a>> \notin waiting
      BY <2>1, <3>1, <3>2 DEF GrantInv, SnoopedClear, PendingIs
    <3> QED
      BY <1>1, <3>2, <3>3, <3>4 DEF BusReq
  <2> QED
    BY <2>1, <2>2, <2>3
<1>3. CASE coherStates[p][a] = "INVALID"
  <2>1. UNCHANGED <<pendingRequest, queuedRequests, phase, flushing>>
    BY <1>1, <1>3 DEF Evict, invlReq, busVars
  <2> QED
    BY <2>1, QuietPlaces DEF OnBus
<1> QED
  BY <1>2, <1>3

\* Arbitration moves a transaction from its queue to the bus.
LEMMA DequeuePlaces ==
  ASSUME TypeOK, GrantInv, pendingRequest = NULL,
         NEW p \in Procs, BusDequeues(p), phase' = "calls"
  PROVE  PlacesKept
<1> DEFINE queue == queuedRequests[p]
           req == Head(queue)
<1>1. queue \in Seq(QueuedReq) /\ queue # <<>>
  BY DEF TypeOK, SystemTypeOK, BusTypeOK, BusDequeues, HasTurn
<1>2. /\ req = queue[1] /\ req \in QueuedReq /\ 1 \in 1 .. Len(queue)
      /\ Len(queue) \in Nat \ {0} /\ Len(Tail(queue)) = Len(queue) - 1
      /\ \A n \in 1 .. Len(Tail(queue)) : Tail(queue)[n] = queue[n + 1]
  BY <1>1
<1>3. /\ OnBus'
      /\ pendingRequest'.procNum = p /\ pendingRequest'.addr = req.addr
  <2>1. pendingRequest' = [req EXCEPT !.currentState = "WAITING_CACHE"]
    BY DEF BusDequeues
  <2>2. req.procNum = p
    BY <1>2 DEF GrantInv, QueuesSound
  <2>3. pendingRequest' \in BusReq
    <3> HIDE DEF req
    <3> QED
      BY <1>2, <2>1 DEF QueuedReq, BusReq, BusReqStates
  <2>4. pendingRequest'.procNum = p /\ pendingRequest'.addr = req.addr
    <3> HIDE DEF req
    <3> QED
      BY <1>2, <2>1, <2>2 DEF QueuedReq
  <2> HIDE DEF req
  <2> QED
    BY <2>3, <2>4, NullIsNoRequest DEF OnBus
<1>4. /\ queuedRequests'[p] = Tail(queue)
      /\ \A q \in Procs \ {p} : queuedRequests'[q] = queuedRequests[q]
  BY DEF BusDequeues, TypeOK, SystemTypeOK, BusTypeOK
<1>5. ASSUME NEW a \in Addrs, QueuedFor(p, a), a # req.addr
      PROVE  QueuedFor(p, a)'
  <2>1. PICK n \in 1 .. Len(queue) : queue[n].addr = a
    BY <1>5 DEF QueuedFor
  <2>2. n - 1 \in 1 .. Len(Tail(queue)) /\ n = (n - 1) + 1
    <3>1. n # 1
      BY <1>2, <1>5, <2>1
    <3> QED
      BY <1>2, <2>1, <3>1
  <2>3. queuedRequests'[p][n - 1].addr = a
    BY <1>2, <1>4, <2>1, <2>2
  <2> QED
    BY <1>4, <2>2, <2>3 DEF QueuedFor
<1>6. \A q \in Procs \ {p}, a \in Addrs : QueuedFor(q, a) => QueuedFor(q, a)'
  BY <1>4 DEF QueuedFor
<1>7. \A q \in Procs, a \in Addrs : ~OnBusFor(q, a)
  BY DEF OnBusFor, OnBus
<1> HIDE DEF queue, req
<1> QED
  BY <1>3, <1>5, <1>6, <1>7 DEF PlacesKept, Placed, OnBusFor

LEMMA QuietTickPlaces ==
  ASSUME TypeOK, Lockstep, GrantInv, QuietTick
  PROVE  PlacesKept
<1>2. CASE MemoryTick
  <2>1. /\ UNCHANGED queuedRequests /\ phase' = "bus"
        /\ \/ pendingRequest' = pendingRequest
           \/ /\ pendingRequest # NULL
              /\ pendingRequest' = [pendingRequest EXCEPT !.dataAvail = TRUE]
    BY <1>2 DEF MemoryTick, memReqCallback
  <2>2. ASSUME OnBus
        PROVE  /\ OnBus'
               /\ pendingRequest'.procNum = pendingRequest.procNum
               /\ pendingRequest'.addr = pendingRequest.addr
    <3>1. pendingRequest \in BusReq
      BY <2>2 DEF OnBus, TypeOK, SystemTypeOK, BusTypeOK
    <3>2. /\ pendingRequest' \in BusReq
          /\ pendingRequest'.procNum = pendingRequest.procNum
          /\ pendingRequest'.addr = pendingRequest.addr
      BY <2>1, <3>1 DEF BusReq
    <3> QED
      BY <2>1, <3>2, NullIsNoRequest DEF OnBus
  <2> QED
    BY <2>1, <2>2, QuietPlaces
<1>3. CASE BusCounts
  BY <1>3, QuietPlaces DEF BusCounts, OnBus
<1>4. CASE BusReleases
  BY <1>4, QuietPlaces DEF BusReleases, OnBus
<1>5. CASE BusArbitrates
  <2>1. pendingRequest = NULL /\ phase' = "calls"
    BY <1>5, BusArbitratesLockstep DEF BusArbitrates
  <2>2. CASE UNCHANGED busVars
    BY <2>1, <2>2, QuietPlaces DEF busVars, OnBus
  <2>3. ASSUME NEW p \in Procs, BusDequeues(p)
        PROVE  PlacesKept
    BY <2>1, <2>3, DequeuePlaces
  <2> QED
    BY <1>5, <2>2, <2>3 DEF BusArbitrates
<1> QED
  BY <1>2, <1>3, <1>4, <1>5 DEF QuietTick

\* The snoop may change what the transaction is, never whose it is.
LEMMA IssueKeeps ==
  ASSUME TypeOK, Lockstep, Issue
  PROVE  /\ pendingRequest' # NULL
         /\ pendingRequest'.procNum = pendingRequest.procNum
         /\ pendingRequest'.addr = pendingRequest.addr
<1>1. BusIssues /\ pendingRequest \in BusReq
  BY BusIssuesLockstep DEF Issue
<1>2. \E s \in BusReqStates, d \in BOOLEAN, t \in BusReqTypes :
        pendingRequest' = [pendingRequest EXCEPT
                             !.currentState = s, !.data = d, !.brt = t]
  BY <1>1 DEF BusIssues, BusReq, BusReqStates, BusReqTypes
<1>3. /\ pendingRequest' \in BusReq
      /\ pendingRequest'.procNum = pendingRequest.procNum
      /\ pendingRequest'.addr = pendingRequest.addr
  BY <1>1, <1>2 DEF BusReq
<1> QED
  BY <1>3, NullIsNoRequest

LEMMA IssuePlaces ==
  ASSUME TypeOK, Lockstep, Issue
  PROVE  PlacesKept
<1>1. BusIssues /\ phase' = "calls" /\ pendingRequest \in BusReq
  BY BusIssuesLockstep DEF Issue, BusIssues
<1>2. \A q \in Procs, b \in Addrs : QueuedFor(q, b) => QueuedFor(q, b)'
  <2> DEFINE late(q) == NewBusReq("DATA", pendingRequest.addr, q, "QUEUED")
  <2> SUFFICES ASSUME NEW q \in Procs
               PROVE  \A b \in Addrs : QueuedFor(q, b) => QueuedFor(q, b)'
    OBVIOUS
  <2>1. \/ queuedRequests'[q] = queuedRequests[q]
        \/ queuedRequests'[q] = Append(queuedRequests[q], late(q))
    BY <1>1 DEF BusIssues
  <2>2. late(q) \in QueuedReq
    BY <1>1, QueuedReqType DEF BusReq, BusReqTypes
  <2> HIDE DEF late
  <2> QED
    BY <2>1, <2>2, AppendedPlaces DEF QueuedFor
<1>3. \A q \in Procs, b \in Addrs : OnBusFor(q, b) => OnBusFor(q, b)'
  BY <1>1, IssueKeeps DEF OnBusFor, OnBus
<1> QED
  BY <1>2, <1>3 DEF PlacesKept, Placed

\* The transaction that leaves the bus is the one its requester waits for.
LEMMA DeliverPlaces ==
  ASSUME TypeOK, Lockstep, GrantInv, Deliver
  PROVE  \A q \in Procs, b \in Addrs :
           /\ <<q, b>> \in waiting' => <<q, b>> \in waiting
           /\ <<q, b>> \in flushing' => <<q, b>> \in flushing
           /\ <<q, b>> \in waiting' \cup flushing' /\ Placed(q, b)
                => Placed(q, b)'
<1> DEFINE p == pendingRequest.procNum
           a == pendingRequest.addr
<1>1. p \in Procs /\ a \in Addrs /\ DeliveredType = "DATA"
  BY DeliveredAnswer DEF Deliver, BusReq
<1>2. \/ /\ coherStates[p][a] = "INVALID_MODIFIED"
         /\ <<p, a>> \in waiting /\ <<p, a>> \notin flushing
      \/ /\ coherStates[p][a] = "INVALID"
         /\ <<p, a>> \in flushing /\ <<p, a>> \notin waiting
  <2>1. <<p, a>> \in waiting \cup flushing
    BY DeliveredAnswer DEF Deliver, GrantInv, PendingSound
  <2> QED
    BY <1>1, <2>1 DEF GrantInv, CachesAgree, FlushingInvalid
<1>3. Delivery.send = FALSE
  BY <1>1, <1>2 DEF Delivery, snoopMI
<1>4. queuedRequests' = queuedRequests
  BY <1>3 DEF Deliver, BusDelivers
<1>5. \/ /\ waiting' = waiting \ {<<p, a>>} /\ flushing' = flushing
         /\ <<p, a>> \notin flushing
      \/ /\ flushing' = flushing \ {<<p, a>>} /\ waiting' = waiting
         /\ <<p, a>> \notin waiting
  BY <1>1, <1>2 DEF Deliver, Delivery, snoopMI
<1>6. <<p, a>> \notin waiting' \cup flushing'
  BY <1>5
<1>7. ASSUME NEW q \in Procs, NEW b \in Addrs, Placed(q, b),
             <<q, b>> \in waiting' \cup flushing'
      PROVE  Placed(q, b)'
  <2>1. ~OnBusFor(q, b)
    BY <1>6, <1>7 DEF OnBusFor
  <2> QED
    BY <1>4, <1>7, <2>1 DEF Placed, QueuedFor
<1> QED
  BY <1>5, <1>7

\* A step of the bus and memory, or none.
LEMMA OtherPlaces ==
  ASSUME TypeOK, Lockstep, GrantInv,
         QuietTick \/ Issue \/ TracesEnd \/ UNCHANGED vars
  PROVE  PlacesKept /\ UNCHANGED <<waiting, flushing>>
<1>1. CASE QuietTick
  BY <1>1, QuietTickPlaces DEF QuietTick, clientVars
<1>2. CASE Issue
  BY <1>2, IssuePlaces DEF Issue
<1>3. CASE TracesEnd \/ UNCHANGED vars
  BY <1>3, QuietPlaces
  DEF TracesEnd, vars, systemVars, clientVars, busVars, OnBus
<1> QED
  BY <1>1, <1>2, <1>3

LEMMA NextWaiters ==
  ASSUME TypeOK, Lockstep, GrantInv, WaitersPlaced, [Next]_vars
  PROVE  WaitersPlaced'
<1> USE DEF WaitersPlaced, PlacesKept
<1>1. ASSUME NEW p \in Procs, NEW a \in Addrs, Access(p, a)
      PROVE  WaitersPlaced'
  BY <1>1, AccessPlaces
<1>2. ASSUME NEW p \in Procs, NEW a \in Addrs, Evict(p, a)
      PROVE  WaitersPlaced'
  BY <1>2, EvictPlaces DEF Evict
<1>3. CASE Deliver
  BY <1>3, DeliverPlaces
<1>4. CASE QuietTick \/ Issue \/ TracesEnd \/ UNCHANGED vars
  BY <1>4, OtherPlaces
<1> QED
  BY <1>1, <1>2, <1>3, <1>4 DEF Next, Tick

LEMMA NextFlushers ==
  ASSUME TypeOK, Lockstep, GrantInv, FlushersPlaced, [Next]_vars,
         \A e, f \in Evictors : e = f
  PROVE  FlushersPlaced'
<1> USE DEF FlushersPlaced, PlacesKept
<1>1. ASSUME NEW p \in Procs, NEW a \in Addrs, Access(p, a)
      PROVE  FlushersPlaced'
  BY <1>1, AccessPlaces DEF Access
<1>2. ASSUME NEW p \in Procs, NEW a \in Addrs, Evict(p, a)
      PROVE  FlushersPlaced'
  <2>1. p \in Evictors
    BY <1>2 DEF Evict
  <2>2. \A q \in Procs \ {p} : <<q, a>> \notin flushing
    BY <2>1
  <2>3. /\ PlacesKept
        /\ \/ flushing' = flushing
           \/ flushing' = flushing \cup {<<p, a>>} /\ Placed(p, a)'
    BY <1>2, <2>2, EvictPlaces
  <2>4. ASSUME NEW q \in Procs, NEW b \in Addrs, <<q, b>> \in flushing'
        PROVE  q \in Evictors /\ Placed(q, b)'
    BY <2>1, <2>3, <2>4
  <2> QED
    BY <2>4
<1>3. CASE Deliver
  BY <1>3, DeliverPlaces
<1>4. CASE QuietTick \/ Issue \/ TracesEnd \/ UNCHANGED vars
  BY <1>4, OtherPlaces
<1> QED
  BY <1>1, <1>2, <1>3, <1>4 DEF Next, Tick

LEMMA WaitersStayPlaced ==
  Spec => [](TypeOK /\ Lockstep /\ GrantInv /\ WaitersPlaced)
<1>1. Init => TypeOK /\ Lockstep /\ GrantInv /\ WaitersPlaced
  BY InitLockstep, InitGrant DEF Init, WaitersPlaced
<1>2. TypeOK /\ Lockstep /\ GrantInv /\ WaitersPlaced /\ [Next]_vars
        => (TypeOK /\ Lockstep /\ GrantInv /\ WaitersPlaced)'
  BY NextLockstep, NextGrant, NextWaiters
<1> QED
  BY <1>1, <1>2, PTL DEF Spec

\* No request is lost or made twice: a waiting cache has exactly one
\* transaction, on the bus or in its queue, and one that has no business
\* with a block has none.
THEOREM RequestsAccounted == Spec => []RequestAccounted
<1>1. ASSUME TypeOK, GrantInv, WaitersPlaced,
             NEW p \in Procs, NEW a \in Addrs
      PROVE  /\ <<p, a>> \in waiting => Places(p, a) # {}
             /\ Places(p, a) # {} => <<p, a>> \in waiting \cup flushing
             /\ \A m, n \in Places(p, a) : m = n
  <2>1. \A n \in Places(p, a) :
          \/ n = 0 /\ OnBusFor(p, a)
          \/ n \in 1 .. Len(queuedRequests[p])
             /\ queuedRequests[p][n].addr = a
    BY DEF Places, OnBusFor, OnBus
  <2>2. <<p, a>> \in waiting => Places(p, a) # {}
    <3>1. OnBusFor(p, a) => 0 \in Places(p, a)
      BY DEF Places, OnBusFor, OnBus
    <3>2. QueuedFor(p, a) => \E n \in 1 .. Len(queuedRequests[p]) :
                               n \in Places(p, a)
      BY DEF Places, QueuedFor
    <3> QED
      BY <1>1, <3>1, <3>2 DEF WaitersPlaced, Placed
  <2>3. Places(p, a) # {} => <<p, a>> \in waiting \cup flushing
    BY <1>1, <2>1
    DEF GrantInv, QueuesSound, PendingSound, Purpose, OnBusFor
  <2>4. ASSUME NEW m \in Places(p, a), NEW n \in Places(p, a)
        PROVE  m = n
    <3>1. CASE OnBusFor(p, a)
      BY <1>1, <2>1, <2>4, <3>1 DEF GrantInv, PendingSound, OnBusFor
    <3>2. CASE ~OnBusFor(p, a)
      <4>1. /\ m \in 1 .. Len(queuedRequests[p])
            /\ n \in 1 .. Len(queuedRequests[p])
            /\ queuedRequests[p][m].addr = queuedRequests[p][n].addr
        BY <2>1, <2>4, <3>2
      <4> QED
        BY <1>1, <4>1 DEF GrantInv, QueuesSound
    <3> QED
      BY <3>1, <3>2
  <2> QED
    BY <2>2, <2>3, <2>4
<1>2. TypeOK /\ GrantInv /\ WaitersPlaced => RequestAccounted
  BY <1>1 DEF RequestAccounted
<1> QED
  BY <1>2, WaitersStayPlaced, PTL

\* Memory's answer is taken by the transaction that has asked for it: when
\* memory answers, the transaction on the bus is not one that has yet to ask,
\* nor one that a cache is answering, for which memory would be squelched.
LEMMA AnswersAreOwn ==
  ASSUME TypeOK, Lockstep, GrantInv, [Next]_vars, TakesAnswer
  PROVE  pendingRequest.currentState = "WAITING_MEMORY"
<1>1. /\ pendingRequest \in BusReq /\ ~pendingRequest.dataAvail
      /\ pendingRequest' \in BusReq /\ pendingRequest'.dataAvail
  BY NextLockstep DEF TakesAnswer, TypeOK, SystemTypeOK, BusTypeOK
<1>2. CASE MemoryTick
  <2>1. MemResponds(CacheTransfer)
    BY <1>1, <1>2 DEF MemoryTick
  <2>2. memRequest # NULL /\ ~CacheTransfer
    BY <2>1 DEF MemResponds, Lockstep, MemoryCounting
  <2>3. /\ PendingIs({"WAITING_CACHE", "WAITING_MEMORY", "TRANSFERING_CACHE"})
        /\ PendingIs({"WAITING_CACHE"}) => memRequest = NULL
        /\ PendingIs({"TRANSFERING_CACHE"}) /\ memRequest # NULL
             => MemoryServesPending
    BY <1>2, <2>2 DEF MemoryTick, TakesAnswer, Lockstep, BetweenTicks
  <2>4. ~PendingIs({"TRANSFERING_CACHE"})
    BY <2>2, <2>3
    DEF CacheTransfer, busReqCacheTransfer, MemoryServesPending, PendingIs,
        TakesAnswer
  <2> QED
    BY <2>2, <2>3, <2>4 DEF PendingIs
<1>3. CASE ~MemoryTick
  <2>1. ASSUME NEW brt, NEW a, NEW p, busReq(brt, a, p)
        PROVE  pendingRequest'.dataAvail = pendingRequest.dataAvail
    BY <1>1, <2>1
    DEF busReq, BusReqStarts, BusReqAnswers, BusReqQueues, TakesAnswer, BusReq
  <2>2. ASSUME NEW p \in Procs, NEW a \in Addrs, Access(p, a) \/ Evict(p, a)
        PROVE  pendingRequest'.dataAvail = pendingRequest.dataAvail
    <3>1. busReq("BUSWR", a, p) \/ busReq("DATA", a, p) \/ UNCHANGED busVars
      BY <2>2 DEF Access, permReq, Evict, invlReq
    <3> QED
      BY <2>1, <3>1 DEF busVars
  <2>3. CASE BusCounts \/ Issue \/ Deliver
    BY <1>1, <2>3 DEF BusCounts, Issue, BusIssues, Deliver, BusDelivers, BusReq
  <2>4. CASE BusReleases
    BY <2>4 DEF BusReleases, TakesAnswer
  <2>5. CASE BusArbitrates
    BY <2>5 DEF BusArbitrates, Lockstep, WithinTick, TakesAnswer
  <2>6. CASE TracesEnd \/ UNCHANGED vars
    BY <2>6 DEF TracesEnd, vars, systemVars, busVars, TakesAnswer
  <2> QED
    BY <1>1, <1>3, <2>2, <2>3, <2>4, <2>5, <2>6 DEF Next, Tick, QuietTick
<1> QED
  BY <1>2, <1>3

\* Memory takes on a request when it is idle, for the transaction on the bus
\* that has waited for the caches.
LEMMA MemoryIsAsked ==
  ASSUME TypeOK, Lockstep, [Next]_vars, MemoryAccepts
  PROVE  /\ memRequest = NULL
         /\ pendingRequest # NULL
         /\ pendingRequest.currentState = "WAITING_CACHE"
         /\ memRequest' = [addr |-> pendingRequest.addr,
                           procNum |-> pendingRequest.procNum]
<1>1. memCountDown \in Nat /\ memCountDown' > memCountDown
  BY DramAssumption DEF MemoryAccepts, TypeOK, SystemTypeOK, MemTypeOK
<1>2. Issue
  <2>1. CASE MemoryTick
    BY <1>1, <2>1 DEF MemoryTick, MemIdle, MemCounts, MemSquelches, MemResponds,
                      memVars
  <2>2. ASSUME NEW p \in Procs, NEW a \in Addrs, Access(p, a) \/ Evict(p, a)
        PROVE  FALSE
    BY <1>1, <2>2 DEF Access, permReq, Evict, invlReq, memVars
  <2>3. CASE BusCounts \/ BusReleases \/ BusArbitrates \/ Deliver
    BY <1>1, <2>3
    DEF BusCounts, BusReleases, BusArbitrates, Deliver, BusDelivers, memVars
  <2>4. CASE TracesEnd \/ UNCHANGED vars
    BY <1>1, <2>4 DEF TracesEnd, vars, systemVars, memVars
  <2> QED
    BY <2>1, <2>2, <2>3, <2>4 DEF Next, Tick, QuietTick
<1>3. /\ phase = "bus" /\ busCountDown > 0
      /\ pendingRequest.currentState = "WAITING_CACHE"
      /\ memRequest' = [addr |-> pendingRequest.addr,
                        procNum |-> pendingRequest.procNum]
  BY <1>2 DEF Issue, BusIssues, BusTicking, MemBusReq
<1>4. pendingRequest # NULL
  BY <1>3 DEF Lockstep, FreeBus
<1>5. memRequest = NULL
  BY <1>3, <1>4 DEF Lockstep, WithinTick, PendingIs
<1> QED
  BY <1>3, <1>4, <1>5

\* The bus forgets a transaction only when memory or a cache answered it:
\* neither a new request nor the end of another one displaces it.  And what
\* it takes for memory's answer was asked for by that very transaction.
THEOREM BusReleasesAnswered == Spec => ReleasedAnswered
<1> DEFINE Answered == pendingRequest.dataAvail \/ pendingRequest.data
           Stays == pendingRequest # NULL =>
                      /\ pendingRequest' # NULL
                      /\ pendingRequest'.procNum = pendingRequest.procNum
                      /\ pendingRequest'.addr = pendingRequest.addr
<1>1. ASSUME TypeOK, Lockstep, GrantInv, [Next]_vars
      PROVE  Stays \/ Answered
  <2>1. pendingRequest \in BusReq \cup {NULL}
        /\ pendingRequest' \in BusReq \cup {NULL}
    BY <1>1, NextLockstep DEF TypeOK, SystemTypeOK, BusTypeOK
  <2>2. ASSUME NEW brt, NEW a, NEW p, busReq(brt, a, p)
        PROVE  Stays
    <3>1. CASE BusReqStarts(brt, a, p)
      BY <3>1 DEF BusReqStarts
    <3>2. CASE BusReqAnswers(brt, a, p)
      <4>1. /\ pendingRequest # NULL
            /\ pendingRequest' = [pendingRequest EXCEPT
                                    !.data = TRUE,
                                    !.currentState = "TRANSFERING_CACHE"]
        BY <3>2 DEF BusReqAnswers, AnswersPending
      <4>2. /\ pendingRequest' \in BusReq
            /\ pendingRequest'.procNum = pendingRequest.procNum
            /\ pendingRequest'.addr = pendingRequest.addr
        BY <2>1, <4>1 DEF BusReq, BusReqStates
      <4> QED
        BY <4>2, NullIsNoRequest
    <3>3. CASE BusReqQueues(brt, a, p)
      BY <3>3 DEF BusReqQueues
    <3> QED
      BY <2>2, <3>1, <3>2, <3>3 DEF busReq
  <2>3. ASSUME NEW p \in Procs, NEW a \in Addrs, Access(p, a) \/ Evict(p, a)
        PROVE  Stays
    <3>1. busReq("BUSWR", a, p) \/ busReq("DATA", a, p) \/ UNCHANGED busVars
      BY <2>3 DEF Access, permReq, Evict, invlReq
    <3> QED
      BY <2>2, <3>1 DEF busVars
  <2>4. CASE MemoryTick
    BY <2>1, <2>4, NullIsNoRequest DEF MemoryTick, memReqCallback, BusReq
  <2>5. CASE BusCounts
    BY <2>5 DEF BusCounts
  <2>6. CASE BusReleases
    BY <1>1, <2>6 DEF BusReleases, Lockstep, InCallback
  <2>7. CASE BusArbitrates
    BY <1>1, <2>7, BusArbitratesLockstep
  <2>8. CASE Issue
    BY <1>1, <2>8, IssueKeeps
  <2>9. CASE Deliver
    BY <2>1, <2>9, NullIsNoRequest DEF Deliver, BusDelivers, BusReq
  <2>10. CASE TracesEnd \/ UNCHANGED vars
    BY <2>10 DEF TracesEnd, vars, systemVars, busVars
  <2> HIDE DEF Stays, Answered
  <2> QED
    BY <1>1, <2>3, <2>4, <2>5, <2>6, <2>7, <2>8, <2>9, <2>10
    DEF Next, Tick, QuietTick
<1>2. TypeOK /\ Lockstep /\ GrantInv /\ [Next]_vars
        => /\ LeavesBus => pendingRequest.dataAvail \/ pendingRequest.data
           /\ TakesAnswer => pendingRequest.currentState = "WAITING_MEMORY"
           /\ MemoryAccepts =>
                /\ memRequest = NULL
                /\ pendingRequest # NULL
                /\ pendingRequest.currentState = "WAITING_CACHE"
                /\ memRequest' = [addr |-> pendingRequest.addr,
                                  procNum |-> pendingRequest.procNum]
  BY <1>1, AnswersAreOwn, MemoryIsAsked DEF LeavesBus
<1> QED
  BY <1>2, WaitersStayPlaced, PTL DEF Spec, ReleasedAnswered

\* No write-back is lost when one cache evicts, which is all that teamCache
\* supports.  With two this fails (interconnect.c takes the second's DATA
\* for the answer to the first's).
THEOREM FlushesAccounted ==
  ASSUME \A e, f \in Evictors : e = f
  PROVE  Spec => []FlushAccounted
<1>1. Init => TypeOK /\ Lockstep /\ GrantInv /\ FlushersPlaced
  BY InitLockstep, InitGrant DEF Init, FlushersPlaced
<1>2. TypeOK /\ Lockstep /\ GrantInv /\ FlushersPlaced /\ [Next]_vars
        => (TypeOK /\ Lockstep /\ GrantInv /\ FlushersPlaced)'
  BY NextLockstep, NextGrant, NextFlushers
<1>3. FlushersPlaced => FlushAccounted
  BY DEF FlushersPlaced, FlushAccounted, Placed, OnBusFor, OnBus, QueuedFor,
         Places
<1> QED
  BY <1>1, <1>2, <1>3, PTL DEF Spec

\* What a step of the system must look like to the caches.
PortStep == [Port!PortNext]_(Port!portVars)

LEMMA UnseenStep ==
  ASSUME UNCHANGED <<waiting, flushing, held>>
  PROVE  PortStep
BY DEF PortStep, Port!portVars

\* permReq asks, unless the block is held or was asked for.
LEMMA AccessPort ==
  ASSUME GrantInv, TypeOK, NEW p \in Procs, NEW a \in Addrs, Access(p, a)
  PROVE  PortStep
<1>1. coherStates[p][a] \in States
  BY DEF TypeOK, SystemTypeOK, CoherTypeOK
<1>2. <<p, a>> \notin flushing /\ UNCHANGED <<flushing, held>>
  BY DEF Access
<1>3. CASE coherStates[p][a] = "INVALID"
  <2>1. <<p, a>> \notin waiting \cup held
    BY <1>3 DEF GrantInv, CachesAgree
  <2>2. waiting' = waiting \cup {<<p, a>>}
    BY <1>3 DEF Access, cacheMI
  <2>3. Port!Request(p, a)
    BY <1>2, <2>1, <2>2 DEF Port!Request
  <2> QED
    BY <2>3 DEF PortStep, Port!PortNext
<1>4. CASE coherStates[p][a] # "INVALID"
  <2>1. waiting' = waiting
    <3>1. CASE coherStates[p][a] = "MODIFIED"
      BY <3>1 DEF Access, cacheMI
    <3>2. CASE coherStates[p][a] = "INVALID_MODIFIED"
      BY <3>2 DEF Access, GrantInv, CachesAgree, cacheMI
    <3> QED
      BY <1>1, <1>4, <3>1, <3>2 DEF States
  <2> QED
    BY <1>2, <2>1, UnseenStep
<1> QED
  BY <1>3, <1>4

\* invlReq gives up what is held, and is otherwise not noticed.
LEMMA EvictPort ==
  ASSUME GrantInv, TypeOK, NEW p \in Procs, NEW a \in Addrs, Evict(p, a)
  PROVE  PortStep
<1>1. /\ coherStates[p][a] \in States
      /\ <<p, a>> \notin waiting /\ waiting' = waiting
      /\ held' = held \ {<<p, a>>}
  BY DEF Evict, TypeOK, SystemTypeOK, CoherTypeOK
<1>2. CASE coherStates[p][a] = "INVALID"
  <2>1. <<p, a>> \notin held
    BY <1>2 DEF GrantInv, CachesAgree
  <2> QED
    BY <1>1, <1>2, <2>1, UnseenStep DEF Evict
<1>3. CASE coherStates[p][a] # "INVALID"
  <2>1. coherStates[p][a] = "MODIFIED"
    BY <1>1, <1>3 DEF GrantInv, CachesAgree, States
  <2>2. <<p, a>> \in held /\ flushing' = flushing \cup {<<p, a>>}
    BY <1>3, <2>1 DEF Evict, GrantInv, CachesAgree
  <2>3. Port!GiveUp(p, a)
    BY <1>1, <2>2 DEF Port!GiveUp
  <2> QED
    BY <2>3 DEF PortStep, Port!PortNext
<1> QED
  BY <1>2, <1>3

\* The snoop takes a block from its one holder, for a cache that waits.
LEMMA IssuePort ==
  ASSUME TypeOK, Lockstep, GrantInv, Issue
  PROVE  PortStep
<1> DEFINE p == pendingRequest.procNum
           a == pendingRequest.addr
<1>1. /\ BusIssues /\ phase = "bus"
      /\ pendingRequest.currentState = "WAITING_CACHE"
      /\ UNCHANGED <<waiting, flushing>>
  BY DEF Issue, BusIssues, BusTicking
<1>2. pendingRequest \in BusReq /\ p \in Procs /\ a \in Addrs /\ OnBus
  <2>1. pendingRequest \in BusReq
    BY <1>1, BusIssuesLockstep
  <2> QED
    BY <1>1, <2>1, NullIsNoRequest DEF BusReq, OnBus
<1>3. <<p, a>> \in Purpose(pendingRequest)
  BY <1>1, <1>2 DEF GrantInv, PendingSound, PendingIs
<1>4. CASE pendingRequest.brt = "DATA"
  BY <1>1, <1>4, UnseenStep DEF Issue
<1>5. CASE pendingRequest.brt = "BUSWR"
  <2>1. <<p, a>> \in waiting /\ <<p, a>> \notin held
    BY <1>2, <1>3, <1>5 DEF Purpose, GrantInv, CachesAgree
  <2>2. \A i \in Invalidated : i \in Procs /\ <<i, a>> \in held
    <3> SUFFICES ASSUME NEW i \in Invalidated
                 PROVE  i \in Procs /\ <<i, a>> \in held
      OBVIOUS
    <3>1. i \in Procs /\ coherStates[i][a] \in States
      BY <1>2 DEF Invalidated, TypeOK, SystemTypeOK, CoherTypeOK
    <3>2. coherStates[i][a] = "MODIFIED"
      BY <1>2, <1>5, <3>1 DEF Invalidated, Snooped, snoopMI, States
    <3> QED
      BY <1>2, <3>1, <3>2 DEF GrantInv, CachesAgree
  <2>3. held' = held \ {<<i, a>> : i \in Invalidated}
    BY <1>5 DEF Issue
  <2>4. CASE Invalidated = {}
    BY <1>1, <2>3, <2>4, UnseenStep
  <2>5. ASSUME NEW i \in Invalidated
        PROVE  PortStep
    <3>1. Invalidated = {i}
      <4> SUFFICES ASSUME NEW j \in Invalidated
                   PROVE  j = i
        BY <2>5
      <4>1. /\ i \in Procs /\ <<i, a>> \in held
            /\ j \in Procs /\ <<j, a>> \in held
        BY <2>2, <2>5
      <4> QED
        BY <1>2, <4>1 DEF GrantInv, SingleHolder
    <3>2. i \in Procs /\ <<i, a>> \in held /\ i # p
      BY <2>1, <2>2, <2>5
    <3>3. held' = held \ {<<i, a>>}
      BY <2>3, <3>1
    <3>4. Port!Revoke(i, a)
      BY <1>1, <1>2, <2>1, <3>2, <3>3 DEF Port!Revoke
    <3> QED
      BY <1>2, <3>2, <3>4 DEF PortStep, Port!PortNext
  <2> QED
    BY <2>4, <2>5
<1> QED
  BY <1>2, <1>4, <1>5 DEF BusReq, BusReqTypes

\* The requester is told: a grant, if it waits, and otherwise the end of its
\* write-back.
LEMMA DeliverPort ==
  ASSUME TypeOK, Lockstep, GrantInv, Deliver
  PROVE  PortStep
<1> DEFINE p == pendingRequest.procNum
           a == pendingRequest.addr
<1>1. p \in Procs /\ a \in Addrs /\ OnBus
  BY DeliveredAnswer DEF Deliver, BusReq
<1>2. /\ PendingIs({"WAITING_MEMORY", "TRANSFERING_CACHE"})
      /\ DeliveredType = "DATA"
  BY DeliveredAnswer DEF Deliver
<1>3. CASE <<p, a>> \in waiting
  <2>1. coherStates[p][a] = "INVALID_MODIFIED"
    BY <1>1, <1>3 DEF GrantInv, CachesAgree
  <2>2. Delivery.ca = "DATA_RECV"
    BY <1>2, <2>1 DEF Delivery, snoopMI
  <2>3. \A q \in Procs : <<q, a>> \notin held
    BY <1>1, <1>2, <1>3 DEF GrantInv, SnoopedClear, CachesAgree
  <2>4. Port!Grant(p, a)
    BY <1>3, <2>2, <2>3 DEF Deliver, Port!Grant
  <2> QED
    BY <1>1, <2>4 DEF PortStep, Port!PortNext
<1>4. CASE <<p, a>> \notin waiting
  <2>1. <<p, a>> \in flushing /\ coherStates[p][a] = "INVALID"
    BY <1>1, <1>4 DEF GrantInv, PendingSound, FlushingInvalid
  <2>2. Delivery.ca = "FLUSH_COMPLETE"
    BY <1>2, <2>1 DEF Delivery, snoopMI
  <2>3. Port!Flushed(p, a)
    BY <2>1, <2>2 DEF Deliver, Port!Flushed
  <2> QED
    BY <1>1, <2>3 DEF PortStep, Port!PortNext
<1> QED
  BY <1>3, <1>4

LEMMA NextPort ==
  ASSUME TypeOK, Lockstep, GrantInv, [Next]_vars
  PROVE  PortStep
<1>1. ASSUME NEW p \in Procs, NEW a \in Addrs, Access(p, a) \/ Evict(p, a)
      PROVE  PortStep
  BY <1>1, AccessPort, EvictPort
<1>2. CASE QuietTick
  BY <1>2, UnseenStep DEF QuietTick, clientVars
<1>3. CASE Issue \/ Deliver
  BY <1>3, IssuePort, DeliverPort
<1>4. CASE TracesEnd \/ UNCHANGED vars
  BY <1>4, UnseenStep DEF TracesEnd, vars, clientVars
<1> QED
  BY <1>1, <1>2, <1>3, <1>4 DEF Next, Tick

\* Coherence, bus and memory together keep the promise of CoherencePort: a
\* cache is granted what it asked for, alone, loses a block only to one that
\* waits for it, and hears the end of a write-back it started.
THEOREM ImplementsPort == Spec => PortSpec
<1>1. Init => Port!PortInit
  BY DEF Init, Port!PortInit
<1>2. Spec => [](TypeOK /\ Lockstep /\ GrantInv)
  <2>1. Init => TypeOK /\ Lockstep /\ GrantInv
    BY InitLockstep, InitGrant
  <2>2. TypeOK /\ Lockstep /\ GrantInv /\ [Next]_vars
          => (TypeOK /\ Lockstep /\ GrantInv)'
    BY NextLockstep, NextGrant
  <2> QED
    BY <2>1, <2>2, PTL DEF Spec
<1>3. TypeOK /\ Lockstep /\ GrantInv /\ [Next]_vars
        => [Port!PortNext]_(Port!portVars)
  BY NextPort DEF PortStep
<1> QED
  BY <1>1, <1>2, <1>3, PTL DEF Spec, PortSpec, Port!PortSpec
=============================================================================
