-------------------------- MODULE SimpleCacheSystem --------------------------
(***************************************************************************)
(* Any number of cores, simpleCache, coherence, the bus and memory: the    *)
(* whole simulator with the components that all have source, from the      *)
(* first tick to the end of main's loop.  A tick of the processor is       *)
(*   "coherence"   simpleCache's tick calls coherence's, with its callbacks *)
(*   "ready"       simpleCache completes what is ready, one by one         *)
(*   "cores"       each core in turn goes on                               *)
(* and "ended" is after main's loop.                                       *)
(***************************************************************************)
EXTENDS SimpleCache, Processor

VARIABLE turn

vars == <<systemVars, cacheVars, processorVars, turn>>

Init ==
  /\ SystemInit
  /\ CacheInit
  /\ ProcessorInit
  /\ turn = "coherence"

\* The tick of coherence, with simpleCache's callbacks in it.
CoherenceTick ==
  /\ turn = "coherence"
  /\ \/ MemoryTick /\ UNCHANGED <<cacheVars, turn>>
     \/ (BusCounts \/ BusArbitrates) /\ turn' = "ready" /\ UNCHANGED cacheVars
     \/ BusIssues /\ turn' = "ready" /\ SnoopCallbacks
     \/ /\ BusDelivers
        /\ coherCallback(Delivery.ca, pendingRequest.procNum,
                         pendingRequest.addr)
        /\ UNCHANGED turn
     \/ BusReleases /\ turn' = "ready" /\ UNCHANGED cacheVars
  /\ UNCHANGED processorVars

\* The rest of simpleCache's tick: the loop over what is ready, with its
\* callbacks into the processor.  readyReq is what the loop has yet to free.
CompletesOne ==
  /\ turn = "ready"
  /\ readyReq # <<>>
  /\ core' = memOpCallback(core, Head(readyReq).procNum, Head(readyReq).tag)
  /\ readyReq' = Tail(readyReq)
  /\ UNCHANGED <<systemVars, pendReq, aborted, readerVars, visiting, progress,
                 turn>>

\* Nothing is left to complete: the processor's own tick goes on.
AllCompleted ==
  /\ turn = "ready"
  /\ readyReq = <<>>
  /\ turn' = "cores"
  /\ visiting' = 0
  /\ progress' = FALSE
  /\ UNCHANGED <<systemVars, cacheVars, coreVars>>

\* One core's pass through the loop of the processor's tick.
CoreIdles(p) ==
  /\ MemoryPending(p) \/ BranchPending(p) \/ TraceOver(p)
  /\ UNCHANGED <<systemVars, cacheVars>>

CoreComputes(p) ==
  /\ FetchesAlu(p) \/ \E m \in Mispredicts : FetchesBranch(p, m)
  /\ UNCHANGED <<systemVars, cacheVars>>

CoreAccesses(p, a) ==
  /\ FetchesMemOp(p)
  /\ memoryRequest(p, a, makeTag(p, core[p].memOpTag))

Visit(p) ==
  /\ turn = "cores"
  /\ visiting = p
  /\ Advance
  /\ CoreIdles(p) \/ CoreComputes(p) \/ \E a \in Addrs : CoreAccesses(p, a)
  /\ UNCHANGED turn

\* main's loop goes on while the processor made progress.
TickReturns ==
  /\ turn = "cores"
  /\ visiting = ProcessorCount
  /\ turn' = IF progress THEN "coherence" ELSE "ended"
  /\ UNCHANGED <<systemVars, cacheVars, processorVars>>

Next ==
  /\ ~aborted
  /\ \/ CoherenceTick
     \/ CompletesOne
     \/ AllCompleted
     \/ \E p \in Procs : Visit(p)
     \/ TickReturns

Spec == Init /\ [][Next]_vars

(***************************************************************************)
(* The simulator is one loop that nothing interrupts: it goes on until it  *)
(* ends.  Until then every turn comes again.  (That is WF_vars(Next),      *)
(* stated without ENABLED.)                                                *)
(***************************************************************************)
Looping ==
  /\ []<>(turn \in {"coherence", "ended"} \/ aborted)
  /\ []<>(turn \in {"cores", "ended"} \/ aborted)

FairSpec == Spec /\ Looping

-----------------------------------------------------------------------------
TypeOK ==
  /\ SystemTypeOK
  /\ CacheTypeOK
  /\ ProcessorTypeOK
  /\ turn \in {"coherence", "ready", "cores", "ended"}

\* simpleCache's assertions hold: no callback comes when nothing is pending,
\* not even a snoop's, and no grant for a request that is not.
NeverAborts == ~aborted

\* The requests of core p that simpleCache has.
RequestsOf(p) ==
  {r \in Range(pendReq) \cup Range(readyReq) : r.procNum = p}

\* One request for a core that waits, with the tag that will complete it,
\* and none for one that does not: no operation completes twice, for
\* another, or never.
OneRequestPerCore ==
  /\ \A p \in Procs :
       /\ core[p].pendingMem =>
            \E r \in RequestsOf(p) :
              RequestsOf(p) = {r} /\ r.tag = makeTag(p, core[p].memOpTag)
       /\ ~core[p].pendingMem => RequestsOf(p) = {}
  /\ Cardinality({p \in Procs : core[p].pendingMem})
       = Len(pendReq) + Len(readyReq)

\* When main's loop ends nothing is under way, not in the cache, on the bus or
\* in memory, and the traces have been read to their ends, every task of every
\* context included.  (An item of a text that is no operation is no progress:
\* if no other core makes any, it ends the simulation there.)
EndsQuiet ==
  turn = "ended" =>
    /\ \A p \in Procs : Ready(p) /\ (input.clean => ReadToTheEnd(p))
    /\ pendReq = <<>> /\ readyReq = <<>>
    /\ pendingRequest = NULL /\ memRequest = NULL
    /\ \A p \in Procs : queuedRequests[p] = <<>>

\* Every simulation ends: no core waits for memory for ever.
SimulationEnds == <>(turn = "ended")

-----------------------------------------------------------------------------
(***************************************************************************)
(* simpleCache uses the memory system as BusSystem lets a cache use it.    *)
(* It records no block it holds, so coherence's state stands for that.     *)
(***************************************************************************)
Waiting == {<<r.procNum, r.addr>> : r \in Range(pendReq)}
Held == {pa \in Procs \X Addrs : coherStates[pa[1]][pa[2]] = "MODIFIED"}

Bus == INSTANCE BusSystem WITH
  waiting <- Waiting, flushing <- {}, held <- Held,
  tracing <- TRUE, Evictors <- {}, MaxOutstanding <- 1

KeepsToInterface == Bus!Spec
=============================================================================
