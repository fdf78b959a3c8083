----------------------------- MODULE SimpleCache -----------------------------
(***************************************************************************)
(* simpleCache: a cache that never gives up a block of its own accord.  It *)
(* keeps two lists of requests, both used as stacks: those that wait for   *)
(* coherence and those to be completed in this tick.  A failed assert()    *)
(* sets `aborted`.                                                         *)
(***************************************************************************)
EXTENDS MemorySystem, SequencesExt

VARIABLES pendReq, readyReq, aborted

cacheVars == <<pendReq, readyReq, aborted>>

PendingRequest == [tag : Nat, addr : Addrs, procNum : Procs]

CacheTypeOK ==
  /\ pendReq \in Seq(PendingRequest)
  /\ readyReq \in Seq(PendingRequest)
  /\ aborted \in BOOLEAN

CacheInit == pendReq = <<>> /\ readyReq = <<>> /\ aborted = FALSE

\* Mutant of memoryRequest: the answer of permReq is ignored.
memoryRequest_IgnoresPerm(p, a, tag) ==
  /\ permReq(p, a)
  /\ readyReq' = <<[tag |-> tag, addr |-> a, procNum |-> p]>> \o readyReq
  /\ UNCHANGED <<pendReq, aborted>>

\* memoryRequest: completed in the next tick if coherence permits the access
\* at once, and else when it calls back.
memoryRequest(p, a, tag) ==
  LET pr == [tag |-> tag, addr |-> a, procNum |-> p]
      perm == cacheMI(coherStates[p][a]).permAvail
  IN /\ permReq(p, a)
     /\ readyReq' = IF perm THEN <<pr>> \o readyReq ELSE readyReq
     /\ pendReq' = IF perm THEN pendReq ELSE <<pr>> \o pendReq
     /\ UNCHANGED aborted

\* The first request in pendReq that p made for block a, or 0.
FindPending(p, a) ==
  SelectInSeq(pendReq, LAMBDA r : r.procNum = p /\ r.addr = a)

\* Mutant of coherCallback: the request is not unlinked from pendReq.
coherCallback_KeepsPending(type, p, a) ==
  LET n == FindPending(p, a)
  IN /\ readyReq' = IF type = "DATA_RECV" /\ n > 0
                       THEN <<pendReq[n]>> \o readyReq ELSE readyReq
     /\ UNCHANGED <<pendReq, aborted>>

\* coherCallback.  Only DATA_RECV does anything, but every call asserts that
\* some request is pending, and DATA_RECV that this one is.
coherCallback(type, p, a) ==
  LET n == FindPending(p, a)
  IN \/ /\ type = "DATA_RECV"
        /\ n > 0
        /\ pendReq' = RemoveAt(pendReq, n)
        /\ readyReq' = <<pendReq[n]>> \o readyReq
        /\ UNCHANGED aborted
     \/ /\ type # "DATA_RECV" \/ n = 0
        /\ aborted' = (aborted \/ pendReq = <<>> \/ type = "DATA_RECV")
        /\ UNCHANGED <<pendReq, readyReq>>

\* The callbacks of a snoop, to every processor but the requester: none is
\* DATA_RECV.
SnoopCallbacks ==
  /\ aborted' = (\/ aborted
                 \/ /\ pendingRequest.brt # "DATA"
                    /\ Procs # {pendingRequest.procNum}
                    /\ pendReq = <<>>)
  /\ UNCHANGED <<pendReq, readyReq>>
=============================================================================
