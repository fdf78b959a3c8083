--------------------------- MODULE CoherencePort ---------------------------
(***************************************************************************)
(* What the memory system promises the caches, with no bus, no memory and  *)
(* no ticks: a cache that asks for a block is granted it, alone, after     *)
(* whoever held it was told to drop it, and a cache that gives a block up  *)
(* is told when the write-back is over.  The operations are the calls      *)
(* permReq and invlReq and the callbacks INVALIDATE, DATA_RECV and         *)
(* FLUSH_COMPLETE of coherence.h.                                          *)
(***************************************************************************)
CONSTANTS CacheIds,  \* the caches, one per processor
          Blocks     \* block addresses

VARIABLES waiting,   \* <<p, a>>: p asked for a and has not been granted it
          flushing,  \* <<p, a>>: p gave a up and waits for the write-back
          held       \* <<p, a>>: p may use a

portVars == <<waiting, flushing, held>>

PortInit == waiting = {} /\ flushing = {} /\ held = {}

\* permReq for a block the cache may not use.  (For one it may use, or asked
\* for already, the call changes nothing.)
Request(p, a) ==
  /\ <<p, a>> \notin waiting \cup flushing \cup held
  /\ waiting' = waiting \cup {<<p, a>>}
  /\ UNCHANGED <<flushing, held>>

\* invlReq for a block the cache may use.
GiveUp(p, a) ==
  /\ <<p, a>> \in held
  /\ held' = held \ {<<p, a>>}
  /\ flushing' = flushing \cup {<<p, a>>}
  /\ UNCHANGED waiting

\* INVALIDATE: another cache wants the block.
Revoke(p, a) ==
  /\ <<p, a>> \in held
  /\ \E q \in CacheIds \ {p} : <<q, a>> \in waiting
  /\ held' = held \ {<<p, a>>}
  /\ UNCHANGED <<waiting, flushing>>

\* DATA_RECV: nobody else may use the block now.
Grant(p, a) ==
  /\ <<p, a>> \in waiting
  /\ \A q \in CacheIds : <<q, a>> \notin held
  /\ waiting' = waiting \ {<<p, a>>}
  /\ held' = held \cup {<<p, a>>}
  /\ UNCHANGED flushing

\* FLUSH_COMPLETE.
Flushed(p, a) ==
  /\ <<p, a>> \in flushing
  /\ flushing' = flushing \ {<<p, a>>}
  /\ UNCHANGED <<waiting, held>>

PortNext ==
  \E p \in CacheIds, a \in Blocks :
    \/ Request(p, a) \/ GiveUp(p, a)
    \/ Revoke(p, a) \/ Grant(p, a) \/ Flushed(p, a)

PortSpec == PortInit /\ [][PortNext]_portVars
=============================================================================
