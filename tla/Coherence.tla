----------------------------- MODULE Coherence -----------------------------
(***************************************************************************)
(* coherence/coherence.c with the MI protocol of coherence/protocol.c: one *)
(* state per processor and block (the tree coherStates[p], in which an     *)
(* absent block is INVALID), asked by the caches (permReq, invlReq) and by *)
(* the bus (busReq).  The protocol's two functions are operators that      *)
(* return the next state with what the function does besides: the          *)
(* transaction it sends, if any, and the answer it gives.                  *)
(***************************************************************************)
EXTENDS BusTypes

VARIABLE coherStates  \* coherStates[p][a]: p's state for block a

States == {"INVALID", "MODIFIED", "INVALID_MODIFIED"}

CoherTypeOK == coherStates \in [Procs -> [Addrs -> States]]

CoherInit == coherStates = [p \in Procs |-> [a \in Addrs |-> "INVALID"]]

\* cacheMI: a cache asks for a block.  send: a BUSWR goes on the bus.
cacheMI(state) ==
  IF state = "INVALID"
    THEN [next |-> "INVALID_MODIFIED", permAvail |-> FALSE, send |-> TRUE]
    ELSE [next |-> state, permAvail |-> state = "MODIFIED", send |-> FALSE]

\* Mutants of snoopMI: a BUSWR leaves the owner alone; the owner's cache is
\* not told that it lost the block; DATA is a grant whatever it was for.
snoopMI_KeepsOwner(reqType, state) ==
  CASE state = "INVALID_MODIFIED" /\ reqType = "DATA" ->
         [next |-> "MODIFIED", send |-> FALSE, ca |-> "DATA_RECV"]
    [] state = "INVALID" /\ reqType = "DATA" ->
         [next |-> state, send |-> FALSE, ca |-> "FLUSH_COMPLETE"]
    [] OTHER -> [next |-> state, send |-> FALSE, ca |-> "NO_ACTION"]

snoopMI_NotTold(reqType, state) ==
  CASE state = "MODIFIED" ->
         [next |-> "INVALID", send |-> TRUE, ca |-> "NO_ACTION"]
    [] OTHER -> snoopMI_KeepsOwner(reqType, state)

snoopMI_AlwaysGrants(reqType, state) ==
  CASE state = "MODIFIED" ->
         [next |-> "INVALID", send |-> TRUE, ca |-> "INVALIDATE"]
    [] reqType = "DATA" ->
         [next |-> "MODIFIED", send |-> FALSE, ca |-> "DATA_RECV"]
    [] OTHER -> [next |-> state, send |-> FALSE, ca |-> "NO_ACTION"]

\* snoopMI: a transaction reaches a processor.  ca: what its cache is told.
\* send: the processor puts DATA on the bus.
snoopMI(reqType, state) ==
  CASE state = "INVALID" ->
         [next |-> "INVALID", send |-> FALSE,
          ca |-> IF reqType = "DATA" THEN "FLUSH_COMPLETE" ELSE "NO_ACTION"]
    [] state = "MODIFIED" ->
         [next |-> "INVALID", send |-> TRUE, ca |-> "INVALIDATE"]
    [] state = "INVALID_MODIFIED" ->
         IF reqType = "DATA"
           THEN [next |-> "MODIFIED", send |-> FALSE, ca |-> "DATA_RECV"]
           ELSE [next |-> "INVALID_MODIFIED", send |-> FALSE,
                 ca |-> "NO_ACTION"]

\* setState and tree_remove: both leave the other blocks alone.
SetState(p, a, state) ==
  coherStates' = [coherStates EXCEPT ![p][a] = state]
=============================================================================
