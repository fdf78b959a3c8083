------------------------------ MODULE BusTypes ------------------------------
(***************************************************************************)
(* What memory, interconnect and coherence share: the processors, the      *)
(* block addresses, the kinds of bus transaction and the constant that     *)
(* stands for C's NULL.                                                    *)
(*                                                                         *)
(* Only the MI protocol is implemented (the other cases of the switches in *)
(* coherence.c are TODO comments), and MI sends BUSWR and DATA only:       *)
(* sendBusRd and indicateShared of protocol.c have no caller.  BUSRD and   *)
(* SHARED, and the `shared` flag that only SHARED sets, are left out.      *)
(***************************************************************************)
EXTENDS Integers

CONSTANTS ProcessorCount,  \* processorCount, the engine's -n
          Addrs,           \* block addresses
          NULL             \* the null pointer

ASSUME ProcessorCountAssumption == ProcessorCount \in Nat \ {0}

\* bus_req_type, the transactions MI uses
BusReqTypes == {"BUSWR", "DATA"}

\* Processors are numbered from 0, as `i < processorCount` loops do.
Procs == 0 .. (ProcessorCount - 1)

ASSUME NullAssumption ==
  /\ NULL \notin [addr : Addrs, procNum : Procs]
  /\ NULL \notin [brt : BusReqTypes, addr : Addrs, procNum : Procs,
                  currentState : {"QUEUED", "WAITING_CACHE", "WAITING_MEMORY",
                                  "TRANSFERING_CACHE", "TRANSFERING_MEMORY"},
                  data : BOOLEAN, dataAvail : BOOLEAN]
=============================================================================
