---------------------------- MODULE MCBusSystem ----------------------------
(***************************************************************************)
(* BusSystem for TLC.  The delays are small but keep what the code's own   *)
(* 10, 10 and 90 have: several ticks pass in each state of a transaction   *)
(* and memory is slower than a transfer.                                   *)
(***************************************************************************)
EXTENDS BusInvariants

NoEvictors == {}
OneEvictor == {0}
AllEvictors == Procs

=============================================================================
