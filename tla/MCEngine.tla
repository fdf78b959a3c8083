------------------------------ MODULE MCEngine ------------------------------
(***************************************************************************)
(* Engine for TLC: two components can be watched, of which one reports, as *)
(* the interconnect does and the caches do not.                            *)
(***************************************************************************)
EXTENDS Engine
=============================================================================
