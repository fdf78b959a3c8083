--------------------------- MODULE MCSimpleCache ---------------------------
(***************************************************************************)
(* SimpleCacheSystem for TLC: three cores and two blocks, so that a core   *)
(* asks for a block while a second one holds it and a third one waits.     *)
(***************************************************************************)
EXTENDS SimpleCacheSystem

=============================================================================
