---------------------------- MODULE MCSplayTree ----------------------------
(***************************************************************************)
(* SplayTree for TLC: five keys reach every shape that a rotation or the   *)
(* removal of a node with two subtrees tells apart; two records tell an    *)
(* update from the record that was there.                                  *)
(***************************************************************************)
EXTENDS SplayTree

MCKeys == 1 .. 5
=============================================================================
