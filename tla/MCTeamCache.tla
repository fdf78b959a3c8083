---------------------------- MODULE MCTeamCache ----------------------------
(***************************************************************************)
(* TeamCacheSystem for TLC: one processor, three blocks of four bytes and  *)
(* two lines, so that a trace of four accesses hits, misses, evicts and    *)
(* evicts again.  Five accesses stand for the rest: each block alone, and  *)
(* each pair of neighbours, from a whole block to a byte at its end.       *)
(***************************************************************************)
EXTENDS TeamCacheSystem

MCAccesses == {<<0, 4>>, <<4, 1>>, <<11, 1>>, <<3, 2>>, <<6, 6>>}

\* The two policies, one of them with the write buffer.
MCConfigurations == {<<"LRU", 0>>, <<"RRIP", 1>>}

BufferedLRU == {<<"LRU", 1>>}

\* One block at a time.
MCSingleAccesses == {<<0, 4>>, <<4, 1>>, <<11, 1>>}
=============================================================================
