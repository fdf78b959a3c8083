------------------------------- MODULE Split -------------------------------
(***************************************************************************)
(* teamCache/split.c: a memory request becomes a request for each block it *)
(* touches.  Addresses are those of bytes and end at AddressMax, where     *)
(* uint64_t would wrap; memory requests are given as an address and a      *)
(* size.                                                                   *)
(***************************************************************************)
EXTENDS Integers, Sequences

CONSTANTS B,           \* bytes per block, 2^b for option -b
          AddressMax   \* UINT64_MAX, the last byte's address

ASSUME BlockSizeAssumption == B \in Nat \ {0}
ASSUME AddressesAssumption == AddressMax \in Nat /\ (AddressMax + 1) % B = 0

BlockNumber(address) == address \div B

\* The requests that are refused: nothing, and past the end of the addresses.
Refused(address, size) == size <= 0 \/ size - 1 > AddressMax - address

LastByte(address, size) == address + (size - 1)

Total(address, size) ==
  BlockNumber(LastByte(address, size)) - BlockNumber(address) + 1

\* Mutant of Bytes: what is left of the block is not looked at.
Bytes_WholeBlock(address, remaining) == IF remaining < B THEN remaining ELSE B

\* The bytes of a block that a request for `remaining` bytes has to do with.
Bytes(address, remaining) ==
  LET available == B - (address % B)
  IN IF remaining < available THEN remaining ELSE available

\* The loop of cache_split_prepare: what is left of the request, and where
\* that begins, when `index` pieces are made.  The address stays where it is
\* after the last byte.
Rest(address, size) ==
  LET rest[index \in Nat] ==
        IF index = 0 THEN [memAddress |-> address, remaining |-> size]
        ELSE LET a     == rest[index - 1].memAddress
                 left  == rest[index - 1].remaining
                 bytes == Bytes(a, left)
             IN [memAddress |-> IF left # bytes THEN a + bytes ELSE a,
                 remaining  |-> left - bytes]
  IN rest

Pieces(address, size) ==
  [i \in 1 .. Total(address, size) |->
     LET rest == Rest(address, size)[i - 1]
     IN [memAddress |-> rest.memAddress,
         size |-> Bytes(rest.memAddress, rest.remaining),
         block_index |-> i - 1]]

\* The pieces are the bytes of the request, each once and in order, none of
\* the pieces empty, outside the address space or in two blocks, and no two
\* of them in one block.
SplitsExactly(address, size) ==
  LET pieces == Pieces(address, size)
      End(i) == pieces[i].memAddress + pieces[i].size
  IN /\ pieces[1].memAddress = address
     /\ End(Len(pieces)) = address + size
     /\ \A i \in DOMAIN pieces :
          /\ pieces[i].size > 0
          /\ End(i) - 1 <= AddressMax
          /\ BlockNumber(pieces[i].memAddress) = BlockNumber(End(i) - 1)
          /\ i > 1 => /\ pieces[i].memAddress = End(i - 1)
                      /\ pieces[i].memAddress % B = 0
=============================================================================
