---------------------------- MODULE SplitProofs ----------------------------
(***************************************************************************)
(* Whatever request is not refused, cache_split_prepare splits it into its *)
(* bytes.  The library's induction theorems have an operator for parameter *)
(* and cannot be applied: Induction is stated here for a set of numbers.   *)
(* With it IterationExists gives the loop, a recursive function, its       *)
(* values, and LoopInvariant follows the loop from piece to piece.         *)
(***************************************************************************)
EXTENDS Split, WellFoundedInduction, TLAPS

\* A set of numbers that is not empty has a least one.
LEMMA LeastOf ==
  ASSUME NEW I \in SUBSET Nat, I # {}
  PROVE  \E n \in I : \A i \in I : n <= i
<1> DEFINE less == {ss \in Nat \X Nat : ss[1] < ss[2]}
<1>1. IsWellFoundedOn(less, Nat)
  BY NatLessThanWellFounded, Zenon DEF OpToRel
<1>2. PICK n \in I : \A i \in I : ~(<<i, n>> \in less)
  BY <1>1, WFMin, Zenon
<1>3. ASSUME NEW i \in I PROVE n <= i
  <2>1. i \in Nat /\ n \in Nat
    OBVIOUS
  <2>2. ~(<<i, n>> \in less)
    BY <1>2
  <2>3. ~(i < n)
    BY <2>1, <2>2
  <2> QED
    BY <2>1, <2>3
<1> QED
  BY <1>3

\* Division by the size of a block, for an address and its quotient.
LEMMA QuotientAndRest ==
  ASSUME NEW a \in Nat
  PROVE  /\ a \div B \in Nat /\ a % B \in 0 .. B - 1
         /\ a = B * (a \div B) + (a % B)
BY BlockSizeAssumption

\* A later block begins after the earlier one has ended.
LEMMA ProductGrows ==
  ASSUME NEW p \in Nat, NEW q \in Nat, p < q
  PROVE  B * p + B <= B * q
<1>1. PICK d \in Nat : q = p + 1 + d
  <2>1. q - p - 1 \in Nat /\ q = p + 1 + (q - p - 1)
    OBVIOUS
  <2> QED
    BY <2>1
<1>2. B * q = B * p + B + B * d
  BY <1>1, BlockSizeAssumption
<1>3. B * d \in Nat /\ B * p \in Nat
  BY BlockSizeAssumption
<1> QED
  BY <1>2, <1>3, BlockSizeAssumption

\* There is one way to write an address as block and offset.
LEMMA QuotientIs ==
  ASSUME NEW a \in Nat, NEW q \in Nat, NEW r \in 0 .. B - 1, a = B * q + r
  PROVE  a \div B = q /\ a % B = r
<1>1. /\ a \div B \in Nat /\ a % B \in 0 .. B - 1
      /\ a = B * (a \div B) + (a % B)
  BY QuotientAndRest
<1> DEFINE p == a \div B
           s == a % B
<1> HIDE DEF p, s
<1>2. p \in Nat /\ s \in 0 .. B - 1 /\ a = B * p + s
  BY <1>1 DEF p, s
<1>3. B * p \in Nat /\ B * q \in Nat /\ B \in Nat
  BY <1>2, BlockSizeAssumption
<1>4. ~ (p < q)
  BY <1>2, <1>3, ProductGrows
<1>5. ~ (q < p)
  BY <1>2, <1>3, ProductGrows
<1>6. p = q
  BY <1>2, <1>4, <1>5
<1> QED
  BY <1>2, <1>3, <1>6 DEF p, s

\* A set of numbers that has 0, and with a number the next, has them all.
LEMMA Induction ==
  ASSUME NEW I \in SUBSET Nat, 0 \in I, \A n \in I : n + 1 \in I
  PROVE  I = Nat
<1> SUFFICES ASSUME Nat \ I # {} PROVE FALSE
  OBVIOUS
<1>1. PICK n \in Nat \ I : \A i \in Nat \ I : n <= i
  BY LeastOf
<1>2. n - 1 \in Nat
  OBVIOUS
<1>3. n - 1 \in I
  BY <1>1, <1>2
<1>4. n - 1 + 1 \in I
  BY <1>3
<1> QED
  BY <1>1, <1>2, <1>4

\* A step that can be taken from every state can be taken over and over.  The
\* function is put together from its finite beginnings, any two of which agree.
LEMMA IterationExists ==
  ASSUME NEW St, NEW x \in St, NEW step \in [St -> St]
  PROVE  \E f \in [Nat -> St] :
           f[0] = x /\ \A n \in Nat : f[n + 1] = step[f[n]]
<1> DEFINE Starts(n) ==
             {f \in [0 .. n -> St] :
                f[0] = x /\ \A i \in 0 .. n - 1 : f[i + 1] = step[f[i]]}
<1>1. \A n \in Nat : Starts(n) # {}
  <2> DEFINE I == {n \in Nat : Starts(n) # {}}
  <2>1. 0 \in I
    <3>1. [i \in 0 .. 0 |-> x] \in Starts(0)
      OBVIOUS
    <3> QED
      BY <3>1
  <2>2. ASSUME NEW n \in I PROVE n + 1 \in I
    <3>1. n \in Nat
      OBVIOUS
    <3>2. PICK f \in [0 .. n -> St] :
            f[0] = x /\ \A i \in 0 .. n - 1 : f[i + 1] = step[f[i]]
      OBVIOUS
    <3> DEFINE g == [i \in 0 .. n + 1 |->
                       IF i = n + 1 THEN step[f[n]] ELSE f[i]]
    <3>3. g \in [0 .. n + 1 -> St]
      BY <3>1, <3>2
    <3>4. g[0] = x
      BY <3>1, <3>2
    <3>5. ASSUME NEW i \in 0 .. n + 1 - 1 PROVE g[i + 1] = step[g[i]]
      <4>1. CASE i = n
        BY <3>1, <3>2, <4>1
      <4>2. CASE i # n
        <5>1. i \in 0 .. n - 1 /\ i + 1 \in 0 .. n /\ i \in 0 .. n
          BY <3>1, <4>2
        <5>2. g[i + 1] = f[i + 1] /\ g[i] = f[i]
          BY <3>1, <5>1
        <5> QED
          BY <3>2, <5>1, <5>2
      <4> QED
        BY <4>1, <4>2
    <3> HIDE DEF g
    <3>6. g \in Starts(n + 1)
      BY <3>3, <3>4, <3>5
    <3> QED
      BY <3>1, <3>6
  <2> HIDE DEF Starts
  <2>3. I = Nat
    BY <2>1, <2>2, Induction
  <2> QED
    BY <2>3
<1>2. ASSUME NEW n \in Nat, NEW f \in Starts(n), NEW g \in Starts(n + 1)
      PROVE  \A i \in 0 .. n : f[i] = g[i]
  <2> DEFINE I == {i \in Nat : i <= n => f[i] = g[i]}
  <2>1. 0 \in I
    OBVIOUS
  <2>2. ASSUME NEW i \in I PROVE i + 1 \in I
    <3>1. CASE i + 1 <= n
      <4>1. i \in 0 .. n - 1 /\ i \in 0 .. n + 1 - 1 /\ f[i] = g[i]
        BY <3>1
      <4>2. f[i + 1] = step[f[i]] /\ g[i + 1] = step[g[i]]
        BY <4>1
      <4> QED
        BY <4>1, <4>2
    <3> QED
      BY <3>1
  <2>3. I = Nat
    <3> HIDE DEF I
    <3>1. I \in SUBSET Nat
      BY DEF I
    <3> QED
      BY <2>1, <2>2, <3>1, Induction
  <2>4. ASSUME NEW i \in 0 .. n PROVE f[i] = g[i]
    <3>1. i \in Nat /\ i <= n
      OBVIOUS
    <3>2. i \in I
      <4> HIDE DEF I
      <4> QED
        BY <2>3, <3>1
    <3> QED
      BY <3>1, <3>2
  <2> QED
    BY <2>4
<1> DEFINE start(n) == CHOOSE f \in Starts(n) : TRUE
           f == [n \in Nat |-> start(n)[n]]
<1>3. \A n \in Nat : start(n) \in Starts(n)
  <2> HIDE DEF Starts
  <2> QED
    BY <1>1
<1> HIDE DEF start
<1>4. f \in [Nat -> St]
  <2>1. \A n \in Nat : start(n) \in [0 .. n -> St] /\ n \in 0 .. n
    BY <1>3
  <2> QED
    BY <2>1
<1>5. f[0] = x
  BY <1>3
<1>6. ASSUME NEW n \in Nat PROVE f[n + 1] = step[f[n]]
  <2>1. start(n) \in Starts(n) /\ start(n + 1) \in Starts(n + 1)
    BY <1>3
  <2>2. start(n + 1)[n + 1] = step[start(n + 1)[n]]
    BY <2>1
  <2>3. start(n)[n] = start(n + 1)[n]
    <3> HIDE DEF Starts
    <3>1. n \in 0 .. n
      OBVIOUS
    <3> QED
      BY <1>2, <2>1, <3>1
  <2> QED
    BY <2>2, <2>3
<1> QED
  BY <1>4, <1>5, <1>6

\* The state of the loop.
Loop == [memAddress : Nat, remaining : Nat]

\* A piece has no more bytes than are left, and some unless none are.
LEMMA BytesBounded ==
  ASSUME NEW a \in Nat, NEW left \in Nat
  PROVE  /\ Bytes(a, left) \in Nat /\ Bytes(a, left) <= left
         /\ left > 0 => Bytes(a, left) > 0
BY QuotientAndRest, BlockSizeAssumption DEF Bytes

\* Rest is what the loop of cache_split_prepare computes, step by step.
LEMMA RestIs ==
  ASSUME NEW address \in Nat, NEW size \in Nat
  PROVE  LET rest == Rest(address, size)
             a(n) == rest[n].memAddress
             left(n) == rest[n].remaining
             bytes(n) == Bytes(a(n), left(n))
         IN /\ a(0) = address /\ left(0) = size
            /\ \A n \in Nat :
                 /\ a(n) \in Nat /\ left(n) \in Nat
                 /\ a(n + 1) = IF left(n) # bytes(n) THEN a(n) + bytes(n)
                               ELSE a(n)
                 /\ left(n + 1) = left(n) - bytes(n)
<1> DEFINE first == [memAddress |-> address, remaining |-> size]
           Next(r) == [memAddress |->
                         IF r.remaining # Bytes(r.memAddress, r.remaining)
                           THEN r.memAddress + Bytes(r.memAddress, r.remaining)
                           ELSE r.memAddress,
                       remaining |->
                         r.remaining - Bytes(r.memAddress, r.remaining)]
           step == [r \in Loop |-> Next(r)]
           Loops(f) ==
             f = [index \in Nat |-> IF index = 0 THEN first
                                    ELSE Next(f[index - 1])]
           rest == Rest(address, size)
<1>1. first \in Loop
  BY DEF Loop
<1>2. step \in [Loop -> Loop]
  <2>1. ASSUME NEW r \in Loop PROVE Next(r) \in Loop
    <3>1. r.memAddress \in Nat /\ r.remaining \in Nat
      BY DEF Loop
    <3>2. /\ Bytes(r.memAddress, r.remaining) \in Nat
          /\ Bytes(r.memAddress, r.remaining) <= r.remaining
      BY <3>1, BytesBounded
    <3> QED
      BY <3>1, <3>2 DEF Loop
  <2> HIDE DEF Next
  <2> QED
    BY <2>1
<1>3. PICK f \in [Nat -> Loop] :
        f[0] = first /\ \A n \in Nat : f[n + 1] = step[f[n]]
  <2> HIDE DEF step, first
  <2> QED
    BY <1>1, <1>2, IterationExists
<1>4. Loops(f)
  <2> HIDE DEF Next, first
  <2>1. ASSUME NEW index \in Nat
        PROVE  f[index] = IF index = 0 THEN first ELSE Next(f[index - 1])
    <3>1. CASE index = 0
      BY <1>3, <3>1
    <3>2. CASE index # 0
      <4>1. index - 1 \in Nat /\ f[index - 1] \in Loop
        BY <1>3, <3>2
      <4>2. f[index - 1 + 1] = step[f[index - 1]]
        BY <1>3, <4>1
      <4> QED
        BY <3>2, <4>1, <4>2
    <3> QED
      BY <3>1, <3>2
  <2> QED
    BY <1>3, <2>1
<1>5. rest = CHOOSE g : Loops(g)
  BY DEF Rest
<1>6. Loops(rest)
  <2> HIDE DEF Loops, rest
  <2> QED
    BY <1>4, <1>5
<1>7. /\ rest[0] = first
      /\ \A n \in Nat : rest[n + 1] = Next(rest[n])
  <2> HIDE DEF Next, first, rest
  <2> QED
    BY <1>6
<1>8. \A n \in Nat : rest[n] \in Loop
  <2> DEFINE I == {n \in Nat : rest[n] \in Loop}
  <2>1. 0 \in I
    BY <1>1, <1>7
  <2>2. ASSUME NEW n \in I PROVE n + 1 \in I
    <3>1. n \in Nat /\ rest[n] \in Loop
      OBVIOUS
    <3>2. Next(rest[n]) \in Loop
      BY <1>2, <3>1
    <3> HIDE DEF Next, rest
    <3> QED
      BY <1>7, <3>1, <3>2
  <2>3. I = Nat
    <3> HIDE DEF I
    <3>1. I \in SUBSET Nat
      BY DEF I
    <3> QED
      BY <2>1, <2>2, <3>1, Induction
  <2> QED
    BY <2>3
<1> HIDE DEF rest
<1>9. rest[0].memAddress = address /\ rest[0].remaining = size
  BY <1>7
<1>10. ASSUME NEW n \in Nat
       PROVE  /\ rest[n].memAddress \in Nat /\ rest[n].remaining \in Nat
              /\ rest[n + 1].memAddress = Next(rest[n]).memAddress
              /\ rest[n + 1].remaining = Next(rest[n]).remaining
  <2> HIDE DEF Next
  <2> QED
    BY <1>7, <1>8 DEF Loop
<1> QED
  BY <1>9, <1>10 DEF rest

\* What is left of the request, in the block of its last byte and before.
LEMMA PieceOfBlock ==
  ASSUME NEW a \in Nat, NEW left \in Nat \ {0}, NEW last \in Nat,
         a + left = last + 1
  PROVE  LET available == B - (a % B)
         IN /\ a \div B = last \div B => left <= available
            /\ a \div B < last \div B =>
                 /\ left > available
                 /\ (a + available) \div B = (a \div B) + 1
                 /\ (a + available) % B = 0
<1>1. PICK q \in Nat, r \in 0 .. B - 1 :
        q = a \div B /\ r = a % B /\ a = B * q + r
  BY QuotientAndRest
<1>2. PICK p \in Nat, s \in 0 .. B - 1 :
        p = last \div B /\ s = last % B /\ last = B * p + s
  BY QuotientAndRest
<1>3. B \in Nat \ {0}
  BY BlockSizeAssumption
<1>4. ASSUME NEW x \in Int, x = B * q PROVE q = p => left <= B - r
  BY <1>1, <1>2, <1>3, <1>4
<1>5. ASSUME q < p PROVE left > B - r
  <2>1. B * q + B <= B * p
    BY <1>5, ProductGrows
  <2>2. PICK x \in Nat, y \in Nat : x = B * q /\ y = B * p
    BY <1>3
  <2>3. a = x + r /\ last = y + s /\ x + B <= y
    BY <1>1, <1>2, <2>1, <2>2
  <2> QED
    BY <1>3, <2>3
<1>6. (a + (B - r)) \div B = q + 1 /\ (a + (B - r)) % B = 0
  <2>1. B * (q + 1) = B * q + B
    BY <1>3
  <2>2. a + (B - r) = B * (q + 1) + 0 /\ a + (B - r) \in Nat
    BY <1>1, <1>3, <2>1
  <2>3. q + 1 \in Nat /\ 0 \in 0 .. B - 1
    BY <1>3
  <2> QED
    BY <2>2, <2>3, QuotientIs
<1>7. B * q \in Int
  BY <1>3
<1> QED
  BY <1>1, <1>2, <1>4, <1>5, <1>6, <1>7

\* Before each piece: what is left of the request ends where the request
\* does, and begins in the block of its turn.
LEMMA LoopInvariant ==
  ASSUME NEW address \in 0 .. AddressMax, NEW size \in Nat,
         ~Refused(address, size)
  PROVE  LET rest == Rest(address, size)
             a(n) == rest[n].memAddress
             left(n) == rest[n].remaining
         IN /\ Total(address, size) \in Nat \ {0}
            /\ \A n \in 0 .. Total(address, size) - 1 :
                 /\ a(n) \in Nat /\ left(n) \in Nat \ {0}
                 /\ a(n) + left(n) = address + size
                 /\ BlockNumber(a(n)) = BlockNumber(address) + n
                 /\ n > 0 => a(n) % B = 0
                 /\ n < Total(address, size) - 1 =>
                      /\ Bytes(a(n), left(n)) = B - (a(n) % B)
                      /\ a(n + 1) = a(n) + Bytes(a(n), left(n))
                 /\ n = Total(address, size) - 1 =>
                      Bytes(a(n), left(n)) = left(n)
<1> DEFINE rest == Rest(address, size)
           a(n) == rest[n].memAddress
           left(n) == rest[n].remaining
           bytes(n) == Bytes(a(n), left(n))
           total == Total(address, size)
           last == address + size - 1
           block == address \div B
           lastBlock == last \div B
<1>0. /\ address \in Nat /\ address <= AddressMax /\ AddressMax \in Nat
      /\ size > 0 /\ last \in Nat /\ address <= last /\ last <= AddressMax
  BY AddressesAssumption DEF Refused
<1>1. /\ a(0) = address /\ left(0) = size
      /\ \A n \in Nat :
           /\ a(n) \in Nat /\ left(n) \in Nat
           /\ a(n + 1) = IF left(n) # bytes(n) THEN a(n) + bytes(n) ELSE a(n)
           /\ left(n + 1) = left(n) - bytes(n)
  <2>1. address \in Nat /\ size \in Nat
    BY <1>0
  <2> QED
    BY <2>1, RestIs, ZenonT(60)
<1>2. total = lastBlock - block + 1
  BY <1>0 DEF Total, LastByte, BlockNumber
<1> HIDE DEF rest, total, last, block, lastBlock
<1>3. block \in Nat /\ lastBlock \in Nat /\ block <= lastBlock
  <2>1. /\ block \in Nat /\ address % B \in 0 .. B - 1
        /\ address = B * block + (address % B)
    BY <1>0, QuotientAndRest DEF block
  <2>2. /\ lastBlock \in Nat /\ last % B \in 0 .. B - 1
        /\ last = B * lastBlock + (last % B)
    BY <1>0, QuotientAndRest DEF lastBlock
  <2>3. ~(lastBlock < block)
    <3>1. lastBlock < block => B * lastBlock + B <= B * block
      BY <2>1, <2>2, ProductGrows
    <3>2. B * lastBlock \in Nat /\ B * block \in Nat /\ B \in Nat
      BY <2>1, <2>2, BlockSizeAssumption
    <3> QED
      BY <1>0, <2>1, <2>2, <3>1, <3>2
  <2> QED
    BY <2>1, <2>2, <2>3
<1> DEFINE Holds(n) ==
             /\ left(n) > 0
             /\ a(n) + left(n) = last + 1
             /\ a(n) \div B = block + n
             /\ n > 0 => a(n) % B = 0
<1>4. ASSUME NEW n \in Nat, n < total, Holds(n)
      PROVE  /\ n < total - 1 => /\ bytes(n) = B - (a(n) % B)
                                 /\ a(n + 1) = a(n) + bytes(n)
                                 /\ Holds(n + 1)
             /\ n = total - 1 => bytes(n) = left(n)
  <2>1. /\ a(n) \in Nat /\ left(n) \in Nat \ {0} /\ a(n) + left(n) = last + 1
        /\ a(n) \div B = block + n
    BY <1>1, <1>4
  <2>2. /\ a(n) \div B = lastBlock => left(n) <= B - (a(n) % B)
        /\ a(n) \div B < lastBlock =>
             /\ left(n) > B - (a(n) % B)
             /\ (a(n) + (B - (a(n) % B))) \div B = (a(n) \div B) + 1
             /\ (a(n) + (B - (a(n) % B))) % B = 0
    BY <1>0, <2>1, PieceOfBlock DEF lastBlock
  <2>3. PICK r \in 0 .. B - 1 : r = a(n) % B
    BY <2>1, QuotientAndRest
  <2>4. bytes(n) = IF left(n) < B - r THEN left(n) ELSE B - r
    BY <2>3 DEF Bytes
  <2>5. /\ a(n + 1) = IF left(n) # bytes(n) THEN a(n) + bytes(n) ELSE a(n)
        /\ left(n + 1) = left(n) - bytes(n)
    BY <1>1
  <2>6. B \in Nat \ {0}
    BY BlockSizeAssumption
  <2> HIDE DEF a, left, bytes
  <2>7. CASE n = total - 1
    <3>1. a(n) \div B = lastBlock
      BY <1>2, <1>3, <2>1, <2>7
    <3>2. left(n) <= B - r
      BY <2>2, <2>3, <3>1
    <3>3. bytes(n) = left(n)
      BY <2>1, <2>3, <2>4, <2>6, <3>2
    <3> QED
      BY <2>7, <3>3
  <2>8. CASE n < total - 1
    <3>1. a(n) \div B < lastBlock
      BY <1>2, <1>3, <2>1, <2>8
    <3>2. /\ left(n) > B - r
          /\ (a(n) + (B - r)) \div B = block + (n + 1)
          /\ (a(n) + (B - r)) % B = 0
      <4>1. block + n + 1 = block + (n + 1)
        BY <1>3
      <4> QED
        BY <2>1, <2>2, <2>3, <3>1, <4>1
    <3>3. bytes(n) = B - r /\ left(n) # bytes(n)
      BY <2>1, <2>3, <2>4, <2>6, <3>2
    <3>4. a(n + 1) = a(n) + (B - r) /\ left(n + 1) = left(n) - (B - r)
      BY <2>5, <3>3
    <3>5. left(n + 1) > 0 /\ a(n + 1) + left(n + 1) = last + 1
      BY <2>1, <2>3, <2>6, <3>2, <3>4
    <3> QED
      BY <2>3, <2>8, <3>2, <3>3, <3>4, <3>5
  <2>9. total \in Int
    BY <1>2, <1>3
  <2> QED
    BY <1>4, <2>7, <2>8, <2>9
<1>5. ASSUME NEW n \in Nat, n < total PROVE Holds(n)
  <2> DEFINE I == {i \in Nat : i < total => Holds(i)}
  <2>1. 0 \in I
    BY <1>0, <1>1, <1>3 DEF block, last
  <2>2. ASSUME NEW i \in I PROVE i + 1 \in I
    <3>1. i \in Nat /\ total \in Int
      BY <1>2, <1>3
    <3>2. CASE i + 1 < total
      <4>1. i < total /\ i < total - 1
        BY <3>1, <3>2
      <4>2. Holds(i)
        BY <4>1
      <4>3. Holds(i + 1)
        BY <1>4, <3>1, <4>1, <4>2
      <4> HIDE DEF Holds
      <4> QED
        BY <3>1, <4>3
    <3> HIDE DEF Holds
    <3> QED
      BY <3>1, <3>2
  <2>3. I = Nat
    <3> HIDE DEF I
    <3>1. I \in SUBSET Nat
      BY DEF I
    <3> QED
      BY <2>1, <2>2, <3>1, Induction
  <2>4. n \in I
    <3> HIDE DEF I
    <3> QED
      BY <2>3
  <2> HIDE DEF Holds
  <2> QED
    BY <1>5, <2>4
<1>6. total \in Nat \ {0}
  BY <1>2, <1>3
<1>7. ASSUME NEW n \in 0 .. total - 1
      PROVE  /\ a(n) \in Nat /\ left(n) \in Nat \ {0}
             /\ a(n) + left(n) = address + size
             /\ a(n) \div B = block + n
             /\ n > 0 => a(n) % B = 0
             /\ n < total - 1 => /\ bytes(n) = B - (a(n) % B)
                                 /\ a(n + 1) = a(n) + bytes(n)
             /\ n = total - 1 => bytes(n) = left(n)
  <2>1. n \in Nat /\ n < total
    BY <1>6
  <2>2. Holds(n)
    BY <1>5, <2>1
  <2>3. a(n) \in Nat /\ left(n) \in Nat
    BY <1>1, <2>1
  <2>4. last + 1 = address + size
    BY <1>0 DEF last
  <2>5. /\ n < total - 1 => bytes(n) = B - (a(n) % B)
                            /\ a(n + 1) = a(n) + bytes(n)
        /\ n = total - 1 => bytes(n) = left(n)
    <3> HIDE DEF Holds
    <3> QED
      BY <1>4, <2>1, <2>2
  <2> QED
    BY <2>2, <2>3, <2>4, <2>5
<1> QED
  BY <1>6, <1>7 DEF total, rest, block, BlockNumber

\* A larger address is in no lower block.
LEMMA BlocksInOrder ==
  ASSUME NEW a \in Nat, NEW b \in Nat, a <= b
  PROVE  BlockNumber(a) \in Nat /\ BlockNumber(a) <= BlockNumber(b)
<1>1. PICK p \in Nat, r \in 0 .. B - 1 : p = a \div B /\ a = B * p + r
  BY QuotientAndRest
<1>2. PICK q \in Nat, s \in 0 .. B - 1 : q = b \div B /\ b = B * q + s
  BY QuotientAndRest
<1>3. PICK x \in Nat, y \in Nat : x = B * p /\ y = B * q
  BY BlockSizeAssumption
<1>4. a = x + r /\ b = y + s
  BY <1>1, <1>2, <1>3
<1>5. q < p => y + B <= x
  BY <1>3, ProductGrows
<1>6. ~(q < p)
  BY <1>4, <1>5, BlockSizeAssumption
<1> QED
  BY <1>1, <1>2, <1>6 DEF BlockNumber

\* There is a piece for every block from that of the first byte, and they are
\* blocks of the address space.
LEMMA PiecesInBlocks ==
  ASSUME NEW address \in 0 .. AddressMax, NEW size \in Nat,
         ~Refused(address, size)
  PROVE  /\ Total(address, size) \in Nat \ {0}
         /\ Pieces(address, size)
              = [i \in 1 .. Total(address, size) |-> Pieces(address, size)[i]]
         /\ \A i \in 1 .. Total(address, size) :
              /\ Pieces(address, size)[i].block_index = i - 1
              /\ BlockNumber(Pieces(address, size)[i].memAddress)
                   \in 0 .. BlockNumber(AddressMax)
<1> DEFINE total == Total(address, size)
           rest == Rest(address, size)
           a(n) == rest[n].memAddress
           left(n) == rest[n].remaining
<1>1. /\ total \in Nat \ {0}
      /\ \A n \in 0 .. total - 1 :
           /\ a(n) \in Nat /\ left(n) \in Nat \ {0}
           /\ a(n) + left(n) = address + size
  BY LoopInvariant
<1>2. \A i \in 1 .. total : /\ Pieces(address, size)[i].block_index = i - 1
                            /\ Pieces(address, size)[i].memAddress = a(i - 1)
  BY DEF Pieces
<1>3. Pieces(address, size) = [i \in 1 .. total |-> Pieces(address, size)[i]]
  BY DEF Pieces
<1> HIDE DEF total, rest
<1>4. ASSUME NEW i \in 1 .. total
      PROVE  BlockNumber(a(i - 1)) \in 0 .. BlockNumber(AddressMax)
  <2>1. i - 1 \in 0 .. total - 1
    BY <1>1
  <2>2. a(i - 1) \in Nat /\ left(i - 1) \in Nat \ {0}
        /\ a(i - 1) + left(i - 1) = address + size
    BY <1>1, <2>1
  <2>3. AddressMax \in Nat /\ address + size <= AddressMax + 1
    BY AddressesAssumption DEF Refused
  <2> HIDE DEF a, left
  <2>4. a(i - 1) <= AddressMax
    BY <2>2, <2>3
  <2>5. BlockNumber(AddressMax) \in Nat
    BY <2>3, BlocksInOrder
  <2> QED
    BY <2>2, <2>3, <2>4, <2>5, BlocksInOrder
<1> QED
  BY <1>1, <1>2, <1>3, <1>4 DEF total

\* The pieces of every request that is not refused are its bytes, each once
\* and in order, none in two blocks or past the end of the addresses.
THEOREM SplitsAll ==
  ASSUME NEW address \in 0 .. AddressMax, NEW size \in Nat,
         ~Refused(address, size)
  PROVE  SplitsExactly(address, size)
<1> DEFINE pieces == Pieces(address, size)
           total == Total(address, size)
           rest == Rest(address, size)
           a(n) == rest[n].memAddress
           left(n) == rest[n].remaining
           bytes(n) == Bytes(a(n), left(n))
           End(i) == pieces[i].memAddress + pieces[i].size
<1>1. /\ total \in Nat \ {0}
      /\ \A n \in 0 .. total - 1 :
           /\ a(n) \in Nat /\ left(n) \in Nat \ {0}
           /\ a(n) + left(n) = address + size
           /\ BlockNumber(a(n)) = BlockNumber(address) + n
           /\ n > 0 => a(n) % B = 0
           /\ n < total - 1 => /\ bytes(n) = B - (a(n) % B)
                               /\ a(n + 1) = a(n) + bytes(n)
           /\ n = total - 1 => bytes(n) = left(n)
  BY LoopInvariant
<1>2. a(0) = address
  BY RestIs
<1>3. /\ pieces = [i \in 1 .. total |->
                     [memAddress |-> a(i - 1), size |-> bytes(i - 1),
                      block_index |-> i - 1]]
      /\ Len(pieces) = total /\ DOMAIN pieces = 1 .. total
  BY <1>1 DEF Pieces
<1> HIDE DEF pieces, total, rest
<1>4. ASSUME NEW i \in 1 .. total
      PROVE  /\ i - 1 \in 0 .. total - 1
             /\ pieces[i].memAddress = a(i - 1) /\ pieces[i].size = bytes(i - 1)
             /\ a(i - 1) \in Nat
             /\ bytes(i - 1) \in Nat \ {0} /\ bytes(i - 1) <= left(i - 1)
             /\ bytes(i - 1) <= B - (a(i - 1) % B)
  <2>1. i - 1 \in 0 .. total - 1
    BY <1>1
  <2>2. a(i - 1) \in Nat /\ left(i - 1) \in Nat \ {0}
    BY <1>1, <2>1
  <2>3. /\ bytes(i - 1) \in Nat \ {0} /\ bytes(i - 1) <= left(i - 1)
        /\ bytes(i - 1) <= B - (a(i - 1) % B)
    BY <2>2, QuotientAndRest, BlockSizeAssumption DEF Bytes
  <2>4. pieces[i].memAddress = a(i - 1) /\ pieces[i].size = bytes(i - 1)
    BY <1>3
  <2> QED
    BY <2>1, <2>2, <2>3, <2>4
<1>5. address \in Nat /\ AddressMax \in Nat /\ address + size - 1 <= AddressMax
      /\ size > 0
  BY AddressesAssumption DEF Refused
<1>6. pieces[1].memAddress = address
  BY <1>1, <1>2, <1>4
<1>7. End(total) = address + size
  <2>1. total \in 1 .. total /\ total - 1 \in 0 .. total - 1
    BY <1>1
  <2>2. bytes(total - 1) = left(total - 1)
        /\ a(total - 1) + left(total - 1) = address + size
    BY <1>1, <2>1
  <2> QED
    BY <1>4, <2>1, <2>2
<1>8. ASSUME NEW i \in 1 .. total
      PROVE  /\ pieces[i].size > 0
             /\ End(i) - 1 <= AddressMax
             /\ BlockNumber(pieces[i].memAddress) = BlockNumber(End(i) - 1)
             /\ i > 1 => /\ pieces[i].memAddress = End(i - 1)
                         /\ pieces[i].memAddress % B = 0
  <2> DEFINE n == i - 1
             q == a(n) \div B
             r == a(n) % B
  <2>1. /\ n \in 0 .. total - 1 /\ a(n) \in Nat /\ left(n) \in Nat
        /\ bytes(n) \in Nat \ {0} /\ bytes(n) <= left(n)
        /\ bytes(n) <= B - r
        /\ End(i) = a(n) + bytes(n) /\ pieces[i].memAddress = a(n)
        /\ pieces[i].size = bytes(n)
        /\ a(n) + left(n) = address + size
    BY <1>1, <1>4
  <2>2. End(i) - 1 <= AddressMax
    BY <1>5, <2>1
  <2>3. BlockNumber(a(n)) = BlockNumber(End(i) - 1)
    <3>1. PICK p \in Nat, t \in 0 .. B - 1 : p = q /\ t = r /\ a(n) = B * p + t
      BY <2>1, QuotientAndRest
    <3>2. B \in Nat \ {0}
      BY BlockSizeAssumption
    <3>3. PICK x \in Nat : x = B * p
      BY <3>2
    <3>4. PICK s \in Int : s = t + bytes(n) - 1
      BY <2>1, <3>2
    <3> HIDE DEF bytes, End, q, r, a, left
    <3>5. bytes(n) <= B - t
      BY <2>1, <3>1
    <3>6. s \in 0 .. B - 1
      BY <2>1, <3>2, <3>4, <3>5
    <3>7. End(i) - 1 = x + s /\ End(i) - 1 \in Nat
      <4>1. a(n) = x + t
        BY <3>1, <3>3
      <4> QED
        BY <2>1, <3>2, <3>4, <3>6, <4>1
    <3>8. (End(i) - 1) \div B = p
      BY <3>3, <3>6, <3>7, QuotientIs
    <3> QED
      BY <3>1, <3>8 DEF BlockNumber, q
  <2>4. ASSUME i > 1
        PROVE  pieces[i].memAddress = End(i - 1) /\ a(n) % B = 0
    <3>1. i - 1 \in 1 .. total /\ n - 1 \in 0 .. total - 1 /\ n - 1 < total - 1
          /\ n - 1 + 1 = n /\ n > 0
      BY <1>1, <2>4
    <3>2. a(n - 1 + 1) = a(n - 1) + bytes(n - 1)
      BY <1>1, <3>1
    <3>3. End(i - 1) = a(n - 1) + bytes(n - 1)
      BY <1>4, <3>1
    <3> QED
      BY <1>1, <2>1, <3>1, <3>2, <3>3
  <2> QED
    BY <2>1, <2>2, <2>3, <2>4
<1> QED
  BY <1>3, <1>6, <1>7, <1>8 DEF SplitsExactly, pieces
=============================================================================
