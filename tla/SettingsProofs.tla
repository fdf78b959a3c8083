--------------------------- MODULE SettingsProofs ---------------------------
(***************************************************************************)
(* Proofs about Settings, for every text and every chunk by which argument *)
(* lists grow: the parser stays within the text, the entries of the lists  *)
(* stay within what was allocated, and a text without the oddities that Settings names *)
(* is read as config.h says.  For the last, the parser's position is       *)
(* compared with the items of the text: what it has read is what the first *)
(* items stand for, and the others are ahead of it.                        *)
(***************************************************************************)
EXTENDS Settings, WellFoundedInduction, SequenceTheorems, TLAPS

\* What the parser takes out of the file: names, arguments, and a list of
\* arguments for each name.
Text == Seq(Classes)

Component == [name : Text, args : Seq(Text), null : Nat, room : Nat]

\* The parser counts the room of the last list, and a turn begins inside the
\* text or at its end.
SettingsInv ==
  /\ TypeOK
  /\ componentList \in Seq(Component)
  /\ EntriesFit
  /\ componentList # <<>> => argSize = componentList[Len(componentList)].room
  /\ ~ended => pos <= length + 1

-----------------------------------------------------------------------------
(***************************************************************************)
(* Where the scans stop.                                                   *)
(***************************************************************************)

\* A scan takes the first position that satisfies its condition, which is a
\* set here; the end of the text always does.
LEMMA FirstOf ==
  ASSUME NEW n \in Nat, NEW p \in 1 .. n + 1, NEW S
  PROVE  \E q \in p .. n + 1 :
           /\ q = n + 1 \/ q \in S
           /\ \A r \in p .. q - 1 : ~(r \in S)
<1> DEFINE I == {q \in p .. n + 1 : q = n + 1 \/ q \in S}
           less == {ss \in Nat \X Nat : ss[1] < ss[2]}
<1>1. I \in SUBSET Nat /\ n + 1 \in I
  OBVIOUS
<1>2. IsWellFoundedOn(less, Nat)
  BY NatLessThanWellFounded, Zenon DEF OpToRel
<1>3. PICK q \in I : \A r \in I : ~(<<r, q>> \in less)
  <2> HIDE DEF I, less
  <2> QED
    BY <1>1, <1>2, WFMin, Zenon
<1>4. ASSUME NEW r \in p .. q - 1 PROVE ~(r \in S)
  <2>1. r \in Nat /\ q \in Nat /\ r < q /\ r \in p .. n + 1
    BY <1>3
  <2>2. <<r, q>> \in less
    BY <2>1
  <2> QED
    BY <1>3, <2>1, <2>2
<1> QED
  BY <1>3, <1>4

\* What a scan finds.
LEMMA ScanIs ==
  ASSUME NEW text \in Text, NEW p \in 1 .. Len(text) + 1, NEW S
  PROVE  /\ Scan(text, p, S) \in p .. Len(text) + 1
         /\ Scan(text, p, S) = Len(text) + 1 \/ Scan(text, p, S) \in S
         /\ \A r \in p .. Scan(text, p, S) - 1 : r \notin S
<1> DEFINE Found(q) == /\ q = Len(text) + 1 \/ q \in S
                       /\ \A r \in p .. q - 1 : r \notin S
<1>1. Len(text) \in Nat
  BY DEF Text
<1>2. \E q \in p .. Len(text) + 1 : Found(q)
  BY <1>1, FirstOf
<1>3. Scan(text, p, S) = CHOOSE q \in p .. Len(text) + 1 : Found(q)
  BY DEF Scan
<1> HIDE DEF Found
<1>4. Scan(text, p, S) \in p .. Len(text) + 1 /\ Found(Scan(text, p, S))
  BY <1>2, <1>3
<1> QED
  BY <1>4 DEF Found

\* The scans of the parser stay in the text.
LEMMA ScanStays ==
  ASSUME TypeOK, NEW p \in 1 .. length + 1, NEW S
  PROVE  Scan(configContents, p, S) \in p .. length + 1
BY ScanIs DEF TypeOK, Text, length

\* White space is skipped within the text.
LEMMA SpaceScan ==
  ASSUME TypeOK, pos <= length + 1
  PROVE  Start \in pos .. length + 1
BY ScanStays DEF Start, TypeOK

-----------------------------------------------------------------------------
(***************************************************************************)
(* The argument lists.                                                     *)
(***************************************************************************)

\* A piece of the text is a text.
LEMMA PieceOfText ==
  ASSUME TypeOK, NEW m \in 1 .. length + 1, NEW n \in 0 .. length
  PROVE  SubSeq(configContents, m, n) \in Text
BY DEF TypeOK, Text, length

\* An argument is added to a list that has room for it, or gets it.
LEMMA AddKeeps ==
  ASSUME SettingsInv, componentList # <<>>, NEW arg \in Text, AddArgument(arg)
  PROVE  /\ componentList' \in Seq(Component)
         /\ argSize' \in Nat
         /\ EntriesFit'
         /\ componentList' # <<>>
         /\ argSize' = componentList'[Len(componentList')].room
<1> DEFINE last == Len(componentList)
           list == componentList[last]
           count == Len(list.args) + 1
           room == IF count = argSize THEN argSize + ARG_LIST_CHUNK_SIZE
                   ELSE list.room
           longer == [list EXCEPT !.args = Append(@, arg), !.null = count + 2,
                                  !.room = room]
<1> USE DEF SettingsInv
<1>1. CASE arg = <<>>
  BY <1>1 DEF AddArgument, TypeOK, EntriesFit
<1>2. CASE arg # <<>>
  <2>1. /\ last \in 1 .. Len(componentList) /\ list \in Component
        /\ argSize = list.room /\ argSize \in Nat
    BY DEF TypeOK
  <2>2. count <= argSize /\ count \in Nat
    BY <2>1 DEF EntriesFit, Component
  <2>3. room \in Nat /\ count + 1 <= room
    BY <2>1, <2>2, ChunkAssumption
  <2>4. /\ longer \in Component
        /\ Len(longer.args) + 1 <= longer.room /\ longer.room = room
        /\ longer.null = Len(longer.args) + 2
    <3> DEFINE null == count + 2
    <3>0. null \in Nat /\ null = Len(list.args) + 3
      BY <2>1 DEF Component
    <3> HIDE DEF room, list, null
    <3>1. /\ longer \in Component /\ longer.room = room
          /\ longer.args = Append(list.args, arg) /\ longer.null = null
      <4> DEFINE args == Append(list.args, arg)
      <4>1. args \in Seq(Text)
        BY <2>1 DEF Component
      <4> HIDE DEF args
      <4>2. LET new == [list EXCEPT !.args = args, !.null = null, !.room = room]
            IN /\ new \in Component /\ new.room = room /\ new.args = args
               /\ new.null = null
        BY <2>1, <2>3, <3>0, <4>1 DEF Component
      <4> QED
        BY <4>2 DEF args, null
    <3> QED
      BY <2>1, <2>2, <2>3, <3>0, <3>1 DEF Component
  <2>5. /\ argSize' = IF count = argSize THEN room ELSE argSize
        /\ componentList' = [componentList EXCEPT ![last] = longer]
    BY <1>2 DEF AddArgument
  <2>6. argSize' = room
    BY <2>1, <2>5
  <2> HIDE DEF longer, room, list, count
  <2>7. /\ componentList' \in Seq(Component)
        /\ Len(componentList') = Len(componentList)
        /\ \A i \in 1 .. Len(componentList) :
             componentList'[i] = IF i = last THEN longer ELSE componentList[i]
    BY <2>1, <2>4, <2>5
  <2>8. EntriesFit'
    <3> SUFFICES ASSUME NEW i \in DOMAIN componentList'
                 PROVE  /\ Len(componentList'[i].args) + 1
                             <= componentList'[i].room
                        /\ componentList'[i].null
                             = Len(componentList'[i].args) + 2
      BY DEF EntriesFit
    <3>1. i \in 1 .. Len(componentList) /\ i \in DOMAIN componentList
      BY <2>7
    <3>2. CASE i = last
      <4>1. componentList'[i] = longer
        BY <2>7, <3>1, <3>2
      <4> QED
        BY <2>4, <4>1
    <3>3. CASE i # last
      <4>1. componentList'[i] = componentList[i]
        BY <2>7, <3>1, <3>3
      <4> QED
        BY <3>1, <4>1 DEF EntriesFit
    <3> QED
      BY <3>2, <3>3
  <2> QED
    BY <2>1, <2>3, <2>4, <2>6, <2>7, <2>8
<1> QED
  BY <1>1, <1>2

\* The invariant follows for a turn that leaves the lists well-formed.
LEMMA TurnKeeps ==
  ASSUME SettingsInv, UNCHANGED configContents,
         inComment' \in BOOLEAN, inMultiComment' \in BOOLEAN,
         ended' \in BOOLEAN, pos' \in 1 .. length + 2,
         ~ended' => pos' <= length + 1,
         componentList' \in Seq(Component), argSize' \in Nat,
         EntriesFit',
         componentList' # <<>>
           => argSize' = componentList'[Len(componentList')].room
  PROVE  SettingsInv'
<1>1. length' = length
  BY DEF length
<1>2. \A i \in DOMAIN componentList' :
        /\ componentList'[i].name \in Text
        /\ componentList'[i].args \in Seq(Text)
        /\ componentList'[i].null \in Nat
        /\ componentList'[i].room \in Nat
  <2>1. \A i \in DOMAIN componentList' : componentList'[i] \in Component
    OBVIOUS
  <2> QED
    BY <2>1 DEF Component
<1> QED
  BY <1>1, <1>2 DEF SettingsInv, TypeOK, Text

-----------------------------------------------------------------------------
(***************************************************************************)
(* The turns of the loop.                                                  *)
(***************************************************************************)

\* The invariant holds when the file has been read.
LEMMA InitSettings == Init => SettingsInv
<1> SUFFICES ASSUME Init PROVE SettingsInv
  OBVIOUS
<1>1. configContents \in Seq(Classes) /\ length \in Nat
  BY TextsAssumption DEF Init, length
<1>2. componentList = <<>> /\ DOMAIN componentList = {}
  BY DEF Init
<1> QED
  <2>1. TypeOK
    <3>1. argSize \in Nat /\ pos \in 1 .. length + 2
      BY <1>1, ChunkAssumption DEF Init
    <3> QED
      BY <1>1, <1>2, <3>1 DEF Init, TypeOK
  <2>2. componentList \in Seq(Component)
    BY <1>2
  <2> QED
    BY <1>1, <1>2, <2>1, <2>2 DEF Init, SettingsInv, EntriesFit

\* Every turn keeps the invariant.
LEMMA NextSettings ==
  ASSUME SettingsInv, [Next]_vars
  PROVE  SettingsInv'
<1> USE DEF SettingsInv
<1>0. length \in Nat
  BY DEF TypeOK, length
<1>1. ASSUME NEW p \in 1 .. length + 2, Goes(p)
      PROVE  /\ pos' \in 1 .. length + 2 /\ ended' \in BOOLEAN
             /\ ~ended' => pos' <= length + 1
  <2>1. pos' = p /\ ended' = (p > length)
    BY <1>1 DEF Goes
  <2>2. ended' \in BOOLEAN /\ (ended' <=> p > length)
    <3>1. CASE p > length
      BY <2>1, <3>1
    <3>2. CASE ~(p > length)
      <4>1. (p > length) = FALSE
        BY <3>2
      <4> QED
        BY <2>1, <3>2, <4>1
    <3> QED
      BY <3>1, <3>2
  <2> QED
    BY <1>0, <2>1, <2>2
<1>2. ASSUME UNCHANGED <<componentList, argSize>>
      PROVE  /\ componentList' \in Seq(Component) /\ argSize' \in Nat
             /\ EntriesFit'
             /\ componentList' # <<>>
                  => argSize' = componentList'[Len(componentList')].room
  BY <1>2 DEF TypeOK, EntriesFit
<1>3. CASE ~ended /\ SkipComment
  <2> DEFINE q == Scan(configContents, pos,
                       Where(configContents, {"newline"}))
  <2>1. q \in 1 .. length + 2
    BY <1>0, <1>3, ScanStays DEF TypeOK
  <2> HIDE DEF q
  <2>2. Goes(q) /\ inComment' = FALSE
        /\ UNCHANGED <<configContents, inMultiComment, componentList, argSize>>
    BY <1>3 DEF SkipComment, q
  <2> QED
    BY <1>1, <1>2, <2>1, <2>2, TurnKeeps DEF TypeOK
<1>4. CASE ~ended /\ SkipMultiComment
  <2> DEFINE q == Scan(configContents, pos, CommentStops(configContents))
  <2>1. q \in pos .. length + 1
    BY <1>4, ScanStays DEF TypeOK
  <2>2. (IF q > length THEN q ELSE q + 2) \in 1 .. length + 2
    <3> HIDE DEF q
    <3> QED
      BY <1>0, <2>1 DEF TypeOK
  <2>3. Goes(IF q > length THEN q ELSE q + 2) /\ inMultiComment' = FALSE
        /\ UNCHANGED <<configContents, inComment, componentList, argSize>>
    BY <1>4 DEF SkipMultiComment
  <2> HIDE DEF q
  <2> QED
    BY <1>1, <1>2, <2>2, <2>3, TurnKeeps DEF TypeOK
<1>5. CASE ~ended /\ Slash
  <2>1. pos \in 1 .. length
    BY <1>0, <1>5 DEF Slash, At, TypeOK, length
  <2>2. inComment' \in BOOLEAN /\ inMultiComment' \in BOOLEAN
    BY <1>5 DEF Slash, OpensComment
  <2>3. PICK p \in {pos, pos + 2} : Goes(p)
    BY <1>5 DEF Slash
  <2>4. p \in 1 .. length + 2
    BY <1>0, <2>1
  <2>5. UNCHANGED <<configContents, componentList, argSize>>
    BY <1>5 DEF Slash
  <2> QED
    BY <1>1, <1>2, <2>2, <2>3, <2>4, <2>5, TurnKeeps
<1>6. CASE ~ended /\ (NothingLeft \/ NoComponent \/ NameCutOff)
  <2>1. Start \in pos .. length + 1
    BY <1>6, SpaceScan
  <2>2. pos' \in 1 .. length + 2
    <3>1. CASE NothingLeft \/ NoComponent
      BY <1>0, <2>1, <3>1 DEF NothingLeft, NoComponent, TypeOK
    <3>2. CASE NameCutOff
      <4>1. Start + 2 \in 1 .. length + 1
        BY <1>0, <2>1, <3>2 DEF NameCutOff, BeginsName, Two, At, TypeOK, length
      <4> QED
        BY <1>0, <3>2, <4>1, ScanStays DEF NameCutOff, NameEnd
    <3> QED
      BY <1>6, <3>1, <3>2
  <2>3. /\ ended' = TRUE
        /\ UNCHANGED <<configContents, inComment, inMultiComment,
                       componentList, argSize>>
    BY <1>6 DEF NothingLeft, NoComponent, NameCutOff
  <2> QED
    BY <1>2, <2>2, <2>3, TurnKeeps DEF TypeOK
<1>7. CASE ~ended /\ Name
  <2> DEFINE new == [name |-> SubSeq(configContents, Start + 2, NameEnd - 1),
                     args |-> <<>>, null |-> 2, room |-> ARG_LIST_CHUNK_SIZE]
  <2>1. Start \in 1 .. length /\ Start + 2 \in 1 .. length + 1
    BY <1>0, <1>7, SpaceScan DEF Name, BeginsName, Two, At, TypeOK, length
  <2>2. NameEnd \in Start + 2 .. length
    BY <1>0, <1>7, <2>1, ScanStays DEF Name, NameEnd
  <2>3. new \in Component
    <3>1. SubSeq(configContents, Start + 2, NameEnd - 1) \in Text
      BY <1>0, <2>1, <2>2, PieceOfText
    <3> QED
      BY <3>1, ChunkAssumption DEF Component
  <2>4. Len(new.args) + 1 <= new.room /\ new.null = Len(new.args) + 2
    BY ChunkAssumption
  <2>5. /\ componentList' = Append(componentList, new)
        /\ argSize' = new.room
        /\ Goes(NameEnd + 1)
        /\ UNCHANGED <<configContents, inComment, inMultiComment>>
    BY <1>7 DEF Name
  <2> HIDE DEF new
  <2>6. /\ componentList' \in Seq(Component) /\ argSize' \in Nat
        /\ Len(componentList') = Len(componentList) + 1
        /\ \A i \in 1 .. Len(componentList) :
             componentList'[i] = componentList[i]
        /\ componentList'[Len(componentList) + 1] = new
    BY <2>3, <2>5 DEF Component
  <2>7. EntriesFit'
    <3>1. DOMAIN componentList' = 1 .. Len(componentList) + 1
      BY <2>6
    <3>2. \A i \in DOMAIN componentList' :
            i = Len(componentList) + 1 \/ i \in DOMAIN componentList
      BY <3>1
    <3> QED
      BY <2>4, <2>6, <3>2 DEF EntriesFit
  <2>8. NameEnd + 1 \in 1 .. length + 2
    BY <1>0, <2>1, <2>2
  <2> QED
    BY <1>1, <2>5, <2>6, <2>7, <2>8, TurnKeeps DEF TypeOK
<1>8. CASE ~ended /\ Quoted
  <2> DEFINE end == Scan(configContents, Start + 1,
                         Where(configContents, {"quote"}))
             arg == SubSeq(configContents, Start + 1, end - 1)
  <2>1. Start \in 1 .. length
    BY <1>0, <1>8, SpaceScan DEF Quoted, BeginsArgument, TypeOK
  <2>2. end \in Start + 1 .. length + 1
    BY <1>0, <2>1, ScanStays
  <2>3. /\ AddArgument(arg) /\ Goes(end + 1) /\ componentList # <<>>
        /\ UNCHANGED <<configContents, inComment, inMultiComment>>
    BY <1>8 DEF Quoted
  <2> HIDE DEF end
  <2>4. arg \in Text /\ end + 1 \in 1 .. length + 2
    BY <1>0, <2>1, <2>2, PieceOfText
  <2> HIDE DEF arg
  <2>5. /\ componentList' \in Seq(Component) /\ argSize' \in Nat
        /\ EntriesFit'
        /\ argSize' = componentList'[Len(componentList')].room
    BY <2>3, <2>4, AddKeeps
  <2> QED
    BY <1>1, <2>3, <2>4, <2>5, TurnKeeps DEF TypeOK
<1>9. CASE ~ended /\ Argument
  <2> DEFINE end == Scan(configContents, Start, ArgumentEnds(configContents))
             arg == SubSeq(configContents, Start, end - 1)
  <2>1. Start \in 1 .. length
    BY <1>0, <1>9, SpaceScan DEF Argument, BeginsArgument, TypeOK
  <2>2. end \in Start .. length + 1
    BY <1>0, <2>1, ScanStays
  <2>3. /\ AddArgument(arg) /\ OpensComment(end) /\ componentList # <<>>
        /\ Goes(IF inComment' \/ inMultiComment' THEN end + 2 ELSE end + 1)
        /\ UNCHANGED configContents
    BY <1>9 DEF Argument
  <2> HIDE DEF end
  <2>4. arg \in Text
    BY <1>0, <2>1, <2>2, PieceOfText
  <2>5. end = length + 1 => ~inComment' /\ ~inMultiComment'
    BY <1>0, <2>3 DEF OpensComment, Two, At, length
  <2>6. PICK p \in 1 .. length + 2 : Goes(p)
    BY <1>0, <2>1, <2>2, <2>3, <2>5
  <2>7. inComment' \in BOOLEAN /\ inMultiComment' \in BOOLEAN
    BY <2>3 DEF OpensComment
  <2> HIDE DEF arg
  <2>8. /\ componentList' \in Seq(Component) /\ argSize' \in Nat
        /\ EntriesFit'
        /\ argSize' = componentList'[Len(componentList')].room
    BY <2>3, <2>4, AddKeeps
  <2> QED
    BY <1>1, <2>3, <2>6, <2>7, <2>8, TurnKeeps
<1>10. CASE UNCHANGED vars
  BY <1>2, <1>10, TurnKeeps DEF vars, TypeOK
<1> QED
  BY <1>3, <1>4, <1>5, <1>6, <1>7, <1>8, <1>9, <1>10 DEF Next, Turn

\* The parser stays within the invariant.
THEOREM StaysInvariant == Spec => []SettingsInv
BY InitSettings, NextSettings, PTL DEF Spec

\* Every variable keeps its type; in particular the position is never more
\* than one past the terminating zero, at which the loop has ended.
THEOREM TypeCorrect == Spec => []TypeOK
<1>1. SettingsInv => TypeOK
  BY DEF SettingsInv
<1> QED
  BY <1>1, StaysInvariant, PTL

\* No entry is written behind what was allocated for its list, and the NULL
\* behind the entries no further than the first slot after it, for any text
\* and any chunk of at least two slots.
THEOREM EntriesHaveRoom == Spec => []EntriesFit
<1>1. SettingsInv => EntriesFit
  BY DEF SettingsInv
<1> QED
  BY <1>1, StaysInvariant, PTL

-----------------------------------------------------------------------------
(***************************************************************************)
(* Induction, for sets of numbers.                                         *)
(***************************************************************************)

\* From the smaller numbers to the larger ones.
LEMMA Upwards ==
  ASSUME NEW n \in Nat, NEW P,
         \A m \in 0 .. n : 0 .. m - 1 \subseteq P => m \in P
  PROVE  0 .. n \subseteq P
<1> SUFFICES ASSUME ~(0 .. n \subseteq P) PROVE FALSE
  OBVIOUS
<1> DEFINE S == {m \in 1 .. n + 1 : m - 1 \notin P}
<1>1. PICK q \in 1 .. n + 1 + 1 : /\ q = n + 1 + 1 \/ q \in S
                                  /\ \A r \in 1 .. q - 1 : ~(r \in S)
  <2> HIDE DEF S
  <2>1. n + 1 \in Nat /\ 1 \in 1 .. n + 1 + 1
    OBVIOUS
  <2> QED
    BY <2>1, FirstOf
<1>2. \A m \in 0 .. n : m + 1 < q => m \in P
  BY <1>1
<1>3. CASE q \in S
  BY <1>2, <1>3
<1>4. CASE q = n + 2
  BY <1>2, <1>4
<1> QED
  BY <1>1, <1>3, <1>4

\* From the larger numbers to the smaller ones.
LEMMA Downwards ==
  ASSUME NEW n \in Nat, NEW P,
         \A m \in 1 .. n : m + 1 .. n \subseteq P => m \in P
  PROVE  1 .. n \subseteq P
<1> DEFINE Q == {m \in Nat : m = 0 \/ n + 1 - m \in P}
<1>1. ASSUME NEW m \in 0 .. n, 0 .. m - 1 \subseteq Q PROVE m \in Q
  <2>1. CASE m = 0
    BY <2>1
  <2>2. CASE m # 0
    <3>1. ASSUME NEW i \in n + 1 - m + 1 .. n PROVE i \in P
      <4>1. /\ n + 1 - i \in 0 .. m - 1 /\ n + 1 - i # 0
            /\ n + 1 - (n + 1 - i) = i
        BY <2>2
      <4> QED
        BY <1>1, <4>1
    <3>2. n + 1 - m \in 1 .. n
      BY <2>2
    <3>3. n + 1 - m \in P
      BY <3>1, <3>2
    <3> QED
      BY <3>3
  <2> QED
    BY <2>1, <2>2
<1>2. 0 .. n \subseteq Q
  <2> HIDE DEF Q
  <2> QED
    BY <1>1, Upwards
<1>3. ASSUME NEW i \in 1 .. n PROVE i \in P
  <2>1. n + 1 - i \in 0 .. n /\ n + 1 - i # 0 /\ n + 1 - (n + 1 - i) = i
    OBVIOUS
  <2> QED
    BY <1>2, <2>1
<1> QED
  BY <1>3

-----------------------------------------------------------------------------
(***************************************************************************)
(* The items of a text.                                                    *)
(***************************************************************************)

\* What an item is.
Kinds == {"line", "comment", "name", "cut", "argument"}

ItemSet == [kind : Kinds, at : Nat, text : Text, next : Nat]

\* The end of a scan is the one position with its properties.
LEMMA ScanUnique ==
  ASSUME NEW text \in Text, NEW p \in 1 .. Len(text) + 1, NEW S,
         NEW q \in p .. Len(text) + 1, q = Len(text) + 1 \/ q \in S,
         \A r \in p .. q - 1 : r \notin S
  PROVE  Scan(text, p, S) = q
<1>1. Len(text) \in Nat
  BY DEF Text
<1> QED
  BY <1>1, ScanIs

\* The characters and the pieces of a text.
LEMMA TextIs ==
  ASSUME NEW text \in Text
  PROVE  /\ Len(text) \in Nat
         /\ \A p \in 1 .. Len(text) :
              text[p] \in Classes /\ At(text, p) = text[p]
         /\ \A p \in Nat : p > Len(text) => At(text, p) = "end"
         /\ \A m \in 1 .. Len(text) + 1, n \in 0 .. Len(text) :
              SubSeq(text, m, n) \in Text
BY DEF Text, At

\* The fields of an item.
LEMMA FieldsOf ==
  ASSUME NEW text \in Text, NEW p \in 1 .. Len(text), NEW kind \in Kinds,
         NEW from \in 1 .. Len(text) + 1, NEW to \in 1 .. Len(text) + 1,
         NEW next \in p + 1 .. Len(text) + 2
  PROVE  /\ Item(kind, text, p, from, to, next) \in ItemSet
         /\ Item(kind, text, p, from, to, next).kind = kind
         /\ Item(kind, text, p, from, to, next).next = next
         /\ Item(kind, text, p, from, to, next).at = p
         /\ Item(kind, text, p, from, to, next).text
              = SubSeq(text, from, to - 1)
<1> DEFINE piece == SubSeq(text, from, to - 1)
<1>1. piece \in Text /\ next \in Nat /\ p \in Nat
  <2>1. Len(text) \in Nat /\ to - 1 \in 0 .. Len(text)
    BY TextIs
  <2> QED
    BY <2>1, TextIs
<1> HIDE DEF piece
<1>2. Item(kind, text, p, from, to, next)
        = [kind |-> kind, at |-> p, text |-> piece, next |-> next]
  BY DEF Item, piece
<1>3. /\ Item(kind, text, p, from, to, next) \in ItemSet
      /\ Item(kind, text, p, from, to, next).kind = kind
      /\ Item(kind, text, p, from, to, next).next = next
      /\ Item(kind, text, p, from, to, next).at = p
      /\ Item(kind, text, p, from, to, next).text = piece
  BY <1>1, <1>2 DEF ItemSet
<1> QED
  BY <1>3 DEF piece

\* A position has the item of the kind that its characters say.
LEMMA ItemKinds ==
  ASSUME NEW text \in Text, NEW p \in 1 .. Len(text)
  PROVE  /\ Two(text, p) = <<"/", "/">> =>
              text[p] = "/" /\ ItemAt(text, p) = LineItem(text, p)
         /\ Two(text, p) = <<"/", "*">> =>
              /\ text[p] = "/" /\ p + 1 <= Len(text)
              /\ ItemAt(text, p) = CommentItem(text, p)
         /\ Two(text, p) = <<"underscore", "underscore">> =>
              /\ text[p] = "underscore" /\ p + 1 <= Len(text)
              /\ ItemAt(text, p) = NameItem(text, p)
         /\ text[p] = "quote" => ItemAt(text, p) = QuotedItem(text, p)
         /\ \/ text[p] = "quote"
            \/ Two(text, p) \in {<<"/", "/">>, <<"/", "*">>,
                                  <<"underscore", "underscore">>}
            \/ ItemAt(text, p) = ArgumentItem(text, p)
<1>1. /\ Two(text, p) = <<text[p], At(text, p + 1)>>
      /\ p + 1 <= Len(text) \/ At(text, p + 1) = "end"
  BY TextIs DEF Two, At
<1> DEFINE first == text[p]
           two == Two(text, p)
<1>2. ItemAt(text, p)
        = CASE two = <<"/", "/">> -> LineItem(text, p)
            [] two = <<"/", "*">> -> CommentItem(text, p)
            [] two = <<"underscore", "underscore">> -> NameItem(text, p)
            [] first = "quote" -> QuotedItem(text, p)
            [] OTHER -> ArgumentItem(text, p)
  BY DEF ItemAt
<1>3. two = <<first, At(text, p + 1)>>
  BY <1>1
<1> HIDE DEF first, two
<1>4. /\ two = <<"/", "/">> =>
           first = "/" /\ ItemAt(text, p) = LineItem(text, p)
      /\ two = <<"/", "*">> =>
           first = "/" /\ ItemAt(text, p) = CommentItem(text, p)
      /\ two = <<"underscore", "underscore">> =>
           first = "underscore" /\ ItemAt(text, p) = NameItem(text, p)
      /\ first = "quote" => ItemAt(text, p) = QuotedItem(text, p)
      /\ \/ first = "quote"
         \/ two \in {<<"/", "/">>, <<"/", "*">>, <<"underscore", "underscore">>}
         \/ ItemAt(text, p) = ArgumentItem(text, p)
  BY <1>2, <1>3
<1>5. /\ two = <<"/", "*">> => At(text, p + 1) = "*"
      /\ two = <<"underscore", "underscore">> => At(text, p + 1) = "underscore"
  BY <1>3
<1> QED
  BY <1>1, <1>4, <1>5 DEF first, two

\* The rest of a line.
LEMMA LineItemIs ==
  ASSUME NEW text \in Text, NEW p \in 1 .. Len(text), text[p] = "/"
  PROVE  /\ LineItem(text, p) \in ItemSet
         /\ LineItem(text, p).kind = "line" /\ LineItem(text, p).at = p
         /\ LineItem(text, p).next = Scan(text, p, Where(text, {"newline"}))
         /\ LineItem(text, p).next \in p + 1 .. Len(text) + 2
<1> DEFINE end == Scan(text, p, Where(text, {"newline"}))
<1>1. Len(text) \in Nat
  BY TextIs
<1>2. end \in p + 1 .. Len(text) + 1
  BY <1>1, ScanIs DEF Where
<1>3. LineItem(text, p) = Item("line", text, p, p, end, end)
  BY DEF LineItem
<1> HIDE DEF end
<1>4. "line" \in Kinds /\ p \in 1 .. Len(text) + 1
      /\ end \in 1 .. Len(text) + 1 /\ end \in p + 1 .. Len(text) + 2
  BY <1>1, <1>2 DEF Kinds
<1> QED
  BY <1>3, <1>4, FieldsOf DEF end

\* A block comment.
LEMMA CommentItemIs ==
  ASSUME NEW text \in Text, NEW p \in 1 .. Len(text), p + 1 <= Len(text)
  PROVE  LET closing == Scan(text, p + 2, CommentCloses(text))
         IN /\ CommentItem(text, p) \in ItemSet
            /\ CommentItem(text, p).kind = "comment"
            /\ CommentItem(text, p).at = p
            /\ CommentItem(text, p).text = SubSeq(text, p + 2, closing - 1)
            /\ CommentItem(text, p).next
                 = IF closing > Len(text) THEN closing ELSE closing + 2
            /\ CommentItem(text, p).next \in p + 1 .. Len(text) + 2
<1> DEFINE closing == Scan(text, p + 2, CommentCloses(text))
           next == IF closing > Len(text) THEN closing ELSE closing + 2
<1>1. Len(text) \in Nat
  BY TextIs
<1>2. closing \in p + 2 .. Len(text) + 1
  BY <1>1, ScanIs
<1>3. CommentItem(text, p) = Item("comment", text, p, p + 2, closing, next)
  BY DEF CommentItem
<1> HIDE DEF closing
<1>4. "comment" \in Kinds /\ p + 2 \in 1 .. Len(text) + 1
      /\ closing \in 1 .. Len(text) + 1 /\ next \in p + 1 .. Len(text) + 2
  BY <1>1, <1>2 DEF Kinds
<1> HIDE DEF next
<1>5. /\ CommentItem(text, p) \in ItemSet
      /\ CommentItem(text, p).kind = "comment"
      /\ CommentItem(text, p).at = p
      /\ CommentItem(text, p).text = SubSeq(text, p + 2, closing - 1)
      /\ CommentItem(text, p).next = next
  BY <1>3, <1>4, FieldsOf
<1> QED
  BY <1>4, <1>5 DEF closing, next

\* A name, or the beginning of one.
LEMMA NameItemIs ==
  ASSUME NEW text \in Text, NEW p \in 1 .. Len(text), p + 1 <= Len(text)
  PROVE  LET end == Scan(text, p + 2, Where(text, Spaces))
         IN /\ NameItem(text, p) \in ItemSet /\ NameItem(text, p).at = p
            /\ NameItem(text, p).kind
                 = IF end > Len(text) THEN "cut" ELSE "name"
            /\ NameItem(text, p).text = SubSeq(text, p + 2, end - 1)
            /\ NameItem(text, p).next = end
            /\ NameItem(text, p).next \in p + 1 .. Len(text) + 2
<1> DEFINE end == Scan(text, p + 2, Where(text, Spaces))
           kind == IF end > Len(text) THEN "cut" ELSE "name"
<1>1. Len(text) \in Nat
  BY TextIs
<1>2. end \in p + 2 .. Len(text) + 1
  BY <1>1, ScanIs
<1>3. NameItem(text, p) = Item(kind, text, p, p + 2, end, end)
  BY DEF NameItem
<1> HIDE DEF end
<1>4. kind \in Kinds /\ p + 2 \in 1 .. Len(text) + 1
      /\ end \in 1 .. Len(text) + 1 /\ end \in p + 1 .. Len(text) + 2
  BY <1>1, <1>2 DEF Kinds
<1> DEFINE from == p + 2
<1> HIDE DEF kind, from
<1>5. /\ NameItem(text, p) \in ItemSet /\ NameItem(text, p).kind = kind
      /\ NameItem(text, p).at = p
      /\ NameItem(text, p).text = SubSeq(text, from, end - 1)
      /\ NameItem(text, p).next = end
  <2>1. NameItem(text, p) = Item(kind, text, p, from, end, end)
        /\ from \in 1 .. Len(text) + 1
    BY <1>3, <1>4 DEF from
  <2> QED
    BY <1>4, <2>1, FieldsOf
<1> QED
  BY <1>4, <1>5 DEF end, kind, from

\* An argument in quotes.
LEMMA QuotedItemIs ==
  ASSUME NEW text \in Text, NEW p \in 1 .. Len(text)
  PROVE  LET end == Scan(text, p + 1, Where(text, {"quote"}))
         IN /\ QuotedItem(text, p) \in ItemSet /\ QuotedItem(text, p).at = p
            /\ QuotedItem(text, p).kind = "argument"
            /\ QuotedItem(text, p).text = SubSeq(text, p + 1, end - 1)
            /\ QuotedItem(text, p).next = end + 1
            /\ QuotedItem(text, p).next \in p + 1 .. Len(text) + 2
<1> DEFINE end == Scan(text, p + 1, Where(text, {"quote"}))
<1>1. Len(text) \in Nat
  BY TextIs
<1>2. end \in p + 1 .. Len(text) + 1
  BY <1>1, ScanIs
<1>3. QuotedItem(text, p) = Item("argument", text, p, p + 1, end, end + 1)
  BY DEF QuotedItem
<1> HIDE DEF end
<1>4. "argument" \in Kinds /\ p + 1 \in 1 .. Len(text) + 1
      /\ end \in 1 .. Len(text) + 1 /\ end + 1 \in p + 1 .. Len(text) + 2
  BY <1>1, <1>2 DEF Kinds
<1> DEFINE from == p + 1
           next == end + 1
<1> HIDE DEF from, next
<1>5. /\ QuotedItem(text, p) \in ItemSet
      /\ QuotedItem(text, p).kind = "argument"
      /\ QuotedItem(text, p).at = p
      /\ QuotedItem(text, p).text = SubSeq(text, from, end - 1)
      /\ QuotedItem(text, p).next = next
  <2>1. /\ QuotedItem(text, p) = Item("argument", text, p, from, end, next)
        /\ from \in 1 .. Len(text) + 1 /\ next \in p + 1 .. Len(text) + 2
    BY <1>3, <1>4 DEF from, next
  <2> QED
    BY <1>4, <2>1, FieldsOf
<1> QED
  BY <1>4, <1>5 DEF end, from, next

\* An argument without quotes.
LEMMA ArgumentItemIs ==
  ASSUME NEW text \in Text, NEW p \in 1 .. Len(text), text[p] \notin Spaces,
         Two(text, p) \notin {<<"/", "/">>, <<"/", "*">>}
  PROVE  LET end == Scan(text, p, ArgumentEnds(text))
         IN /\ ArgumentItem(text, p) \in ItemSet
            /\ ArgumentItem(text, p).at = p
            /\ ArgumentItem(text, p).kind = "argument"
            /\ ArgumentItem(text, p).text = SubSeq(text, p, end - 1)
            /\ ArgumentItem(text, p).next = end
            /\ ArgumentItem(text, p).next \in p + 1 .. Len(text) + 2
<1> DEFINE end == Scan(text, p, ArgumentEnds(text))
<1>1. Len(text) \in Nat
  BY TextIs
<1>2. /\ end \in p .. Len(text) + 1
      /\ end = Len(text) + 1 \/ end \in ArgumentEnds(text)
  BY <1>1, ScanIs
<1>3. p \notin ArgumentEnds(text)
  BY DEF ArgumentEnds
<1>4. ArgumentItem(text, p) = Item("argument", text, p, p, end, end)
  BY DEF ArgumentItem
<1> HIDE DEF end
<1>5. "argument" \in Kinds /\ p \in 1 .. Len(text) + 1
      /\ end \in 1 .. Len(text) + 1 /\ end \in p + 1 .. Len(text) + 2
  BY <1>1, <1>2, <1>3 DEF Kinds
<1>6. /\ ArgumentItem(text, p) \in ItemSet
      /\ ArgumentItem(text, p).kind = "argument"
      /\ ArgumentItem(text, p).at = p
      /\ ArgumentItem(text, p).text = SubSeq(text, p, end - 1)
      /\ ArgumentItem(text, p).next = end
  BY <1>4, <1>5, FieldsOf
<1> QED
  BY <1>5, <1>6 DEF end

\* Every item takes at least one character.
LEMMA ItemAdvances ==
  ASSUME NEW text \in Text, NEW p \in 1 .. Len(text), text[p] \notin Spaces
  PROVE  /\ ItemAt(text, p) \in ItemSet /\ ItemAt(text, p).at = p
         /\ ItemAt(text, p).next \in p + 1 .. Len(text) + 2
<1>1. CASE Two(text, p) = <<"/", "/">>
  BY <1>1, ItemKinds, LineItemIs
<1>2. CASE Two(text, p) = <<"/", "*">>
  BY <1>2, ItemKinds, CommentItemIs
<1>3. CASE Two(text, p) = <<"underscore", "underscore">>
  <2>1. ItemAt(text, p) = NameItem(text, p) /\ p + 1 <= Len(text)
    BY <1>3, ItemKinds
  <2> QED
    BY <2>1, NameItemIs
<1>4. CASE text[p] = "quote"
  BY <1>4, ItemKinds, QuotedItemIs
<1>5. CASE /\ text[p] # "quote"
           /\ Two(text, p) \notin {<<"/", "/">>, <<"/", "*">>,
                                   <<"underscore", "underscore">>}
  BY <1>5, ItemKinds, ArgumentItemIs
<1> QED
  BY <1>1, <1>2, <1>3, <1>4, <1>5

-----------------------------------------------------------------------------
(***************************************************************************)
(* The items from a position on, and what the first items stand for.       *)
(***************************************************************************)

\* What the definition of ItemsFrom says of a position, if `from` are the
\* items from the later positions on.
ItemsThere(text, from, p) ==
  IF p > Len(text) THEN <<>>
  ELSE IF text[p] \in Spaces THEN from[p + 1]
  ELSE <<ItemAt(text, p)>> \o from[ItemAt(text, p).next]

\* The items from each position of a suffix on.
ItemsBehind(text, m, from) ==
  from = [p \in m .. Len(text) + 2 |-> ItemsThere(text, from, p)]

\* What is there depends on later positions only.
LEMMA LaterItems ==
  ASSUME NEW text \in Text, NEW p \in 1 .. Len(text) + 2, NEW f, NEW g,
         \A q \in p + 1 .. Len(text) + 2 : f[q] = g[q]
  PROVE  ItemsThere(text, f, p) = ItemsThere(text, g, p)
<1>1. Len(text) \in Nat
  BY TextIs
<1>2. CASE p > Len(text)
  BY <1>2 DEF ItemsThere
<1>3. CASE p <= Len(text) /\ text[p] \in Spaces
  <2>1. f[p + 1] = g[p + 1]
    BY <1>1, <1>3
  <2> QED
    BY <1>1, <1>3, <2>1 DEF ItemsThere
<1>4. CASE p <= Len(text) /\ text[p] \notin Spaces
  <2>1. p \in 1 .. Len(text)
    BY <1>1, <1>4
  <2>2. f[ItemAt(text, p).next] = g[ItemAt(text, p).next]
    BY <1>4, <2>1, ItemAdvances
  <2> QED
    BY <1>1, <1>4, <2>2 DEF ItemsThere
<1> QED
  BY <1>1, <1>2, <1>3, <1>4

\* There are such items for every suffix.
LEMMA ItemsBehindExist ==
  ASSUME NEW text \in Text
  PROVE  \E from : ItemsBehind(text, 1, from)
<1> DEFINE n == Len(text)
           P == {m \in 1 .. n + 1 : \E from : ItemsBehind(text, m, from)}
<1>1. n \in Nat
  BY TextIs
<1>2. ASSUME NEW m \in 1 .. n + 1, m + 1 .. n + 1 \subseteq P PROVE m \in P
  <2>1. CASE m = n + 1
    <3> DEFINE from == [p \in m .. n + 2 |-> <<>>]
    <3>1. \A p \in m .. n + 2 : <<>> = ItemsThere(text, from, p)
      BY <1>1, <2>1 DEF ItemsThere
    <3>2. ItemsBehind(text, m, from)
      BY <3>1 DEF ItemsBehind
    <3> QED
      BY <3>2
  <2>2. CASE m # n + 1
    <3>1. m + 1 \in P
      <4> HIDE DEF P
      <4> QED
        BY <1>1, <1>2, <2>2
    <3>2. PICK f : ItemsBehind(text, m + 1, f)
      BY <3>1
    <3> DEFINE from == [p \in m .. n + 2 |-> ItemsThere(text, f, p)]
    <3>3. \A p \in m + 1 .. n + 2 : from[p] = f[p]
      <4>1. \A p \in m + 1 .. n + 2 : f[p] = ItemsThere(text, f, p)
        BY <3>2 DEF ItemsBehind
      <4> QED
        BY <1>1, <4>1
    <3>4. ASSUME NEW p \in m .. n + 2
          PROVE  ItemsThere(text, f, p) = ItemsThere(text, from, p)
      <4> HIDE DEF from
      <4>1. \A q \in p + 1 .. n + 2 : f[q] = from[q]
        BY <1>1, <3>3
      <4> QED
        BY <1>1, <4>1, LaterItems
    <3>5. ItemsBehind(text, m, from)
      BY <3>4 DEF ItemsBehind
    <3> QED
      BY <3>5
  <2> QED
    BY <2>1, <2>2
<1>3. 1 .. n + 1 \subseteq P
  <2> HIDE DEF P
  <2>1. n + 1 \in Nat
    BY <1>1
  <2> QED
    BY <1>2, <2>1, Downwards
<1>4. 1 \in P
  <2> HIDE DEF P
  <2> QED
    BY <1>1, <1>3
<1> QED
  BY <1>4

\* ItemsFrom is what its definition says, and gives sequences of items.
LEMMA ItemsFromIs ==
  ASSUME NEW text \in Text
  PROVE  \A p \in 1 .. Len(text) + 2 :
           /\ ItemsFrom(text)[p] = ItemsThere(text, ItemsFrom(text), p)
           /\ ItemsFrom(text)[p] \in Seq(ItemSet)
<1> DEFINE n == Len(text)
           S == 1 .. n + 2
           Defined(from) == from = [p \in S |-> ItemsThere(text, from, p)]
           all == ItemsFrom(text)
           P == {p \in S : all[p] \in Seq(ItemSet)}
<1>1. n \in Nat
  BY TextIs
<1>2. PICK f : Defined(f)
  BY ItemsBehindExist DEF ItemsBehind
<1>3. all = CHOOSE from : Defined(from)
  BY DEF ItemsFrom, ItemsThere
<1>4. Defined(all)
  <2> HIDE DEF Defined, all
  <2> QED
    BY <1>2, <1>3
<1> HIDE DEF all
<1>5. \A p \in S : all[p] = ItemsThere(text, all, p)
  BY <1>4
<1>6. ASSUME NEW p \in 1 .. n + 2, p + 1 .. n + 2 \subseteq P PROVE p \in P
  <2>0. all[p] = ItemsThere(text, all, p)
    BY <1>5
  <2>1. CASE p > n
    <3>1. all[p] = <<>>
      BY <2>0, <2>1 DEF ItemsThere
    <3>2. all[p] \in Seq(ItemSet)
      BY <3>1
    <3> QED
      BY <3>2
  <2>2. CASE p <= n /\ text[p] \in Spaces
    <3>1. p + 1 \in P
      <4> HIDE DEF P
      <4> QED
        BY <1>1, <1>6, <2>2
    <3>2. all[p] = all[p + 1]
      BY <1>1, <2>0, <2>2 DEF ItemsThere
    <3> QED
      BY <3>1, <3>2
  <2>3. CASE p <= n /\ text[p] \notin Spaces
    <3> DEFINE next == ItemAt(text, p).next
    <3>1. ItemAt(text, p) \in ItemSet /\ next \in p + 1 .. n + 2
      BY <1>1, <2>3, ItemAdvances
    <3>2. all[p] = <<ItemAt(text, p)>> \o all[next]
      BY <1>1, <2>0, <2>3 DEF ItemsThere
    <3> HIDE DEF next
    <3>3. next \in P
      <4> HIDE DEF P
      <4> QED
        BY <1>6, <3>1
    <3>4. all[next] \in Seq(ItemSet)
      BY <3>3
    <3>5. all[p] \in Seq(ItemSet)
      BY <3>1, <3>2, <3>4
    <3> QED
      BY <3>5
  <2> QED
    BY <1>1, <2>1, <2>2, <2>3
<1>7. S \subseteq P
  <2> HIDE DEF P
  <2>1. n + 2 \in Nat
    BY <1>1
  <2> QED
    BY <1>6, <2>1, Downwards
<1> QED
  BY <1>5, <1>7 DEF all

\* The items from a position on, in the terms of the text.
LEMMA RestIs ==
  ASSUME NEW text \in Text, NEW p \in 1 .. Len(text) + 2
  PROVE  /\ p > Len(text) => ItemsFrom(text)[p] = <<>>
         /\ p <= Len(text) /\ text[p] \in Spaces =>
              ItemsFrom(text)[p] = ItemsFrom(text)[p + 1]
         /\ p <= Len(text) /\ text[p] \notin Spaces =>
              ItemsFrom(text)[p]
                = <<ItemAt(text, p)>> \o ItemsFrom(text)[ItemAt(text, p).next]
         /\ ItemsFrom(text)[p] \in Seq(ItemSet)
<1>1. Len(text) \in Nat
  BY TextIs
<1> DEFINE from == ItemsFrom(text)
<1>2. from[p] = ItemsThere(text, from, p) /\ from[p] \in Seq(ItemSet)
  BY ItemsFromIs
<1> HIDE DEF from
<1>3. /\ p > Len(text) => from[p] = <<>>
      /\ p <= Len(text) /\ text[p] \in Spaces => from[p] = from[p + 1]
      /\ p <= Len(text) /\ text[p] \notin Spaces =>
           from[p] = <<ItemAt(text, p)>> \o from[ItemAt(text, p).next]
  BY <1>1, <1>2 DEF ItemsThere
<1> QED
  BY <1>2, <1>3 DEF from

\* White space holds no item.
LEMMA SpacesHoldNone ==
  ASSUME NEW text \in Text, NEW p \in 1 .. Len(text) + 1,
         NEW q \in p .. Len(text) + 1,
         \A r \in p .. q - 1 : text[r] \in Spaces
  PROVE  ItemsFrom(text)[p] = ItemsFrom(text)[q]
<1> DEFINE P == {m \in Nat : p + m <= q
                               => ItemsFrom(text)[p] = ItemsFrom(text)[p + m]}
<1>1. Len(text) \in Nat
  BY TextIs
<1>2. ASSUME NEW m \in 0 .. q - p, 0 .. m - 1 \subseteq P PROVE m \in P
  <2>1. CASE m = 0
    BY <2>1
  <2>2. CASE m # 0
    <3>1. m - 1 \in P
      <4> HIDE DEF P
      <4> QED
        BY <1>2, <2>2
    <3> DEFINE r == p + (m - 1)
    <3>2. r \in p .. q - 1 /\ r + 1 = p + m /\ r \in 1 .. Len(text)
      BY <1>1, <2>2
    <3>3. ItemsFrom(text)[p] = ItemsFrom(text)[r]
      BY <1>1, <3>1, <3>2
    <3> HIDE DEF r
    <3>4. ItemsFrom(text)[r] = ItemsFrom(text)[r + 1]
      <4>1. r \in 1 .. Len(text) + 2 /\ r <= Len(text) /\ text[r] \in Spaces
        BY <1>1, <3>2
      <4> QED
        BY <4>1, RestIs
    <3> QED
      BY <3>2, <3>3, <3>4
  <2> QED
    BY <2>1, <2>2
<1>3. 0 .. q - p \subseteq P
  <2> HIDE DEF P
  <2>1. q - p \in Nat
    BY <1>1
  <2> QED
    BY <1>2, <2>1, Upwards
<1>4. q - p \in P
  <2> HIDE DEF P
  <2> QED
    BY <1>1, <1>3
<1> QED
  BY <1>1, <1>4

\* What the first m items stand for is given by the first m - 1.
LEMMA ReadingIs ==
  ASSUME NEW items, Len(items) \in Nat
  PROVE  /\ Reading(items)[0] = <<>>
         /\ \A m \in 1 .. Len(items) :
              Reading(items)[m] = Take(Reading(items)[m - 1], items[m])
<1> DEFINE n == Len(items)
           There(read, m) ==
             IF m = 0 THEN <<>> ELSE Take(read[m - 1], items[m])
           Upto(read, k) == read = [m \in 0 .. k |-> There(read, m)]
           P == {k \in Nat : \E read : Upto(read, k)}
<1>1. ASSUME NEW k \in 0 .. n, 0 .. k - 1 \subseteq P PROVE k \in P
  <2>1. CASE k = 0
    <3> DEFINE read == [m \in 0 .. 0 |-> <<>>]
    <3>1. Upto(read, 0)
      OBVIOUS
    <3> QED
      BY <2>1, <3>1
  <2>2. CASE k # 0
    <3>1. k - 1 \in P
      <4> HIDE DEF P
      <4> QED
        BY <1>1, <2>2
    <3> HIDE DEF There
    <3>2. PICK r : Upto(r, k - 1)
      BY <3>1
    <3> DEFINE read == [m \in 0 .. k |-> There(r, m)]
    <3>3. ASSUME NEW m \in 0 .. k PROVE There(r, m) = There(read, m)
      <4>1. CASE m = 0
        BY <4>1 DEF There
      <4>2. CASE m # 0
        <5>1. r[m - 1] = There(r, m - 1)
          BY <3>2, <4>2
        <5>2. read[m - 1] = There(r, m - 1)
          BY <4>2
        <5> HIDE DEF read
        <5> QED
          BY <4>2, <5>1, <5>2 DEF There
      <4> QED
        BY <4>1, <4>2
    <3>4. Upto(read, k)
      BY <3>3
    <3>5. \E other : Upto(other, k)
      <4> HIDE DEF read, Upto
      <4> QED
        BY <3>4
    <3> QED
      BY <3>5
  <2> QED
    BY <2>1, <2>2
<1>2. n \in P
  <2> HIDE DEF P
  <2>1. 0 .. n \subseteq P
    BY <1>1, Upwards
  <2> QED
    BY <2>1
<1>3. PICK r : Upto(r, n)
  BY <1>2
<1>4. Reading(items) = CHOOSE read : Upto(read, n)
  BY DEF Reading
<1> DEFINE read == Reading(items)
<1>5. Upto(read, n)
  <2> HIDE DEF Upto, n
  <2> QED
    BY <1>3, <1>4
<1> HIDE DEF read, There
<1>6. \A m \in 0 .. n : read[m] = There(read, m)
  BY <1>5
<1> QED
  BY <1>6 DEF read, There

-----------------------------------------------------------------------------
(***************************************************************************)
(* The parser reads one item after the other.                              *)
(***************************************************************************)

\* The place in the text up to which the parser has read: it stands behind
\* the opening of a comment that it has not skipped yet.
Cursor == IF inComment \/ inMultiComment THEN pos - 2 ELSE pos

CommentOpened ==
  /\ ~(inComment /\ inMultiComment)
  /\ inComment => pos > 2 /\ Two(configContents, pos - 2) = <<"/", "/">>
  /\ inMultiComment => pos > 2 /\ Two(configContents, pos - 2) = <<"/", "*">>

\* The lists that have been read.
Bare == Contents(componentList)

\* The first k items have been read as they are meant; the others are ahead.
ReadSoFar(k) ==
  LET items == Items(configContents)
  IN /\ ItemsFrom(configContents)[Cursor] = SubSeq(items, k + 1, Len(items))
     /\ Bare = Reading(items)[k]
     /\ componentList = <<>> =>
          \A j \in 1 .. k : items[j].kind \notin {"name", "cut"}

ReadsItems == \E k \in 0 .. Len(Items(configContents)) : ReadSoFar(k)

ReadInv ==
  /\ SettingsInv /\ CommentOpened
  /\ Plain(configContents) => ReadsItems /\ (ended => pos > length)

\* The first item of a suffix.
LEMMA SuffixHead ==
  ASSUME NEW items \in Seq(ItemSet), NEW k \in 0 .. Len(items),
         NEW item \in ItemSet, NEW rest \in Seq(ItemSet),
         SubSeq(items, k + 1, Len(items)) = <<item>> \o rest
  PROVE  /\ k + 1 \in 1 .. Len(items) /\ items[k + 1] = item
         /\ SubSeq(items, k + 2, Len(items)) = rest
<1> DEFINE suffix == SubSeq(items, k + 1, Len(items))
<1>1. /\ suffix \in Seq(ItemSet) /\ Len(suffix) = Len(items) - k
      /\ \A i \in 1 .. Len(items) - k : suffix[i] = items[k + i]
  OBVIOUS
<1>2. /\ Len(suffix) = 1 + Len(rest) /\ suffix[1] = item
      /\ \A i \in 1 .. Len(rest) : suffix[i + 1] = rest[i]
  OBVIOUS
<1> HIDE DEF suffix
<1>3. k + 1 \in 1 .. Len(items) /\ items[k + 1] = item
  BY <1>1, <1>2
<1> DEFINE shorter == SubSeq(items, k + 2, Len(items))
<1>4. /\ shorter \in Seq(ItemSet) /\ Len(shorter) = Len(rest)
      /\ \A i \in 1 .. Len(rest) : shorter[i] = items[k + 1 + i]
  BY <1>1, <1>2, <1>3
<1> HIDE DEF shorter
<1>5. \A i \in 1 .. Len(rest) : shorter[i] = rest[i]
  <2> TAKE i \in 1 .. Len(rest)
  <2>1. i + 1 \in 1 .. Len(items) - k /\ k + 1 + i = k + (i + 1)
    BY <1>1, <1>2
  <2>2. suffix[i + 1] = items[k + (i + 1)] /\ suffix[i + 1] = rest[i]
    BY <1>1, <1>2, <2>1
  <2> QED
    BY <1>4, <2>1, <2>2
<1>6. shorter = rest
  BY <1>4, <1>5, SeqEqual
<1> QED
  BY <1>3, <1>6 DEF shorter

\* Only the suffix behind the last item is empty.
LEMMA EmptySuffix ==
  ASSUME NEW items \in Seq(ItemSet), NEW k \in 0 .. Len(items), NEW m,
         m = k + 1, SubSeq(items, m, Len(items)) = <<>>
  PROVE  k = Len(items)
<1>1. Len(SubSeq(items, m, Len(items))) = Len(items) - k
  OBVIOUS
<1> QED
  BY <1>1

\* The items of the text are a sequence.
LEMMA ItemsAre ==
  ASSUME TypeOK
  PROVE  /\ Items(configContents) \in Seq(ItemSet)
         /\ Len(Items(configContents)) \in Nat
         /\ configContents \in Text /\ length \in Nat
         /\ length = Len(configContents)
<1>1. configContents \in Text /\ length \in Nat /\ length = Len(configContents)
  BY DEF TypeOK, Text, length
<1>2. ItemsFrom(configContents)[1] \in Seq(ItemSet)
  <2>1. 1 \in 1 .. Len(configContents) + 2
    BY <1>1
  <2> QED
    BY <1>1, <2>1, ItemsFromIs
<1> QED
  BY <1>1, <1>2 DEF Items

\* The item at the cursor is the next one, and is none of the odd ones.
LEMMA NextItem ==
  ASSUME TypeOK, Plain(configContents),
         NEW k \in 0 .. Len(Items(configContents)), ReadSoFar(k),
         NEW p \in 1 .. length, configContents[p] \notin Spaces,
         ItemsFrom(configContents)[Cursor] = ItemsFrom(configContents)[p]
  PROVE  LET items == Items(configContents)
             item == ItemAt(configContents, p)
         IN /\ k + 1 \in 1 .. Len(items) /\ items[k + 1] = item
            /\ ItemsFrom(configContents)[item.next]
                 = SubSeq(items, k + 2, Len(items))
            /\ ~OddComment(item) /\ ~OddName(item)
<1> DEFINE items == Items(configContents)
           item == ItemAt(configContents, p)
           rest == ItemsFrom(configContents)[item.next]
<1>1. items \in Seq(ItemSet) /\ configContents \in Text
      /\ length = Len(configContents) /\ length \in Nat
  BY ItemsAre
<1>2. item \in ItemSet /\ item.next \in p + 1 .. length + 2
  BY <1>1, ItemAdvances
<1>3. rest \in Seq(ItemSet)
  <2> HIDE DEF item
  <2>1. item.next \in 1 .. Len(configContents) + 2
    BY <1>1, <1>2
  <2> QED
    BY <1>1, <2>1, ItemsFromIs
<1>4. ItemsFrom(configContents)[p] = <<item>> \o rest
  <2>1. /\ p \in 1 .. Len(configContents) + 2
        /\ p <= Len(configContents)
    BY <1>1
  <2> QED
    BY <1>1, <2>1, RestIs
<1>5. SubSeq(items, k + 1, Len(items)) = <<item>> \o rest
  BY <1>4 DEF ReadSoFar
<1> HIDE DEF items, item, rest
<1>6. /\ k + 1 \in 1 .. Len(items) /\ items[k + 1] = item
      /\ rest = SubSeq(items, k + 2, Len(items))
  <2>1. k \in 0 .. Len(items)
    BY DEF items
  <2> QED
    BY <1>1, <1>2, <1>3, <1>5, <2>1, SuffixHead
<1>7. item \in Range(items)
  BY <1>1, <1>6 DEF Range
<1>8. ~OddComment(item) /\ ~OddName(item)
  BY <1>7 DEF Plain, items
<1> QED
  BY <1>6, <1>8 DEF items, item, rest

\* A turn that reads no item.
LEMMA SameItems ==
  ASSUME ReadsItems, UNCHANGED <<configContents, componentList>>,
         ItemsFrom(configContents)[Cursor'] = ItemsFrom(configContents)[Cursor]
  PROVE  ReadsItems'
<1>1. PICK k \in 0 .. Len(Items(configContents)) : ReadSoFar(k)
  BY DEF ReadsItems
<1>2. Bare' = Bare
  BY DEF Bare
<1>3. ReadSoFar(k)'
  BY <1>1, <1>2 DEF ReadSoFar
<1> QED
  BY <1>3 DEF ReadsItems

\* A turn that reads the item at the cursor as it is meant.
LEMMA OneItem ==
  ASSUME TypeOK, Plain(configContents), ReadsItems,
         UNCHANGED configContents,
         NEW p \in 1 .. length, configContents[p] \notin Spaces,
         ItemsFrom(configContents)[Cursor] = ItemsFrom(configContents)[p],
         ItemsFrom(configContents)[Cursor']
           = ItemsFrom(configContents)[ItemAt(configContents, p).next],
         Bare' = Take(Bare, ItemAt(configContents, p)),
         componentList' = <<>> =>
           /\ componentList = <<>>
           /\ ItemAt(configContents, p).kind \notin {"name", "cut"}
  PROVE  ReadsItems'
<1> DEFINE items == Items(configContents)
           item == ItemAt(configContents, p)
<1>1. PICK k \in 0 .. Len(items) : ReadSoFar(k)
  BY DEF ReadsItems
<1>2. /\ k + 1 \in 1 .. Len(items) /\ items[k + 1] = item
      /\ ItemsFrom(configContents)[item.next]
           = SubSeq(items, k + 2, Len(items))
  BY <1>1, NextItem
<1>3. Len(items) \in Nat /\ k \in Nat
  <2>1. Len(items) \in Nat
    BY ItemsAre
  <2> QED
    BY <2>1
<1>4. Reading(items)[k + 1] = Take(Bare, item)
  <2>1. Reading(items)[k] = Bare
    BY <1>1 DEF ReadSoFar
  <2> HIDE DEF items, item
  <2>2. Reading(items)[k + 1] = Take(Reading(items)[k], item)
    <3>1. k + 1 - 1 = k
      BY <1>3
    <3> QED
      BY <1>2, <1>3, <3>1, ReadingIs
  <2> QED
    BY <2>1, <2>2
<1>5. componentList' = <<>> =>
        \A j \in 1 .. k + 1 : items[j].kind \notin {"name", "cut"}
  <2> SUFFICES ASSUME componentList' = <<>>, NEW j \in 1 .. k + 1
               PROVE  items[j].kind \notin {"name", "cut"}
    OBVIOUS
  <2>1. CASE j = k + 1
    BY <1>2, <2>1
  <2>2. CASE j # k + 1
    <3>1. j \in 1 .. k /\ componentList = <<>>
      BY <1>3, <2>2
    <3> QED
      BY <1>1, <3>1 DEF ReadSoFar
  <2> QED
    BY <2>1, <2>2
<1>6. items' = items
  BY DEF Items
<1>7. ReadSoFar(k + 1)'
  <2>1. k + 1 + 1 = k + 2
    BY <1>3
  <2> QED
    BY <1>2, <1>4, <1>5, <1>6, <2>1 DEF ReadSoFar
<1> QED
  BY <1>2, <1>3, <1>7 DEF ReadsItems

\* The two characters at a position.
LEMMA TwoIs ==
  ASSUME NEW text \in Text, NEW p \in Nat \ {0}, NEW b \in {"/", "*"},
         Two(text, p) = <<"/", b>>
  PROVE  p \in 1 .. Len(text) /\ p + 1 <= Len(text)
         /\ text[p] = "/" /\ text[p + 1] = b
<1>1. Len(text) \in Nat
  BY TextIs
<1>2. At(text, p) = "/" /\ At(text, p + 1) = b
  BY DEF Two
<1> QED
  BY <1>1, <1>2 DEF At

\* White space is skipped up to the next item, which is the one at Start.
LEMMA StartIs ==
  ASSUME TypeOK, pos <= length + 1
  PROVE  /\ Start \in pos .. length + 1
         /\ Start <= length => configContents[Start] \notin Spaces
         /\ \A r \in pos .. Start - 1 : configContents[r] \in Spaces
         /\ ItemsFrom(configContents)[pos] = ItemsFrom(configContents)[Start]
<1> DEFINE S == Where(configContents, Classes \ Spaces)
<1>1. /\ configContents \in Text /\ length \in Nat
      /\ length = Len(configContents) /\ pos \in 1 .. length + 1
  BY ItemsAre DEF TypeOK
<1>2. /\ Start \in pos .. length + 1
      /\ Start = length + 1 \/ Start \in S
      /\ \A r \in pos .. Start - 1 : r \notin S
  <2> HIDE DEF S
  <2>1. Start = Scan(configContents, pos, S)
    BY DEF Start, S
  <2> QED
    BY <1>1, <2>1, ScanIs
<1>3. \A r \in 1 .. length : r \in S <=> configContents[r] \notin Spaces
  BY <1>1, TextIs DEF Where
<1> HIDE DEF S
<1>4. Start <= length => configContents[Start] \notin Spaces
  BY <1>1, <1>2, <1>3
<1>5. \A r \in pos .. Start - 1 : configContents[r] \in Spaces
  BY <1>1, <1>2, <1>3
<1>6. ItemsFrom(configContents)[pos] = ItemsFrom(configContents)[Start]
  BY <1>1, <1>2, <1>5, SpacesHoldNone
<1> QED
  BY <1>2, <1>4, <1>5, <1>6

\* What a list without its sizes holds.
Content == [name : Text, args : Seq(Text)]

ContentOf(component) == [name |-> component.name, args |-> component.args]

LEMMA ContentsAre ==
  ASSUME NEW list \in Seq(Component)
  PROVE  /\ Contents(list) \in Seq(Content)
         /\ Len(Contents(list)) = Len(list)
         /\ \A i \in 1 .. Len(list) : Contents(list)[i] = ContentOf(list[i])
<1>1. Contents(list) = [i \in 1 .. Len(list) |-> ContentOf(list[i])]
  BY DEF Contents, ContentOf
<1>2. \A i \in 1 .. Len(list) : ContentOf(list[i]) \in Content
  <2> TAKE i \in 1 .. Len(list)
  <2>1. list[i] \in Component
    OBVIOUS
  <2> QED
    BY <2>1 DEF ContentOf, Content, Component
<1>3. Len(list) \in Nat
  OBVIOUS
<1> QED
  BY <1>1, <1>2, <1>3

\* A list grows by a component.
LEMMA ContentsAppend ==
  ASSUME NEW list \in Seq(Component), NEW new \in Component
  PROVE  Contents(Append(list, new)) = Append(Contents(list), ContentOf(new))
<1> DEFINE longer == Append(list, new)
           left == Contents(longer)
           right == Append(Contents(list), ContentOf(new))
<1>1. /\ longer \in Seq(Component) /\ Len(longer) = Len(list) + 1
      /\ \A i \in 1 .. Len(list) : longer[i] = list[i]
      /\ longer[Len(list) + 1] = new /\ Len(list) \in Nat
  OBVIOUS
<1> HIDE DEF longer
<1>2. /\ left \in Seq(Content) /\ Len(left) = Len(list) + 1
      /\ \A i \in 1 .. Len(list) + 1 : left[i] = ContentOf(longer[i])
  BY <1>1, ContentsAre
<1>3. /\ Contents(list) \in Seq(Content) /\ Len(Contents(list)) = Len(list)
      /\ \A i \in 1 .. Len(list) : Contents(list)[i] = ContentOf(list[i])
  BY ContentsAre
<1>4. ContentOf(new) \in Content
  BY DEF ContentOf, Content, Component
<1>5. /\ right \in Seq(Content) /\ Len(right) = Len(list) + 1
      /\ \A i \in 1 .. Len(list) : right[i] = ContentOf(list[i])
      /\ right[Len(list) + 1] = ContentOf(new)
  BY <1>1, <1>3, <1>4
<1> HIDE DEF left, right
<1>6. \A i \in 1 .. Len(list) + 1 : left[i] = right[i]
  BY <1>1, <1>2, <1>5
<1>7. left = right
  BY <1>2, <1>5, <1>6, SeqEqual
<1> QED
  BY <1>7 DEF left, right, longer

\* A component of a list changes.
LEMMA ContentsExcept ==
  ASSUME NEW list \in Seq(Component), NEW n \in 1 .. Len(list),
         NEW new \in Component
  PROVE  Contents([list EXCEPT ![n] = new])
           = [Contents(list) EXCEPT ![n] = ContentOf(new)]
<1> DEFINE other == [list EXCEPT ![n] = new]
           left == Contents(other)
           right == [Contents(list) EXCEPT ![n] = ContentOf(new)]
<1>1. /\ other \in Seq(Component) /\ Len(other) = Len(list)
      /\ \A i \in 1 .. Len(list) : other[i] = IF i = n THEN new ELSE list[i]
      /\ Len(list) \in Nat
  OBVIOUS
<1> HIDE DEF other
<1>2. /\ left \in Seq(Content) /\ Len(left) = Len(list)
      /\ \A i \in 1 .. Len(list) : left[i] = ContentOf(other[i])
  BY <1>1, ContentsAre
<1>3. /\ Contents(list) \in Seq(Content) /\ Len(Contents(list)) = Len(list)
      /\ \A i \in 1 .. Len(list) : Contents(list)[i] = ContentOf(list[i])
  BY ContentsAre
<1>4. ContentOf(new) \in Content
  BY DEF ContentOf, Content, Component
<1>5. /\ right \in Seq(Content) /\ Len(right) = Len(list)
      /\ \A i \in 1 .. Len(list) :
           right[i] = IF i = n THEN ContentOf(new) ELSE ContentOf(list[i])
  BY <1>1, <1>3, <1>4
<1> HIDE DEF left, right
<1>6. \A i \in 1 .. Len(list) : left[i] = right[i]
  BY <1>1, <1>2, <1>5
<1>7. left = right
  BY <1>2, <1>5, <1>6, SeqEqual
<1> QED
  BY <1>7 DEF left, right, other

\* A component's name, in the lists without their sizes.
LEMMA BareName ==
  ASSUME componentList \in Seq(Component), NEW name \in Text, NEW null \in Nat,
         NEW room \in Nat,
         componentList'
           = Append(componentList, [name |-> name, args |-> <<>>,
                                    null |-> null, room |-> room]),
         NEW item, item.kind = "name", item.text = name
  PROVE  Bare' = Take(Bare, item) /\ componentList' # <<>>
<1> DEFINE new == [name |-> name, args |-> <<>>, null |-> null, room |-> room]
<1>1. new \in Component /\ ContentOf(new) = [name |-> name, args |-> <<>>]
  BY DEF Component, ContentOf, Text
<1>2. Take(Bare, item) = Append(Bare, [name |-> name, args |-> <<>>])
  BY DEF Take
<1>3. componentList' # <<>>
  BY <1>1
<1>4. Bare' = Append(Bare, ContentOf(new))
  BY <1>1, ContentsAppend DEF Bare
<1> QED
  BY <1>1, <1>2, <1>3, <1>4

\* A list that is longer by an argument.
LEMMA LongerList ==
  ASSUME NEW list \in Component, NEW arg \in Text, NEW null \in Nat,
         NEW room \in Nat
  PROVE  LET longer == [list EXCEPT !.args = Append(@, arg), !.null = null,
                                    !.room = room]
         IN /\ longer \in Component
            /\ ContentOf(longer)
                 = [ContentOf(list) EXCEPT !.args = Append(@, arg)]
<1> DEFINE args == Append(list.args, arg)
           longer == [list EXCEPT !.args = args, !.null = null, !.room = room]
           content == [ContentOf(list) EXCEPT !.args = args]
<1>1. args \in Seq(Text)
  BY DEF Component
<1>2. ContentOf(list).args = list.args
  BY DEF ContentOf
<1> HIDE DEF args
<1>3. /\ longer \in Component /\ longer.name = list.name
      /\ longer.args = args
  BY <1>1 DEF Component
<1>4. content = [name |-> list.name, args |-> args]
  BY DEF ContentOf
<1> HIDE DEF longer
<1>5. ContentOf(longer) = [name |-> list.name, args |-> args]
  BY <1>3 DEF ContentOf
<1>6. longer \in Component /\ ContentOf(longer) = content
  BY <1>3, <1>4, <1>5
<1> QED
  BY <1>2, <1>6 DEF longer, args

\* An argument, in the lists without their sizes.
LEMMA BareArgument ==
  ASSUME componentList \in Seq(Component), componentList # <<>>,
         argSize \in Nat, NEW arg \in Text, AddArgument(arg),
         NEW item, item.kind = "argument", item.text = arg
  PROVE  Bare' = Take(Bare, item) /\ componentList' # <<>>
<1> DEFINE n == Len(componentList)
           list == componentList[n]
           count == Len(list.args) + 1
           room == IF count = argSize THEN argSize + ARG_LIST_CHUNK_SIZE
                   ELSE list.room
           null == count + 2
           longer == [list EXCEPT !.args = Append(@, arg), !.null = null,
                                  !.room = room]
<1>1. n \in 1 .. Len(componentList) /\ list \in Component
  OBVIOUS
<1>2. /\ Bare \in Seq(Content) /\ Len(Bare) = n /\ Bare[n] = ContentOf(list)
      /\ Bare # <<>>
  BY <1>1, ContentsAre DEF Bare
<1>3. CASE arg = <<>>
  <2>1. Take(Bare, item) = Bare
    BY <1>3 DEF Take
  <2>2. componentList' = componentList
    BY <1>3 DEF AddArgument
  <2> QED
    BY <2>1, <2>2 DEF Bare
<1>4. CASE arg # <<>>
  <2>1. room \in Nat /\ null \in Nat
    BY <1>1, ChunkAssumption DEF Component
  <2>3. componentList' = [componentList EXCEPT ![n] = longer]
    BY <1>4 DEF AddArgument
  <2> HIDE DEF room, null, list, count
  <2>4. /\ longer \in Component
        /\ ContentOf(longer) = [ContentOf(list) EXCEPT !.args = Append(@, arg)]
    <3>1. \A l \in Component, m \in Nat, r \in Nat :
            LET new == [l EXCEPT !.args = Append(@, arg), !.null = m, !.room = r]
            IN /\ new \in Component
               /\ ContentOf(new) = [ContentOf(l) EXCEPT !.args = Append(@, arg)]
      BY LongerList
    <3> QED
      BY <1>1, <2>1, <3>1
  <2> HIDE DEF longer
  <2>5. Bare' = [Bare EXCEPT ![n] = ContentOf(longer)]
    <3> HIDE DEF n
    <3>1. PICK new \in Component : new = longer
      BY <2>4
    <3>2. Contents([componentList EXCEPT ![n] = new])
            = [Contents(componentList) EXCEPT ![n] = ContentOf(new)]
      BY <1>1, ContentsExcept
    <3> QED
      BY <2>3, <3>1, <3>2 DEF Bare
  <2>6. Take(Bare, item) = [Bare EXCEPT ![n].args = Append(@, arg)]
    BY <1>2, <1>4 DEF Take
  <2>7. [Bare EXCEPT ![n].args = Append(@, arg)]
          = [Bare EXCEPT ![n] = [Bare[n] EXCEPT !.args = Append(@, arg)]]
    BY <1>1, <1>2
  <2>8. [Bare[n] EXCEPT !.args = Append(@, arg)] = ContentOf(longer)
    BY <1>2, <2>4
  <2>9. componentList' # <<>>
    BY <1>1, <2>3, <2>4
  <2> QED
    BY <2>5, <2>6, <2>7, <2>8, <2>9
<1> QED
  BY <1>3, <1>4

-----------------------------------------------------------------------------
(***************************************************************************)
(* Each turn reads an item, or nothing.                                    *)
(***************************************************************************)

\* The comment that was opened last is the next item, up to the line's end.
LEMMA SkipCommentReads ==
  ASSUME SettingsInv, CommentOpened, Plain(configContents), ReadsItems,
         ~ended, SkipComment
  PROVE  ReadsItems'
<1> DEFINE t == configContents
           c == pos - 2
           S == Where(t, {"newline"})
           end == Scan(t, pos, S)
<1>1. /\ t \in Text /\ length \in Nat /\ length = Len(t)
      /\ pos \in 1 .. length + 1 /\ TypeOK
  BY ItemsAre DEF SettingsInv, TypeOK
<1>2. /\ inComment /\ ~inMultiComment /\ pos > 2
      /\ Two(t, c) = <<"/", "/">> /\ c \in Nat \ {0}
  BY <1>1 DEF SkipComment, CommentOpened
<1>3. /\ pos' = end /\ ~inComment' /\ ~inMultiComment'
      /\ UNCHANGED <<configContents, componentList>>
  BY <1>2 DEF SkipComment, Goes
<1>4. /\ c \in 1 .. length /\ c + 1 <= length
      /\ t[c] = "/" /\ t[c + 1] = "/"
  <2> HIDE DEF c
  <2> QED
    BY <1>1, <1>2, TwoIs
<1>5. /\ end \in pos .. length + 1 /\ (end = length + 1 \/ end \in S)
      /\ \A r \in pos .. end - 1 : r \notin S
  <2> HIDE DEF S
  <2> QED
    BY <1>1, ScanIs
<1>6. Scan(t, c, S) = end
  <2>1. c \notin S /\ c + 1 \notin S
    BY <1>4 DEF Where
  <2> HIDE DEF S, end
  <2>2. c \in 1 .. Len(t) + 1 /\ end \in c .. Len(t) + 1
    BY <1>1, <1>2, <1>4, <1>5
  <2>3. \A r \in c .. end - 1 : r \notin S
    <3> TAKE r \in c .. end - 1
    <3>1. r = c \/ r = c + 1 \/ r \in pos .. end - 1
      BY <1>1, <2>2
    <3> QED
      BY <1>5, <2>1, <3>1
  <2> HIDE DEF c
  <2> QED
    BY <1>1, <1>5, <2>2, <2>3, ScanUnique
<1> DEFINE item == ItemAt(t, c)
<1>7. item.kind = "line" /\ item.next = end
  <2> HIDE DEF c, S, end
  <2>1. item = LineItem(t, c)
    BY <1>1, <1>2, <1>4, ItemKinds
  <2>2. LineItem(t, c).kind = "line" /\ LineItem(t, c).next = Scan(t, c, S)
    BY <1>1, <1>4, LineItemIs DEF S
  <2> QED
    BY <1>6, <2>1, <2>2
<1>8. Cursor = c /\ Cursor' = end
  BY <1>2, <1>3 DEF Cursor
<1> HIDE DEF item, end, c, S
<1>9. Take(Bare, item) = Bare /\ Bare' = Bare
  BY <1>3, <1>7 DEF Take, Bare
<1>10. t[c] \notin Spaces
  BY <1>4 DEF Spaces
<1> QED
  BY <1>1, <1>3, <1>4, <1>7, <1>8, <1>9, <1>10, OneItem DEF item

\* So is a block comment; it ends where the scan stops, because it has no
\* star, and a slash at most as its first character.
LEMMA SkipMultiCommentReads ==
  ASSUME SettingsInv, CommentOpened, Plain(configContents), ReadsItems,
         ~ended, SkipMultiComment
  PROVE  ReadsItems'
<1> DEFINE t == configContents
           c == pos - 2
           S == CommentCloses(t)
           end == Scan(t, pos, CommentStops(t))
           item == ItemAt(t, c)
           closing == Scan(t, c + 2, S)
           next == IF end > length THEN end ELSE end + 2
<1>1. /\ t \in Text /\ length \in Nat /\ length = Len(t)
      /\ pos \in 1 .. length + 1 /\ TypeOK
  BY ItemsAre DEF SettingsInv, TypeOK
<1>2. /\ inMultiComment /\ ~inComment /\ pos > 2
      /\ Two(t, c) = <<"/", "*">> /\ c \in Nat \ {0}
  BY <1>1 DEF SkipMultiComment, CommentOpened
<1>3. /\ pos' = next /\ ~inComment' /\ ~inMultiComment'
      /\ UNCHANGED <<configContents, componentList>>
  BY <1>2 DEF SkipMultiComment, Goes
<1>4. /\ c \in 1 .. length /\ c + 1 <= length /\ t[c] = "/"
      /\ c + 2 = pos
  <2>1. c + 2 = pos
    BY <1>1
  <2> HIDE DEF c
  <2> QED
    BY <1>1, <1>2, <2>1, TwoIs
<1>5. t[c] \notin Spaces
  BY <1>4 DEF Spaces
<1>6. Cursor = c /\ Cursor' = next
  BY <1>2, <1>3 DEF Cursor
<1>7. /\ item.kind = "comment"
      /\ item.text = SubSeq(t, pos, closing - 1)
      /\ item.next = IF closing > length THEN closing ELSE closing + 2
  <2> HIDE DEF c
  <2>1. item = CommentItem(t, c)
    BY <1>1, <1>2, <1>4, ItemKinds
  <2>2. /\ CommentItem(t, c).kind = "comment"
        /\ CommentItem(t, c).text = SubSeq(t, c + 2, closing - 1)
        /\ CommentItem(t, c).next
             = IF closing > Len(t) THEN closing ELSE closing + 2
    BY <1>1, <1>4, CommentItemIs
  <2> HIDE DEF item, closing
  <2> QED
    BY <1>1, <1>4, <2>1, <2>2
<1>8. ~OddComment(item)
  <2>1. PICK k \in 0 .. Len(Items(t)) : ReadSoFar(k)
    BY DEF ReadsItems
  <2> HIDE DEF c
  <2>2. ItemsFrom(t)[Cursor] = ItemsFrom(t)[c]
    BY <1>6
  <2> QED
    BY <1>1, <1>4, <1>5, <2>1, <2>2, NextItem
<1>9. /\ closing \in pos .. length + 1
      /\ closing = length + 1 \/ closing \in S
      /\ \A r \in pos .. closing - 1 : r \notin S
  <2> HIDE DEF S
  <2>1. closing = Scan(t, pos, S)
    BY <1>4
  <2> HIDE DEF closing
  <2> QED
    BY <1>1, <2>1, ScanIs
<1>10. end = closing
  <2> HIDE DEF item, c, closing, S
  <2>1. closing = length + 1 \/ closing \in CommentStops(t)
    BY <1>1, <1>9 DEF S, CommentStops, CommentCloses, Two, At
  <2>2. ASSUME NEW r \in pos .. closing - 1 PROVE r \notin CommentStops(t)
    <3> DEFINE i == r - pos + 1
    <3>1. /\ i \in 1 .. Len(item.text) /\ item.text[i] = t[r]
          /\ Len(item.text) = closing - pos
          /\ DOMAIN item.text = 1 .. Len(item.text)
      BY <1>1, <1>7, <1>9 DEF Text
    <3>2. t[r] # "*"
      BY <1>7, <1>8, <3>1 DEF OddComment
    <3>3. At(t, r + 1) # "/"
      <4>1. CASE r + 1 = closing
        <5>1. closing = length + 1 \/ At(t, closing) = "*"
          BY <1>1, <1>9 DEF S, CommentCloses, Two
        <5> QED
          BY <1>1, <1>9, <4>1, <5>1 DEF At
      <4>2. CASE r + 1 # closing
        <5>1. /\ i + 1 \in 1 .. Len(item.text) /\ item.text[i + 1] = t[r + 1]
              /\ i + 1 > 1
          BY <1>1, <1>7, <1>9, <3>1, <4>2 DEF Text
        <5>2. t[r + 1] # "/"
          BY <1>7, <1>8, <3>1, <5>1 DEF OddComment
        <5>3. r + 1 <= length
          BY <1>1, <1>9, <4>2
        <5> QED
          BY <1>1, <5>2, <5>3 DEF At
      <4> QED
        BY <4>1, <4>2
    <3>4. r \in 1 .. length
      BY <1>1, <1>9
    <3> QED
      BY <3>2, <3>3, <3>4 DEF CommentStops
  <2>3. closing \in pos .. Len(t) + 1
    BY <1>1, <1>9
  <2> QED
    BY <1>1, <2>1, <2>2, <2>3, ScanUnique
<1>11. item.next = next
  BY <1>7, <1>10
<1> HIDE DEF item, end, c, S, closing, next
<1>12. Take(Bare, item) = Bare /\ Bare' = Bare
  BY <1>3, <1>7 DEF Take, Bare
<1> QED
  BY <1>1, <1>3, <1>4, <1>5, <1>6, <1>7, <1>11, <1>12, OneItem DEF item

\* A turn at a slash reads nothing.
LEMMA SlashReads ==
  ASSUME SettingsInv, ReadsItems, Slash
  PROVE  ReadsItems'
<1>1. pos \in Nat /\ ~inComment /\ ~inMultiComment
  BY ItemsAre DEF SettingsInv, TypeOK, Slash, Parsing
<1>2. Cursor' = Cursor
  <2>1. pos' = IF inComment' \/ inMultiComment' THEN pos + 2 ELSE pos
    BY DEF Slash, Goes
  <2> QED
    BY <1>1, <2>1 DEF Cursor
<1> QED
  BY <1>2, SameItems DEF Slash

\* Behind the last white space there is nothing.
LEMMA NothingLeftReads ==
  ASSUME SettingsInv, ~ended, ReadsItems, NothingLeft
  PROVE  ReadsItems'
<1>1. TypeOK /\ pos <= length + 1
  BY DEF SettingsInv
<1>2. Cursor = pos /\ Cursor' = Start
  BY DEF NothingLeft, Begins, Parsing, Cursor
<1>3. ItemsFrom(configContents)[Cursor'] = ItemsFrom(configContents)[Cursor]
  BY <1>1, <1>2, StartIs
<1> QED
  BY <1>3, SameItems DEF NothingLeft

\* A turn that does not begin at a slash finds the next item at Start.
LEMMA AtStart ==
  ASSUME SettingsInv, ~ended, Begins, Start <= length
  PROVE  /\ TypeOK /\ configContents \in Text
         /\ length \in Nat /\ length = Len(configContents)
         /\ pos \in 1 .. length /\ Start \in pos .. length
         /\ configContents[Start] \notin Spaces
         /\ At(configContents, Start) = configContents[Start]
         /\ Cursor = pos
         /\ ItemsFrom(configContents)[Cursor]
              = ItemsFrom(configContents)[Start]
<1>1. /\ TypeOK /\ pos <= length + 1 /\ configContents \in Text
      /\ length \in Nat /\ length = Len(configContents) /\ pos \in Nat \ {0}
  BY ItemsAre DEF SettingsInv, TypeOK
<1>2. Cursor = pos
  BY DEF Begins, Parsing, Cursor
<1> QED
  BY <1>1, <1>2, StartIs, TextIs

\* A name is not cut off.
LEMMA NameCutOffReads ==
  ASSUME SettingsInv, Plain(configContents), ReadsItems, ~ended, NameCutOff
  PROVE  FALSE
<1> DEFINE t == configContents
           item == ItemAt(t, Start)
<1>1. Start <= length
  <2>1. /\ Two(t, Start) = <<"underscore", "underscore">> /\ TypeOK /\ pos <= length + 1
        /\ length = Len(t) /\ length \in Nat
    BY ItemsAre DEF NameCutOff, BeginsName, SettingsInv
  <2> QED
    BY <2>1 DEF Two, At
<1>2. /\ TypeOK /\ t \in Text /\ length = Len(t) /\ Start \in 1 .. length
      /\ Two(t, Start) = <<"underscore", "underscore">> /\ t[Start] \notin Spaces
      /\ ItemsFrom(t)[Cursor] = ItemsFrom(t)[Start]
  BY <1>1, AtStart DEF NameCutOff, BeginsName
<1>3. item.kind = "cut"
  <2>1. /\ item = NameItem(t, Start) /\ NameEnd > Len(t)
        /\ Start + 1 <= Len(t)
    BY <1>2, ItemKinds DEF NameCutOff
  <2>2. NameEnd = Scan(t, Start + 2, Where(t, Spaces))
    BY DEF NameEnd
  <2> HIDE DEF item
  <2> QED
    BY <1>2, <2>1, <2>2, NameItemIs
<1>4. ~OddName(item)
  <2>1. PICK k \in 0 .. Len(Items(t)) : ReadSoFar(k)
    BY DEF ReadsItems
  <2> QED
    BY <1>2, <2>1, NextItem
<1> QED
  BY <1>3, <1>4 DEF OddName

\* White space behind a name is skipped with it.
LEMMA NameReads ==
  ASSUME SettingsInv, Plain(configContents), ReadsItems, ~ended, Name
  PROVE  ReadsItems'
<1> DEFINE t == configContents
           item == ItemAt(t, Start)
           name == SubSeq(t, Start + 2, NameEnd - 1)
<1>1. Start <= length
  <2>1. /\ Two(t, Start) = <<"underscore", "underscore">> /\ TypeOK /\ pos <= length + 1
        /\ length = Len(t) /\ length \in Nat
    BY ItemsAre DEF Name, BeginsName, SettingsInv
  <2> QED
    BY <2>1 DEF Two, At
<1>2. /\ TypeOK /\ t \in Text /\ length = Len(t) /\ length \in Nat
      /\ Start \in 1 .. length /\ Start + 1 <= length
      /\ Two(t, Start) = <<"underscore", "underscore">> /\ t[Start] \notin Spaces
      /\ ItemsFrom(t)[Cursor] = ItemsFrom(t)[Start]
  BY <1>1, AtStart, ItemKinds DEF Name, BeginsName
<1>3. /\ componentList' = Append(componentList,
            [name |-> name, args |-> <<>>, null |-> 2,
             room |-> ARG_LIST_CHUNK_SIZE])
      /\ pos' = NameEnd + 1 /\ NameEnd <= length
      /\ ~inComment' /\ ~inMultiComment' /\ UNCHANGED configContents
  BY DEF Name, BeginsName, Goes, Begins, Parsing
<1>4. NameEnd = Scan(t, Start + 2, Where(t, Spaces))
  BY DEF NameEnd
<1>5. NameEnd \in Start + 2 .. length /\ t[NameEnd] \in Spaces
  <2> DEFINE S == Where(t, Spaces)
  <2>1. Start + 2 \in 1 .. Len(t) + 1
    BY <1>2
  <2>2. NameEnd = Scan(t, Start + 2, S)
    BY <1>4
  <2> HIDE DEF S
  <2>3. /\ NameEnd \in Start + 2 .. Len(t) + 1
        /\ NameEnd = Len(t) + 1 \/ NameEnd \in S
    BY <1>2, <2>1, <2>2, ScanIs
  <2>4. NameEnd \in Start + 2 .. length /\ NameEnd \in S
    BY <1>2, <1>3, <2>3
  <2> QED
    BY <2>4 DEF S, Where
<1>6. item.kind = "name" /\ item.text = name /\ item.next = NameEnd
  <2>1. item = NameItem(t, Start)
    BY <1>2, ItemKinds
  <2> HIDE DEF item, name
  <2>2. /\ NameItem(t, Start).kind = IF NameEnd > Len(t) THEN "cut" ELSE "name"
        /\ NameItem(t, Start).text = SubSeq(t, Start + 2, NameEnd - 1)
        /\ NameItem(t, Start).next = NameEnd
    BY <1>2, <1>4, NameItemIs
  <2> QED
    BY <1>2, <1>5, <2>1, <2>2 DEF name
<1>7. ItemsFrom(t)[Cursor'] = ItemsFrom(t)[item.next]
  <2>1. Cursor' = NameEnd + 1
    BY <1>3 DEF Cursor
  <2>2. NameEnd \in 1 .. Len(t) + 2 /\ NameEnd <= Len(t)
    BY <1>2, <1>5
  <2>3. ItemsFrom(t)[NameEnd] = ItemsFrom(t)[NameEnd + 1]
    BY <1>2, <1>5, <2>2, RestIs
  <2> HIDE DEF item
  <2> QED
    BY <1>6, <2>1, <2>3
<1>8. name \in Text
  <2>1. Start + 2 \in 1 .. length + 1 /\ NameEnd - 1 \in 0 .. length
    BY <1>2, <1>5
  <2> QED
    BY <1>2, <2>1, PieceOfText
<1> HIDE DEF item, name
<1>9. Bare' = Take(Bare, item) /\ componentList' # <<>>
  BY <1>3, <1>6, <1>8, ChunkAssumption, BareName DEF SettingsInv
<1> QED
  BY <1>2, <1>3, <1>7, <1>9, OneItem DEF item

\* The parser gives up only at an argument, or a comment behind white space,
\* before the first name.
LEMMA NoComponentReads ==
  ASSUME SettingsInv, Plain(configContents), ReadsItems, ~ended, NoComponent
  PROVE  FALSE
<1> DEFINE t == configContents
           item == ItemAt(t, Start)
           items == Items(t)
<1>1. /\ TypeOK /\ t \in Text /\ length = Len(t) /\ length \in Nat
      /\ pos \in 1 .. length /\ Start \in pos .. length
      /\ t[Start] \notin Spaces /\ Two(t, Start) # <<"underscore", "underscore">>
      /\ At(t, Start) = t[Start] /\ At(t, pos) # "/"
      /\ ItemsFrom(t)[Cursor] = ItemsFrom(t)[Start]
  BY AtStart DEF NoComponent, BeginsArgument, Begins
<1>2. PICK k \in 0 .. Len(items) : ReadSoFar(k)
  BY DEF ReadsItems
<1>3. k + 1 \in 1 .. Len(items) /\ items[k + 1] = item
  BY <1>1, <1>2, NextItem
<1>4. Len(items) \in Nat /\ DOMAIN items = 1 .. Len(items) /\ k \in Nat
  <2>1. items \in Seq(ItemSet) /\ Len(items) \in Nat
    BY <1>1, ItemsAre
  <2> QED
    BY <2>1
<1>5. item.kind \notin {"name", "cut"}
      /\ (item.kind = "argument" \/ t[Start] = "/")
  <2>1. CASE Two(t, Start) = <<"/", "/">>
    <3>1. item = LineItem(t, Start) /\ t[Start] = "/"
      BY <1>1, <2>1, ItemKinds
    <3> HIDE DEF item
    <3>2. LineItem(t, Start).kind = "line"
      BY <1>1, <3>1, LineItemIs
    <3> QED
      BY <3>1, <3>2
  <2>2. CASE Two(t, Start) = <<"/", "*">>
    <3>1. item = CommentItem(t, Start) /\ t[Start] = "/" /\ Start + 1 <= Len(t)
      BY <1>1, <2>2, ItemKinds
    <3> HIDE DEF item
    <3>2. CommentItem(t, Start).kind = "comment"
      BY <1>1, <3>1, CommentItemIs
    <3> QED
      BY <3>1, <3>2
  <2>3. CASE t[Start] = "quote"
    <3>1. item = QuotedItem(t, Start)
      BY <1>1, <2>3, ItemKinds
    <3> HIDE DEF item
    <3>2. QuotedItem(t, Start).kind = "argument"
      BY <1>1, <3>1, QuotedItemIs
    <3> QED
      BY <3>1, <3>2
  <2>4. CASE /\ t[Start] # "quote"
             /\ Two(t, Start) \notin {<<"/", "/">>, <<"/", "*">>}
    <3>1. item = ArgumentItem(t, Start)
      BY <1>1, <2>4, ItemKinds
    <3> HIDE DEF item
    <3>2. ArgumentItem(t, Start).kind = "argument"
      BY <1>1, <2>4, <3>1, ArgumentItemIs
    <3> QED
      BY <3>1, <3>2
  <2> QED
    BY <2>1, <2>2, <2>3, <2>4
<1>6. item.kind = "argument" \/ (item.at > 1 /\ t[item.at - 1] \in Spaces)
  <2>1. item.at = Start
    BY <1>1, ItemAdvances
  <2>2. CASE t[Start] = "/"
    <3>1. At(t, pos) = t[pos]
      BY <1>1, TextIs
    <3>2. Start # pos
      BY <1>1, <2>2, <3>1
    <3>3. Start - 1 \in pos .. Start - 1 /\ Start > 1
      BY <1>1, <3>2
    <3>4. t[Start - 1] \in Spaces
      <4>1. TypeOK /\ pos <= length + 1
        BY DEF SettingsInv
      <4> QED
        BY <3>3, <4>1, StartIs
    <3> QED
      BY <2>1, <3>3, <3>4
  <2> QED
    BY <1>5, <2>2
<1> HIDE DEF item
<1>7. \A j \in 1 .. k + 1 : items[j].kind \notin {"name", "cut"}
  <2> TAKE j \in 1 .. k + 1
  <2>1. CASE j = k + 1
    BY <1>3, <1>5, <2>1
  <2>2. CASE j # k + 1
    <3>1. j \in 1 .. k
      BY <1>4, <2>2
    <3>2. componentList = <<>>
      BY DEF NoComponent
    <3> QED
      BY <1>2, <3>1, <3>2 DEF ReadSoFar
  <2> QED
    BY <2>1, <2>2
<1>8. OddStart(t, items)
  <2> HIDE DEF items
  <2>1. k + 1 \in DOMAIN items
    BY <1>3, <1>4
  <2> QED
    BY <1>3, <1>6, <1>7, <2>1 DEF OddStart
<1> QED
  BY <1>8 DEF Plain

\* An argument in quotes is read with its closing quote.
LEMMA QuotedReads ==
  ASSUME SettingsInv, Plain(configContents), ReadsItems, ~ended, Quoted
  PROVE  ReadsItems'
<1> DEFINE t == configContents
           item == ItemAt(t, Start)
           end == Scan(t, Start + 1, Where(t, {"quote"}))
           arg == SubSeq(t, Start + 1, end - 1)
<1>1. /\ TypeOK /\ t \in Text /\ length = Len(t) /\ length \in Nat
      /\ Start \in 1 .. length
      /\ t[Start] = "quote" /\ t[Start] \notin Spaces
      /\ ItemsFrom(t)[Cursor] = ItemsFrom(t)[Start]
  BY AtStart DEF Quoted, BeginsArgument
<1>2. /\ AddArgument(arg) /\ pos' = end + 1 /\ componentList # <<>>
      /\ ~inComment' /\ ~inMultiComment' /\ UNCHANGED configContents
  BY DEF Quoted, Goes, BeginsArgument, Begins, Parsing
<1>3. end \in Start + 1 .. length + 1
  BY <1>1, ScanIs
<1>4. item.kind = "argument" /\ item.text = arg /\ item.next = end + 1
  <2>1. item = QuotedItem(t, Start)
    BY <1>1, ItemKinds
  <2> HIDE DEF item
  <2> QED
    BY <1>1, <2>1, QuotedItemIs
<1>5. Cursor' = end + 1
  BY <1>2 DEF Cursor
<1> HIDE DEF end
<1>6. arg \in Text
  <2>1. Start + 1 \in 1 .. length + 1 /\ end - 1 \in 0 .. length
    BY <1>1, <1>3
  <2> QED
    BY <1>1, <2>1, PieceOfText
<1> HIDE DEF item, arg
<1>7. Bare' = Take(Bare, item) /\ componentList' # <<>>
  BY <1>1, <1>2, <1>4, <1>6, BareArgument DEF SettingsInv, TypeOK
<1> QED
  BY <1>1, <1>2, <1>4, <1>5, <1>7, OneItem DEF item

\* An argument is read with the white space behind it, or up to the comment
\* that ends it; at the opening of a comment nothing is read.
LEMMA ArgumentReads ==
  ASSUME SettingsInv, Plain(configContents), ReadsItems, ~ended, Argument
  PROVE  ReadsItems'
<1> DEFINE t == configContents
           item == ItemAt(t, Start)
           S == ArgumentEnds(t)
           end == Scan(t, Start, S)
           arg == SubSeq(t, Start, end - 1)
           Opening == {<<"/", "/">>, <<"/", "*">>}
<1>1. /\ TypeOK /\ t \in Text /\ length = Len(t) /\ length \in Nat
      /\ Start \in 1 .. length
      /\ t[Start] # "quote" /\ Two(t, Start) # <<"underscore", "underscore">>
      /\ t[Start] \notin Spaces
      /\ ItemsFrom(t)[Cursor] = ItemsFrom(t)[Start]
  BY AtStart DEF Argument, BeginsArgument
<1>2. /\ AddArgument(arg) /\ componentList # <<>> /\ UNCHANGED configContents
      /\ inComment' = (Two(t, end) = <<"/", "/">>)
      /\ inMultiComment' = (Two(t, end) = <<"/", "*">>)
      /\ pos' = IF inComment' \/ inMultiComment' THEN end + 2 ELSE end + 1
  BY DEF Argument, OpensComment, Goes
<1>3. /\ end \in Start .. length + 1 /\ (end = length + 1 \/ end \in S)
      /\ \A r \in Start .. end - 1 : r \notin S
  <2> HIDE DEF S
  <2> QED
    BY <1>1, ScanIs
<1>4. Start \in S => end = Start
  <2> HIDE DEF S, end
  <2> QED
    BY <1>1, <1>3
<1> HIDE DEF end
<1>5. Cursor' = IF Two(t, end) \in Opening THEN end ELSE end + 1
  <2> DEFINE two == Two(t, end)
  <2>1. end \in Nat
    BY <1>1, <1>3
  <2> HIDE DEF two
  <2>2. /\ inComment' <=> two = <<"/", "/">>
        /\ inMultiComment' <=> two = <<"/", "*">>
    <3>1. /\ inComment' = (two = <<"/", "/">>)
          /\ inMultiComment' = (two = <<"/", "*">>)
      BY <1>2 DEF two
    <3> QED
      BY <3>1
  <2>3. CASE two \in Opening
    <3>1. inComment' \/ inMultiComment'
      BY <2>2, <2>3
    <3> QED
      BY <1>2, <2>1, <2>3, <3>1 DEF Cursor, two
  <2>4. CASE two \notin Opening
    <3>1. ~inComment' /\ ~inMultiComment'
      BY <2>2, <2>4
    <3> QED
      BY <1>2, <2>4, <3>1 DEF Cursor, two
  <2> QED
    BY <2>3, <2>4
<1>6. CASE Two(t, Start) \in Opening
  <2>1. Start \in S
    BY <1>1, <1>6 DEF ArgumentEnds
  <2>2. end = Start
    BY <1>4, <2>1
  <2>3. Cursor' = Start
    BY <1>5, <1>6, <2>2
  <2>4. arg = <<>>
    BY <1>1, <2>2 DEF Text
  <2>5. componentList' = componentList
    BY <1>2, <2>4 DEF AddArgument
  <2> QED
    BY <1>1, <1>2, <2>3, <2>5, SameItems
<1>7. CASE Two(t, Start) \notin Opening
  <2>1. item.kind = "argument" /\ item.text = arg /\ item.next = end
    <3>1. item = ArgumentItem(t, Start)
      BY <1>1, <1>7, ItemKinds
    <3> HIDE DEF item
    <3> QED
      BY <1>1, <1>7, <3>1, ArgumentItemIs DEF end
  <2>2. arg \in Text
    <3>1. Start \in 1 .. length + 1 /\ end - 1 \in 0 .. length
      BY <1>1, <1>3
    <3> QED
      BY <1>1, <3>1, PieceOfText
  <2>3. ItemsFrom(t)[Cursor'] = ItemsFrom(t)[end]
    <3>1. CASE Two(t, end) \in Opening
      BY <1>5, <3>1
    <3>2. CASE Two(t, end) \notin Opening
      <4>1. Cursor' = end + 1
        BY <1>5, <3>2
      <4>2. CASE end = length + 1
        <5>1. /\ end \in 1 .. Len(t) + 2 /\ end + 1 \in 1 .. Len(t) + 2
              /\ end > Len(t) /\ end + 1 > Len(t)
          BY <1>1, <4>2
        <5>2. ItemsFrom(t)[end] = <<>> /\ ItemsFrom(t)[end + 1] = <<>>
          BY <1>1, <5>1, RestIs
        <5> QED
          BY <4>1, <5>2
      <4>3. CASE end # length + 1
        <5>1. end \in 1 .. Len(t) + 2 /\ end <= Len(t)
          BY <1>1, <1>3, <4>3
        <5>2. t[end] \in Spaces
          BY <1>3, <3>2, <4>3 DEF ArgumentEnds
        <5>3. ItemsFrom(t)[end] = ItemsFrom(t)[end + 1]
          BY <1>1, <5>1, <5>2, RestIs
        <5> QED
          BY <4>1, <5>3
      <4> QED
        BY <4>2, <4>3
    <3> QED
      BY <3>1, <3>2
  <2> HIDE DEF item, arg
  <2>4. Bare' = Take(Bare, item) /\ componentList' # <<>>
    BY <1>1, <1>2, <2>1, <2>2, BareArgument DEF SettingsInv, TypeOK
  <2> QED
    BY <1>1, <1>2, <2>1, <2>3, <2>4, OneItem DEF item
<1> QED
  BY <1>6, <1>7

-----------------------------------------------------------------------------
(***************************************************************************)
(* What the parser has read when it ends.                                  *)
(***************************************************************************)

\* Before the first turn nothing is read.
LEMMA InitReads == Init => ReadInv
<1> SUFFICES ASSUME Init PROVE ReadInv
  OBVIOUS
<1> DEFINE items == Items(configContents)
<1>1. SettingsInv
  BY InitSettings
<1>2. /\ items \in Seq(ItemSet) /\ Len(items) \in Nat
      /\ items = ItemsFrom(configContents)[1]
  BY <1>1, ItemsAre DEF SettingsInv, Items
<1>3. Cursor = 1 /\ CommentOpened
  BY DEF Init, Cursor, CommentOpened
<1>4. Bare = <<>>
  BY DEF Init, Bare, Contents
<1> HIDE DEF items
<1>5. Reading(items)[0] = <<>>
  BY <1>2, ReadingIs
<1>6. SubSeq(items, 1, Len(items)) = items
  BY <1>2
<1>7. ReadSoFar(0)
  BY <1>2, <1>3, <1>4, <1>5, <1>6 DEF ReadSoFar, items
<1>8. ReadsItems
  BY <1>2, <1>7 DEF ReadsItems, items
<1> QED
  BY <1>1, <1>3, <1>8 DEF Init, ReadInv

\* A turn leaves the parser behind the opening of a comment, if in one.
LEMMA NextOpened ==
  ASSUME SettingsInv, CommentOpened, [Next]_vars
  PROVE  CommentOpened'
<1>1. /\ TypeOK /\ configContents \in Text /\ length \in Nat
      /\ length = Len(configContents) /\ pos \in Nat \ {0}
  BY ItemsAre DEF SettingsInv, TypeOK
<1>2. CASE SkipComment
  BY <1>2 DEF SkipComment, CommentOpened
<1>3. CASE SkipMultiComment
  BY <1>3 DEF SkipMultiComment, CommentOpened
<1>4. ASSUME NEW p \in Nat \ {0}, OpensComment(p), UNCHANGED configContents,
             inComment' \/ inMultiComment' => pos' = p + 2
      PROVE  CommentOpened'
  <2> DEFINE two == Two(configContents, p)
  <2>1. two' = two
    BY <1>4 DEF Two, At
  <2> HIDE DEF two
  <2>2. /\ inComment' <=> two = <<"/", "/">>
        /\ inMultiComment' <=> two = <<"/", "*">>
    <3>1. /\ inComment' = (two = <<"/", "/">>)
          /\ inMultiComment' = (two = <<"/", "*">>)
      BY <1>4 DEF OpensComment, two
    <3> QED
      BY <3>1
  <2>3. inComment' \/ inMultiComment' => pos' - 2 = p /\ pos' > 2
    BY <1>4
  <2>4. ~(inComment' /\ inMultiComment')
    BY <2>2
  <2>5. inComment' \/ inMultiComment' =>
          Two(configContents', pos' - 2) = two
    BY <1>4, <2>3 DEF two
  <2> QED
    BY <2>2, <2>3, <2>4, <2>5 DEF CommentOpened
<1>5. CASE Slash
  <2>1. inComment' \/ inMultiComment' => pos' = pos + 2
    BY <1>5 DEF Slash, Goes
  <2> QED
    BY <1>1, <1>4, <1>5, <2>1 DEF Slash
<1>6. CASE NothingLeft \/ NameCutOff \/ Name \/ NoComponent \/ Quoted
  BY <1>6 DEF NothingLeft, NameCutOff, Name, NoComponent, Quoted,
              BeginsName, BeginsArgument, Begins, Parsing, CommentOpened
<1>7. CASE ~ended /\ Argument
  <2> DEFINE end == Scan(configContents, Start, ArgumentEnds(configContents))
  <2>1. Start \in 1 .. length
    BY <1>7, AtStart DEF Argument, BeginsArgument
  <2>2. end \in Nat \ {0}
    <3>1. end \in Start .. length + 1
      BY <1>1, <2>1, ScanIs
    <3> HIDE DEF end
    <3> QED
      BY <1>1, <2>1, <3>1
  <2>3. /\ OpensComment(end) /\ UNCHANGED configContents
        /\ inComment' \/ inMultiComment' => pos' = end + 2
    BY <1>7 DEF Argument, Goes
  <2> HIDE DEF end
  <2> QED
    BY <1>4, <2>2, <2>3
<1>8. CASE UNCHANGED vars
  BY <1>8 DEF vars, CommentOpened, Two, At
<1> QED
  BY <1>2, <1>3, <1>5, <1>6, <1>7, <1>8 DEF Next, Turn

\* When the parser ends without giving up, it has come to the text's end.
LEMMA NextEnds ==
  ASSUME SettingsInv, ended => pos > length, [Next]_vars, ~NoComponent
  PROVE  ended' => pos' > length'
<1>1. length' = length /\ length \in Nat
  <2>1. UNCHANGED configContents
    BY DEF Next, Turn, SkipComment, SkipMultiComment, Slash, NothingLeft,
           NameCutOff, Name, NoComponent, Quoted, Argument, vars
  <2> QED
    BY <2>1, ItemsAre DEF SettingsInv, length
<1>2. ASSUME NEW p, Goes(p) PROVE ended' => pos' > length
  <2>1. pos' = p /\ ended' = (p > length)
    BY <1>2 DEF Goes
  <2> QED
    BY <2>1
<1>3. CASE \/ SkipComment \/ SkipMultiComment \/ Slash
           \/ Name \/ Quoted \/ Argument
  <2>1. \E p : Goes(p)
    BY <1>3 DEF SkipComment, SkipMultiComment, Slash, Name, Quoted, Argument
  <2> QED
    BY <1>1, <1>2, <2>1
<1>4. CASE NothingLeft \/ NameCutOff
  BY <1>1, <1>4 DEF NothingLeft, NameCutOff
<1>5. CASE UNCHANGED vars
  BY <1>1, <1>5 DEF vars
<1> QED
  BY <1>3, <1>4, <1>5 DEF Next, Turn

\* Every turn of a plain text reads as it is meant.
LEMMA NextReads ==
  ASSUME ReadInv, [Next]_vars
  PROVE  ReadInv'
<1>1. SettingsInv /\ CommentOpened
  BY DEF ReadInv
<1>2. SettingsInv' /\ CommentOpened'
  BY <1>1, NextSettings, NextOpened
<1>3. ASSUME Plain(configContents)'
      PROVE  ReadsItems' /\ (ended => pos > length)'
  <2>1. UNCHANGED configContents
    BY DEF Next, Turn, SkipComment, SkipMultiComment, Slash, NothingLeft,
           NameCutOff, Name, NoComponent, Quoted, Argument, vars
  <2>2. Plain(configContents)
    BY <1>3, <2>1
  <2>3. ReadsItems /\ (ended => pos > length)
    BY <2>2 DEF ReadInv
  <2>4. (ReadsItems' /\ ~NoComponent) \/ UNCHANGED vars
    <3>1. CASE Turn
      <4>1. ~ended
        BY <3>1 DEF Turn
      <4>2. ~NoComponent
        BY <1>1, <2>2, <2>3, <4>1, NoComponentReads
      <4>3. CASE SkipComment
        BY <1>1, <2>2, <2>3, <4>1, <4>2, <4>3, SkipCommentReads
      <4>4. CASE SkipMultiComment
        BY <1>1, <2>2, <2>3, <4>1, <4>2, <4>4, SkipMultiCommentReads
      <4>5. CASE Slash
        BY <1>1, <2>3, <4>2, <4>5, SlashReads
      <4>6. CASE NothingLeft
        BY <1>1, <2>3, <4>1, <4>2, <4>6, NothingLeftReads
      <4>7. CASE NameCutOff
        BY <1>1, <2>2, <2>3, <4>1, <4>7, NameCutOffReads
      <4>8. CASE Name
        BY <1>1, <2>2, <2>3, <4>1, <4>2, <4>8, NameReads
      <4>9. CASE Quoted
        BY <1>1, <2>2, <2>3, <4>1, <4>2, <4>9, QuotedReads
      <4>10. CASE Argument
        BY <1>1, <2>2, <2>3, <4>1, <4>2, <4>10, ArgumentReads
      <4> QED
        BY <3>1, <4>2, <4>3, <4>4, <4>5, <4>6, <4>7, <4>8, <4>9, <4>10 DEF Turn
    <3> QED
      BY <3>1 DEF Next
  <2>5. CASE UNCHANGED vars
    <3>1. UNCHANGED <<configContents, componentList, pos, inComment,
                      inMultiComment, ended>>
      BY <2>5 DEF vars
    <3>2. ItemsFrom(configContents)[Cursor']
            = ItemsFrom(configContents)[Cursor]
      BY <3>1 DEF Cursor
    <3>3. ReadsItems'
      BY <2>3, <3>1, <3>2, SameItems
    <3> QED
      BY <2>3, <3>1, <3>3 DEF length
  <2>6. CASE ReadsItems' /\ ~NoComponent
    BY <1>1, <2>3, <2>6, NextEnds
  <2> QED
    BY <2>4, <2>5, <2>6
<1> QED
  BY <1>2, <1>3 DEF ReadInv

\* At the end of a plain text no item is left but a comment that just began.
LEMMA AllRead ==
  ASSUME ReadInv, ended, Plain(configContents)
  PROVE  Bare = Documented(Items(configContents))
<1> DEFINE t == configContents
           items == Items(t)
           c == pos - 2
<1>1. /\ TypeOK /\ CommentOpened /\ ReadsItems /\ pos > length
      /\ t \in Text /\ length \in Nat /\ length = Len(t)
      /\ pos \in 1 .. length + 2
      /\ items \in Seq(ItemSet) /\ Len(items) \in Nat
  BY ItemsAre DEF ReadInv, SettingsInv, TypeOK
<1>2. PICK k \in 0 .. Len(items) : ReadSoFar(k)
  BY <1>1 DEF ReadsItems
<1>3. Bare = Reading(items)[k] /\ k \in Nat
  BY <1>1, <1>2 DEF ReadSoFar
<1>4. CASE ~inComment /\ ~inMultiComment
  <2>1. ItemsFrom(t)[pos] = <<>>
    BY <1>1, RestIs
  <2>2. SubSeq(items, k + 1, Len(items)) = <<>>
    <3>1. Cursor = pos
      BY <1>4 DEF Cursor
    <3> QED
      BY <1>2, <2>1, <3>1 DEF ReadSoFar
  <2> HIDE DEF items
  <2>3. k = Len(items)
    BY <1>1, <1>3, <2>2, EmptySuffix
  <2> QED
    BY <1>3, <2>3 DEF Documented, items
<1>5. CASE inComment \/ inMultiComment
  <2> DEFINE item == ItemAt(t, c)
  <2>1. /\ c \in Nat \ {0}
        /\ Two(t, c) = <<"/", "/">> \/ Two(t, c) = <<"/", "*">>
    BY <1>1, <1>5 DEF CommentOpened
  <2>2. /\ c \in 1 .. length /\ c + 1 <= length /\ t[c] = "/"
        /\ t[c + 1] \in {"/", "*"}
    <3> HIDE DEF c
    <3> QED
      BY <1>1, <2>1, TwoIs
  <2>3. t[c] \notin Spaces
    BY <2>2 DEF Spaces
  <2>4. item.kind \in {"line", "comment"} /\ item.next = length + 1
    <3>1. CASE Two(t, c) = <<"/", "/">>
      <4> DEFINE S == Where(t, {"newline"})
      <4>1. c \notin S /\ c + 1 \notin S
        BY <2>2 DEF Where
      <4> HIDE DEF c
      <4>2. item = LineItem(t, c)
        BY <1>1, <2>2, <3>1, ItemKinds
      <4>3. LineItem(t, c).kind = "line" /\ LineItem(t, c).next = Scan(t, c, S)
        BY <1>1, <2>2, LineItemIs
      <4> HIDE DEF S
      <4>4. /\ Scan(t, c, S) \in c .. length + 1
            /\ Scan(t, c, S) = length + 1 \/ Scan(t, c, S) \in S
        BY <1>1, <2>2, ScanIs
      <4>5. length <= c + 1
        BY <1>1, <2>2 DEF c
      <4> DEFINE end == Scan(t, c, S)
      <4>6. end = length + 1
        <5> HIDE DEF end
        <5>1. end \in c .. length + 1 /\ (end = length + 1 \/ end \in S)
          BY <4>4 DEF end
        <5>2. end = c \/ end = c + 1 \/ end = length + 1
          BY <1>1, <2>2, <4>5, <5>1
        <5> QED
          BY <4>1, <5>1, <5>2
      <4> QED
        BY <4>2, <4>3, <4>6
    <3>2. CASE Two(t, c) = <<"/", "*">>
      <4> DEFINE closing == Scan(t, c + 2, CommentCloses(t))
      <4>1. c + 2 = length + 1
        BY <1>1, <2>2
      <4> HIDE DEF c
      <4>2. item = CommentItem(t, c)
        BY <1>1, <2>2, <3>2, ItemKinds
      <4>3. /\ CommentItem(t, c).kind = "comment"
            /\ CommentItem(t, c).next
                 = IF closing > Len(t) THEN closing ELSE closing + 2
        BY <1>1, <2>2, CommentItemIs
      <4>4. closing \in length + 1 .. length + 1
        BY <1>1, <4>1, ScanIs
      <4> HIDE DEF closing
      <4> QED
        BY <1>1, <4>2, <4>3, <4>4
    <3> QED
      BY <2>1, <3>1, <3>2
  <2>5. /\ k + 1 \in 1 .. Len(items) /\ items[k + 1] = item
        /\ ItemsFrom(t)[item.next] = SubSeq(items, k + 2, Len(items))
    <3>1. ItemsFrom(t)[Cursor] = ItemsFrom(t)[c]
      BY <1>5 DEF Cursor
    <3> HIDE DEF c
    <3> QED
      BY <1>1, <1>2, <2>2, <2>3, <3>1, NextItem
  <2>6. SubSeq(items, k + 2, Len(items)) = <<>>
    <3>1. length + 1 \in 1 .. Len(t) + 2 /\ length + 1 > Len(t)
      BY <1>1
    <3>2. ItemsFrom(t)[length + 1] = <<>>
      BY <1>1, <3>1, RestIs
    <3> QED
      BY <2>4, <2>5, <3>2
  <2> HIDE DEF item
  <2>7. Reading(items)[k + 1] = Take(Reading(items)[k], items[k + 1])
    <3> HIDE DEF items
    <3>1. k + 1 - 1 = k
      BY <1>3
    <3> QED
      BY <1>1, <2>5, <3>1, ReadingIs
  <2>8. Take(Reading(items)[k], items[k + 1]) = Bare
    BY <1>3, <2>4, <2>5 DEF Take
  <2> HIDE DEF items
  <2>9. k + 1 = Len(items)
    <3>1. k + 2 = (k + 1) + 1 /\ k + 1 \in 0 .. Len(items)
      BY <1>1, <1>3, <2>5
    <3> QED
      BY <1>1, <2>6, <3>1, EmptySuffix
  <2> QED
    BY <2>7, <2>8, <2>9 DEF Documented, items
<1> QED
  BY <1>4, <1>5

\* The parser stays within the invariant.
THEOREM ReadsInvariant == Spec => []ReadInv
BY InitReads, NextReads, PTL DEF Spec

\* Every text of the plain sort, of any length, is read as config.h says:
\* comments are skipped, quoted text is one argument, everything else is split
\* at white space, and each argument goes to the component named last.
THEOREM PlainIsRead == Spec => []ReadsPlain
<1>1. ReadInv => ReadsPlain
  BY AllRead DEF ReadsPlain, ReadAs, Bare
<1> QED
  BY <1>1, ReadsInvariant, PTL
=============================================================================
