------------------------------ MODULE Settings ------------------------------
(***************************************************************************)
(* engine/config.c: the settings file is read into an argument list for    *)
(* each component.  A character is one of the classes that parseSettings   *)
(* tells apart.                                                            *)
(* An action is one turn of the parser's loop; `pos` is the next position, *)
(* counted from 1.                                                         *)
(***************************************************************************)
EXTENDS Integers, Sequences, Functions

CONSTANTS Texts,                 \* the files that may be read
          ARG_LIST_CHUNK_SIZE    \* slots by which an argument list grows

Spaces == {"space", "newline"}
Classes == Spaces \cup {"underscore", "/", "*", "quote", "other"}

ASSUME TextsAssumption == Texts \subseteq Seq(Classes)
ASSUME ChunkAssumption == ARG_LIST_CHUNK_SIZE \in Nat \ {0, 1}

VARIABLES configContents, pos, inComment, inMultiComment, ended,
          componentList,   \* [name, args, null, room]; `null` is the slot of the
                           \* NULL that ends a list, `room` the slots allocated
          argSize          \* room of the last component, as the parser counts

vars == <<configContents, pos, inComment, inMultiComment, ended,
          componentList, argSize>>

length == Len(configContents)

\* The class at a position; beyond the text is the terminating zero.
At(text, p) == IF p <= Len(text) THEN text[p] ELSE "end"

Two(text, p) == <<At(text, p), At(text, p + 1)>>

\* The first of the positions `stops` from p on, or the one after the end.
Scan(text, p, stops) ==
  CHOOSE q \in p .. Len(text) + 1 :
    /\ q = Len(text) + 1 \/ q \in stops
    /\ \A r \in p .. q - 1 : r \notin stops

\* The positions of characters of some classes.
Where(text, classes) == {q \in 1 .. Len(text) : text[q] \in classes}

TypeOK ==
  /\ configContents \in Seq(Classes)
  /\ pos \in 1 .. length + 2
  /\ inComment \in BOOLEAN /\ inMultiComment \in BOOLEAN /\ ended \in BOOLEAN
  /\ \A i \in DOMAIN componentList :
       /\ componentList[i].name \in Seq(Classes)
       /\ componentList[i].args \in Seq(Seq(Classes))
       /\ componentList[i].null \in Nat
       /\ componentList[i].room \in Nat
  /\ argSize \in Nat

\* openSettings has read the file.
Init ==
  /\ configContents \in Texts
  /\ pos = 1
  /\ inComment = FALSE /\ inMultiComment = FALSE /\ ended = FALSE
  /\ componentList = <<>>
  /\ argSize = ARG_LIST_CHUNK_SIZE

-----------------------------------------------------------------------------
\* The loop's condition, evaluated with the position that a turn leaves.
Goes(p) == pos' = p /\ ended' = (p > length)

SkipComment ==
  /\ inComment
  /\ Goes(Scan(configContents, pos, Where(configContents, {"newline"})))
  /\ inComment' = FALSE
  /\ UNCHANGED <<configContents, inMultiComment, componentList, argSize>>

\* Where the scan of a block comment stops.
CommentStops(text) ==
  {q \in 1 .. Len(text) : text[q] = "*" \/ At(text, q + 1) = "/"}

SkipMultiComment ==
  /\ inMultiComment /\ ~inComment
  /\ LET q == Scan(configContents, pos, CommentStops(configContents))
     IN Goes(IF q > length THEN q ELSE q + 2)
  /\ inMultiComment' = FALSE
  /\ UNCHANGED <<configContents, inComment, componentList, argSize>>

Parsing == ~ended /\ ~inComment /\ ~inMultiComment

OpensComment(p) ==
  /\ inComment' = (Two(configContents, p) = <<"/", "/">>)
  /\ inMultiComment' = (Two(configContents, p) = <<"/", "*">>)

\* Mutant of Slash: only the other kind of comment is looked for.
Slash_NoBlock ==
  /\ Parsing
  /\ At(configContents, pos) = "/"
  /\ inComment' = (Two(configContents, pos) = <<"/", "/">>)
  /\ Goes(IF inComment' THEN pos + 2 ELSE pos)
  /\ UNCHANGED <<configContents, inMultiComment, componentList, argSize>>

\* A turn that begins at a slash only looks for a comment.
Slash ==
  /\ Parsing
  /\ At(configContents, pos) = "/"
  /\ OpensComment(pos)
  /\ Goes(IF inComment' \/ inMultiComment' THEN pos + 2 ELSE pos)
  /\ UNCHANGED <<configContents, componentList, argSize>>

\* Other turns skip white space first.
Start == Scan(configContents, pos, Where(configContents, Classes \ Spaces))

Begins == Parsing /\ At(configContents, pos) # "/"

NothingLeft ==
  /\ Begins
  /\ Start > length
  /\ pos' = Start /\ ended' = TRUE
  /\ UNCHANGED <<configContents, inComment, inMultiComment, componentList,
                 argSize>>

BeginsName ==
  Begins /\ Two(configContents, Start) = <<"underscore", "underscore">>

NameEnd == Scan(configContents, Start + 2, Where(configContents, Spaces))

\* Mutant of NameCutOff: the position is left one further than the name.
NameCutOff_Past ==
  /\ BeginsName
  /\ NameEnd > length
  /\ pos' = NameEnd + 2 /\ ended' = TRUE
  /\ UNCHANGED <<configContents, inComment, inMultiComment, componentList,
                 argSize>>

\* A name that the end of the text cuts off is dropped.
NameCutOff ==
  /\ BeginsName
  /\ NameEnd > length
  /\ pos' = NameEnd /\ ended' = TRUE
  /\ UNCHANGED <<configContents, inComment, inMultiComment, componentList,
                 argSize>>

\* Mutant of Name: argSize is not that of the new list.
Name_KeepsSize ==
  /\ BeginsName
  /\ NameEnd <= length
  /\ componentList' = Append(componentList,
       [name |-> SubSeq(configContents, Start + 2, NameEnd - 1),
        args |-> <<>>, null |-> 2, room |-> ARG_LIST_CHUNK_SIZE])
  /\ Goes(NameEnd + 1)
  /\ UNCHANGED <<configContents, inComment, inMultiComment, argSize>>

Name ==
  /\ BeginsName
  /\ NameEnd <= length
  /\ componentList' = Append(componentList,
       [name |-> SubSeq(configContents, Start + 2, NameEnd - 1),
        args |-> <<>>, null |-> 2, room |-> ARG_LIST_CHUNK_SIZE])
  /\ argSize' = ARG_LIST_CHUNK_SIZE
  /\ Goes(NameEnd + 1)
  /\ UNCHANGED <<configContents, inComment, inMultiComment>>

BeginsArgument ==
  /\ Begins
  /\ Start <= length
  /\ Two(configContents, Start) # <<"underscore", "underscore">>

\* Text before the first name: the parser gives up.
NoComponent ==
  /\ BeginsArgument
  /\ componentList = <<>>
  /\ pos' = Start /\ ended' = TRUE
  /\ UNCHANGED <<configContents, inComment, inMultiComment, componentList,
                 argSize>>

\* The list of the last component takes an argument, unless it is empty.
\* The name is the first entry of a list, and a NULL follows the last one; the
\* list grows when there is no room for the argument, whatever there is for
\* the NULL.
AddArgument(arg) ==
  LET last == Len(componentList)
      count == Len(componentList[last].args) + 1
      room == IF count = argSize THEN argSize + ARG_LIST_CHUNK_SIZE
              ELSE componentList[last].room
  IN IF arg = <<>> THEN UNCHANGED <<componentList, argSize>>
     ELSE /\ argSize' = IF count = argSize THEN room ELSE argSize
          /\ componentList' =
               [componentList EXCEPT ![last].args = Append(@, arg),
                                     ![last].null = count + 2,
                                     ![last].room = room]

Quoted ==
  /\ BeginsArgument
  /\ componentList # <<>>
  /\ At(configContents, Start) = "quote"
  /\ LET end == Scan(configContents, Start + 1,
                     Where(configContents, {"quote"}))
     IN /\ AddArgument(SubSeq(configContents, Start + 1, end - 1))
        /\ Goes(end + 1)
  /\ UNCHANGED <<configContents, inComment, inMultiComment>>

\* Where an argument without quotes ends.
ArgumentEnds(text) ==
  {q \in 1 .. Len(text) : \/ text[q] \in Spaces
                         \/ Two(text, q) \in {<<"/", "/">>, <<"/", "*">>}}

\* Mutant of Argument: after a comment's opening only one character is skipped.
Argument_HalfOpening ==
  /\ BeginsArgument
  /\ componentList # <<>>
  /\ At(configContents, Start) # "quote"
  /\ LET end == Scan(configContents, Start, ArgumentEnds(configContents))
     IN /\ AddArgument(SubSeq(configContents, Start, end - 1))
        /\ OpensComment(end)
        /\ Goes(end + 1)
  /\ UNCHANGED configContents

Argument ==
  /\ BeginsArgument
  /\ componentList # <<>>
  /\ At(configContents, Start) # "quote"
  /\ LET end == Scan(configContents, Start, ArgumentEnds(configContents))
     IN /\ AddArgument(SubSeq(configContents, Start, end - 1))
        /\ OpensComment(end)
        /\ Goes(IF inComment' \/ inMultiComment' THEN end + 2 ELSE end + 1)
  /\ UNCHANGED configContents

Turn ==
  /\ ~ended
  /\ \/ SkipComment \/ SkipMultiComment \/ Slash
     \/ NothingLeft \/ NameCutOff \/ Name
     \/ NoComponent \/ Quoted \/ Argument

Next == Turn

Spec == Init /\ [][Next]_vars

\* The parser's loop is run until it ends.
FairSpec == Spec /\ WF_vars(Turn)

\* getSettings: the arguments of the first component with a name.
getSettings(list, name) ==
  LET named == {i \in DOMAIN list : list[i].name = name}
  IN IF named = {} THEN <<>>
     ELSE list[CHOOSE i \in named : \A j \in named : i <= j].args

-----------------------------------------------------------------------------
(***************************************************************************)
(* What config.h says of a text, as the items it is made of: "skip any //  *)
(* or /* portions of text, handle "" text, but otherwise split on          *)
(* whitespace.  Component names start with __".                            *)
(***************************************************************************)
\* Where a block comment is closed.
CommentCloses(text) ==
  {q \in 1 .. Len(text) : Two(text, q) = <<"*", "/">>}

\* An item: where it begins, its text, which is between two positions, and
\* where the items after it begin.
Item(kind, text, at, from, to, next) ==
  [kind |-> kind, at |-> at, text |-> SubSeq(text, from, to - 1),
   next |-> next]

LineItem(text, p) ==
  LET end == Scan(text, p, Where(text, {"newline"}))
  IN Item("line", text, p, p, end, end)

CommentItem(text, p) ==
  LET closing == Scan(text, p + 2, CommentCloses(text))
  IN Item("comment", text, p, p + 2, closing,
          IF closing > Len(text) THEN closing ELSE closing + 2)

NameItem(text, p) ==
  LET end == Scan(text, p + 2, Where(text, Spaces))
  IN Item(IF end > Len(text) THEN "cut" ELSE "name",
          text, p, p + 2, end, end)

QuotedItem(text, p) ==
  LET end == Scan(text, p + 1, Where(text, {"quote"}))
  IN Item("argument", text, p, p + 1, end, end + 1)

ArgumentItem(text, p) ==
  LET end == Scan(text, p, ArgumentEnds(text))
  IN Item("argument", text, p, p, end, end)

\* The item that begins at p, where there is no white space.
ItemAt(text, p) ==
  CASE Two(text, p) = <<"/", "/">> -> LineItem(text, p)
    [] Two(text, p) = <<"/", "*">> -> CommentItem(text, p)
    [] Two(text, p) = <<"underscore", "underscore">> -> NameItem(text, p)
    [] text[p] = "quote" -> QuotedItem(text, p)
    [] OTHER -> ArgumentItem(text, p)

\* The items from each position on.
ItemsFrom(text) ==
  LET from[p \in 1 .. Len(text) + 2] ==
        IF p > Len(text) THEN <<>>
        ELSE IF text[p] \in Spaces THEN from[p + 1]
        ELSE <<ItemAt(text, p)>> \o from[ItemAt(text, p).next]
  IN from

Items(text) == ItemsFrom(text)[1]

\* The component list that a sequence of items stands for.  Arguments before
\* any name stand for nothing.
Take(list, item) ==
  CASE item.kind \in {"name", "cut"} ->
         Append(list, [name |-> item.text, args |-> <<>>])
    [] item.kind = "argument" /\ list # <<>> /\ item.text # <<>> ->
         [list EXCEPT ![Len(list)].args = Append(@, item.text)]
    [] OTHER -> list

\* What the first items stand for.
Reading(items) ==
  LET read[n \in 0 .. Len(items)] ==
        IF n = 0 THEN <<>> ELSE Take(read[n - 1], items[n])
  IN read

Documented(items) == Reading(items)[Len(items)]

\* The items that the parser does not read as they are meant: a block comment
\* with a star, or with a slash after its first character; a name that the end
\* of the text cuts off; and, before the first name, an argument or a comment
\* after white space, with which it gives up.
OddComment(item) ==
  /\ item.kind = "comment"
  /\ \E i \in DOMAIN item.text :
       item.text[i] = "*" \/ (item.text[i] = "/" /\ i > 1)

OddName(item) == item.kind = "cut"

OddStart(text, items) ==
  LET AfterSpace(item) == item.at > 1 /\ text[item.at - 1] \in Spaces
  IN \E i \in DOMAIN items :
       /\ items[i].kind = "argument" \/ AfterSpace(items[i])
       /\ \A j \in 1 .. i : items[j].kind \notin {"name", "cut"}

\* A component list without the sizes allocated for its lists.
Contents(list) == [i \in DOMAIN list |-> [name |-> list[i].name,
                                          args |-> list[i].args]]

ReadAs(items) == Contents(componentList) = Documented(items)

Plain(text) ==
  /\ ~OddStart(text, Items(text))
  /\ \A item \in Range(Items(text)) : ~OddComment(item) /\ ~OddName(item)

\* A text without such items is read as config.h says.
ReadsPlain ==
  ended /\ Plain(configContents) => ReadAs(Items(configContents))

\* config.h: "The tool will also skip any // or /* portions of text", whatever
\* they contain.
CommentsSkipped ==
  LET items == Items(configContents)
  IN /\ ended
     /\ ~OddStart(configContents, items)
     /\ \A item \in Range(items) : ~OddName(item)
     => ReadAs(items)

\* The entries of a list, its name first, fit what was allocated for it.  The
\* NULL follows the last of them, and for it the code makes no room: when the
\* entries fill the list, it is written into the first slot behind it, and never
\* further (argSize in config.c).
EntriesFit ==
  \A i \in DOMAIN componentList :
    /\ Len(componentList[i].args) + 1 <= componentList[i].room
    /\ componentList[i].null = Len(componentList[i].args) + 2

\* A turn at a slash that opens no comment does nothing, again and again.
AtLoneSlash ==
  /\ Parsing
  /\ At(configContents, pos) = "/"
  /\ At(configContents, pos + 1) \notin {"/", "*"}

\* The parser ends, or comes to a lone slash and stays there.
EndsUnlessSlash == <>(ended \/ []AtLoneSlash)
=============================================================================
