---------------------------- MODULE Replacement ----------------------------
(***************************************************************************)
(* teamCache/replacement.c: which line of a set a miss takes, and how an   *)
(* access renews a line's time_stamp.  Under LRU that is the number of the *)
(* access that used the line last; under RRIP it is a prediction from 0    *)
(* (soon) to RripMax = 2^k - 1 (far), aged only when a victim is needed.   *)
(* A set is a function from its ways to lines.                             *)
(***************************************************************************)
EXTENDS Integers

CONSTANTS E,            \* lines per set, option -E
          RripMax,      \* rrip_max: 2^k - 1 for option -R k
          SequenceMax   \* UINT64_MAX, the last access number

ASSUME LinesAssumption == E \in Nat \ {0}
ASSUME RripAssumption == RripMax \in Nat \ {0}
ASSUME SequenceAssumption == SequenceMax \in Nat

Ways == 0 .. (E - 1)

\* "RRIP" with option -R.
CachePolicies == {"LRU", "RRIP"}

\* Ways are scanned in ascending order; the first that qualifies is taken.
FirstWay(ways) == CHOOSE w \in ways : \A v \in ways : w <= v

lru_victim(lines) ==
  FirstWay({w \in Ways :
              \A v \in Ways : lines[w].time_stamp <= lines[v].time_stamp})

\* rrip_victim: while no line's prediction is RripMax, the set is aged by a
\* year; the first line with that prediction is taken.
Aged(lines, years) ==
  [w \in Ways |-> [lines[w] EXCEPT !.time_stamp = @ + years]]

Far(lines) == {w \in Ways : lines[w].time_stamp = RripMax}

Years(lines) ==
  CHOOSE n \in 0 .. RripMax :
    /\ Far(Aged(lines, n)) # {}
    /\ \A m \in 0 .. n - 1 : Far(Aged(lines, m)) = {}

rrip_victim(lines) ==
  LET aged == Aged(lines, Years(lines))
  IN [way |-> FirstWay(Far(aged)), lines |-> aged]

\* cache_replacement_target: an invalid line if there is one, else the
\* policy's victim; with the lines as the search leaves them.
cache_replacement_target(policy, lines) ==
  LET invalid == {w \in Ways : ~lines[w].valid}
  IN CASE invalid # {} -> [way |-> FirstWay(invalid), lines |-> lines]
       [] invalid = {} /\ policy = "LRU" ->
            [way |-> lru_victim(lines), lines |-> lines]
       [] invalid = {} /\ policy = "RRIP" -> rrip_victim(lines)

\* The stamp of a line that was hit, or filled, given access_sequence.
HitStamp(policy, sequence) == IF policy = "LRU" THEN sequence + 1 ELSE 0

\* Mutant of FillStamp: the prediction is one past the farthest.
FillStamp_Past(policy, sequence) ==
  IF policy = "LRU" THEN sequence + 1 ELSE RripMax + 1

FillStamp(policy, sequence) ==
  IF policy = "LRU" THEN sequence + 1 ELSE RripMax - 1

\* access_sequence after a hit or fill; past SequenceMax the program exits.
NextSequence(policy, sequence) ==
  IF policy = "LRU" THEN sequence + 1 ELSE sequence

Exhausted(policy, sequence) == policy = "LRU" /\ sequence = SequenceMax
=============================================================================
