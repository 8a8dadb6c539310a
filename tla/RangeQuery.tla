----------------------------- MODULE RangeQuery -----------------------------
(***************************************************************************)
(* The range parameter of GET /blocks: parseRangeOfNumbersOrThrow.         *)
(***************************************************************************)
EXTENDS Naturals, Sequences

CONSTANTS MaxRange,  \* maxRange, the 500 of getBlocks
          NaN        \* what Number() makes of a part that is not a number

ASSUME RangeAssumption == MaxRange \in Nat /\ NaN \notin Nat

\* parts: what Number() makes of each part between the dashes; the empty part of
\* "-5" is 0.  True if nothing is thrown.
RangeAccepted(parts) ==
  /\ Len(parts) = 2
  /\ {parts[1], parts[2]} \subseteq Nat
  /\ parts[2] # 0
  /\ parts[1] < parts[2]
  /\ parts[2] - parts[1] <= MaxRange

RangeOfNums(parts) == [i \in 1..(parts[2] - parts[1] + 1) |-> parts[1] + i - 1]
=============================================================================
