------------------------------- MODULE Answer -------------------------------
(***************************************************************************)
(* What the computations of the services have in common: null and          *)
(* undefined, the error answer of a handler that throws, sums, the digits  *)
(* of a number as text, filters and sorting.                               *)
(***************************************************************************)
EXTENDS Integers, Sequences, FiniteSets, SequencesExt

CONSTANT Null  \* null and undefined

ASSUME NullAssumption == Null \notin Int

Error == [error |-> TRUE]

Sum(s) == FoldLeft(LAMBDA total, x : total + x, 0, s)

Digits(n) ==
  LET digits[m \in 0..n] == IF m < 10 THEN <<m>> ELSE Append(digits[m \div 10], m % 10)
  IN  digits[n]

\* Array.prototype.filter: what is at some places of a sequence, in its order.
\* SelectSeq with a set in the place of the test.
Kept(s, places) ==
  LET kept[n \in 0..Len(s)] ==
        IF n = 0 THEN <<>>
        ELSE IF n \in places THEN Append(kept[n - 1], s[n]) ELSE kept[n - 1]
  IN  kept[Len(s)]

\* Array.prototype.sort by a number of each entry, key[k] that of s[k]: entries of
\* the same number keep their order.
Sorted(s, key) ==
  LET rank(i) == Cardinality({j \in DOMAIN s : key[j] < key[i] \/ (key[j] = key[i] /\ j <= i)})
  IN  [k \in DOMAIN s |-> s[CHOOSE i \in DOMAIN s : rank(i) = k]]
=============================================================================
