-------------------------- MODULE BlockRangeProofs --------------------------
(***************************************************************************)
(* For any tree of blocks, any range and any number of slots: a range is   *)
(* answered with one block for each number, or with every Asset Hub block  *)
(* that was found, in order, and one that was final when it was asked for  *)
(* with one chain.                                                         *)
(*                                                                         *)
(* The argument is about one number at a time: what it was resolved to has *)
(* its height, and is final if the number was, whatever the node did since *)
(* the query arrived.  Then it is about the answer.  FlattenSeq keeps the  *)
(* entries of every array, each place once (by induction on the number of  *)
(* arrays); blocks.sort is a permutation into ascending numbers (the ranks *)
(* of n places are n different numbers from 1 to n), and leaves ascending  *)
(* heights alone.  Final blocks of adjacent heights are parent and child,  *)
(* and different final blocks include different Asset Hub blocks.          *)
(***************************************************************************)
EXTENDS BlockRange, FiniteSetTheorems, SequenceTheorems, TLAPS

-----------------------------------------------------------------------------
(* Chains of blocks: they form a tree, of which finality is never taken back. *)

\* The chain of an ancestor is part of the chain.
LEMMA ChainsNest ==
  ASSUME NEW b \in Blocks, NEW c \in Chain[b]
  PROVE  c \in Blocks /\ Chain[c] \subseteq Chain[b]
BY ChainAssumption

\* A chain contains everything of a longer one it shares a higher block with.
LEMMA LowerBlocksAreShared ==
  ASSUME NEW tip \in Blocks, NEW b \in Chain[tip], NEW c \in Chain[tip],
         Height[b] <= Height[c]
  PROVE  b \in Chain[c]
BY ChainAssumption

\* A chain has exactly one block at every height up to its tip.
LEMMA BlockAtHeight ==
  ASSUME NEW tip \in Blocks, NEW n \in Nat, n <= Height[tip]
  PROVE  /\ BlockAt(tip, n) \in Chain[tip]
         /\ Height[BlockAt(tip, n)] = n
         /\ \A c \in Chain[tip] : Height[c] = n => c = BlockAt(tip, n)
<1>1. n \in 0..Height[tip]
  BY ChainAssumption
<1>2. \E c \in Chain[tip] : Height[c] = n
  BY <1>1, ChainAssumption
<1>3. BlockAt(tip, n) \in Chain[tip] /\ Height[BlockAt(tip, n)] = n
  BY <1>2 DEF BlockAt
<1> QED BY <1>3, ChainAssumption

\* No block of a chain is higher than its tip.
LEMMA TipIsHighest ==
  ASSUME NEW b \in Blocks, NEW c \in Chain[b]
  PROVE  Height[c] <= Height[b]
<1>1. b \in Chain[b] /\ Chain[b] = {d \in Chain[b] : Height[d] <= Height[b]}
  BY ChainAssumption
<1> QED BY <1>1

\* Only the genesis block has height 0.
LEMMA OthersHaveParent ==
  ASSUME NEW b \in Blocks, b # Genesis
  PROVE  Height[b] \in Nat /\ Height[b] > 0 /\ Height[b] - 1 \in Nat
<1>1. Height[b] \in Nat /\ Height[Genesis] = 0
  BY ChainAssumption
<1>2. Height[b] # 0
  BY <1>1, ChainAssumption
<1> QED BY <1>1, <1>2

\* A block of the chain is a block of the best chain at the same height.
LEMMA CanonicalBlock ==
  ASSUME NodeTypeOK, NEW b \in Chain[best]
  PROVE  KnowsNumber(Height[b]) /\ GetBlockHash(Height[b]) = b
<1>1. best \in Blocks /\ b \in Blocks /\ Height[b] \in Nat
  BY ChainsNest, ChainAssumption DEF NodeTypeOK
<1>2. Height[b] <= Height[best]
  BY <1>1, TipIsHighest
<1>3. \A c \in Chain[best] : Height[c] = Height[b] => c = BlockAt(best, Height[b])
  BY <1>1, <1>2, BlockAtHeight
<1> QED BY <1>2, <1>3 DEF KnowsNumber, GetBlockHash

\* The parent by number is the parent, on the best chain.
LEMMA ParentByNumber ==
  ASSUME NodeTypeOK, NEW b \in Chain[best], b # Genesis
  PROVE  GetBlockHash(Height[b] - 1) = Parent(b)
<1>1. best \in Blocks /\ b \in Blocks /\ Chain[b] \subseteq Chain[best]
  BY ChainsNest DEF NodeTypeOK
<1>2. Height[b] - 1 \in Nat /\ Height[b] \in Nat /\ Height[best] \in Nat
  BY <1>1, OthersHaveParent, ChainAssumption
<1>3. Height[b] <= Height[best]
  BY <1>1, TipIsHighest
<1>4. Parent(b) \in Chain[best] /\ Height[Parent(b)] = Height[b] - 1
  BY <1>1, <1>2, BlockAtHeight DEF Parent
<1>5. \A c \in Chain[best] : Height[c] = Height[b] - 1 => c = BlockAt(best, Height[b] - 1)
  BY <1>1, <1>2, <1>3, BlockAtHeight
<1> QED BY <1>4, <1>5 DEF GetBlockHash

\* The finalized chain is part of the best chain.
LEMMA FinalIsCanonical ==
  ASSUME NodeTypeOK
  PROVE  /\ finalized \in Blocks
         /\ \A b : IsFinal(b) => b \in Chain[best] /\ b \in Blocks
<1>1. finalized \in Blocks /\ Chain[finalized] \subseteq Chain[best] /\ best \in Blocks
  BY ChainsNest DEF NodeTypeOK
<1> QED BY <1>1, ChainsNest DEF IsFinal

\* A canonical block not above a finalized one is final.
LEMMA CanonicalBelowFinal ==
  ASSUME NodeTypeOK, NEW b \in Chain[best], NEW f, IsFinal(f), Height[b] <= Height[f]
  PROVE  IsFinal(b)
<1>1. f \in Chain[best] /\ finalized \in Blocks /\ best \in Blocks
  BY FinalIsCanonical DEF NodeTypeOK
<1>2. b \in Chain[f]
  BY <1>1, LowerBlocksAreShared
<1> QED BY <1>1, <1>2, ChainsNest DEF IsFinal

\* What the node's steps keep.
LEMMA NodeKeeps ==
  ASSUME NodeTypeOK, NodeNext
  PROVE  NodeTypeOK' /\ \A b : IsFinal(b) => IsFinal(b)'
<1>1. CASE NewBest
  BY <1>1 DEF NewBest, NodeTypeOK, IsFinal
<1>2. CASE Finalize
  <2>1. PICK b \in Blocks : /\ finalized \in Chain[b]
                            /\ finalized' = b
                            /\ best' = IF b \in Chain[best] THEN best ELSE b
    BY <1>2 DEF Finalize
  <2>2. b \in Chain[b]
    BY ChainAssumption
  <2>3. NodeTypeOK'
    BY <2>1, <2>2 DEF NodeTypeOK
  <2>4. Chain[finalized] \subseteq Chain[b]
    BY <2>1, ChainsNest
  <2> QED BY <2>1, <2>3, <2>4 DEF IsFinal
<1> QED BY <1>1, <1>2 DEF NodeNext

-----------------------------------------------------------------------------
(* The invariant. *)

Typed ==
  /\ NodeTypeOK
  /\ query \in Queries
  /\ pc \in {"idle", "pending", "info", "ok", "error"}
  /\ status \in [Numbers -> Pool!Status]
  /\ stage \in [Numbers -> {"hash", "label", "build"}]
  /\ source \in [Numbers -> Blocks \cup {None}]
  /\ tag \in [Numbers -> {"absent", "true", "false"}]

Asked == pc \in {"pending", "info", "ok"} =>
           RangeAccepted(query.range) /\ range = RangeOfNums(query.range)

\* n has been resolved, to a block of its height, which is final if n was.
ResolvedRight(n) == /\ source[n] \in Blocks /\ Height[source[n]] = n
                    /\ n <= Height[since] => IsFinal(source[n])

Resolved ==
  /\ IsFinal(since)
  /\ \A n \in Numbers : stage[n] # "hash" \/ status[n] = "fulfilled" => ResolvedRight(n)

Phases ==
  /\ pc = "idle" => \A n \in Numbers : status[n] = "absent" /\ stage[n] = "hash"
  /\ \A n \in Numbers : status[n] # "absent" => n \in InRange
  /\ pc \in {"info", "ok"} => AllFulfilled
  /\ pc = "info" => query.useRc

Tagged ==
  ~query.useRc =>
    \A n \in Numbers : /\ stage[n] # "label"
                       /\ status[n] = "fulfilled" /\ n <= Height[since] => tag[n] = "true"

Sent == pc \in {"info", "ok"} => blocks = Sorted(Flattened)

\* rcBlock is read after the answer is made up.
InfoRight ==
  /\ pc # "ok" => info = None
  /\ info # None => /\ info \in Blocks /\ Height[info] = range[1]
                    /\ range[1] <= Height[since] => IsFinal(info)

IInv == Typed /\ Asked /\ Resolved /\ Phases /\ Tagged /\ Sent /\ InfoRight

\* Admission changes waiting tasks to admitted ones and nothing else.
LEMMA AdmitKeeps ==
  ASSUME NEW a, NEW s \in [Numbers -> Pool!Status]
  PROVE  /\ Pool!Admit(a, s) \in [Numbers -> Pool!Status]
         /\ \A n \in Numbers : \/ Pool!Admit(a, s)[n] = s[n]
                               \/ s[n] = "waiting" /\ Pool!Admit(a, s)[n] = "admitted"
BY DEF Pool!Admit, Pool!Status

\* A range that is accepted is one of numbers, from its first to its second.
LEMMA RangeRight ==
  ASSUME NEW q \in Queries, RangeAccepted(q.range), NEW r, r = RangeOfNums(q.range)
  PROVE  /\ q.range[1] \in Nat /\ q.range[2] \in Nat /\ q.range[1] < q.range[2]
         /\ DOMAIN r = 1..(q.range[2] - q.range[1] + 1)
         /\ r \in Seq(Numbers) /\ Len(r) = q.range[2] - q.range[1] + 1
         /\ \A i \in DOMAIN r : r[i] = q.range[1] + i - 1 /\ r[i] \in Numbers
<1>1. /\ q.range[1] \in Nat /\ q.range[2] \in Nat /\ q.range[1] < q.range[2]
      /\ q.range[1]..q.range[2] \subseteq Numbers
  BY RangesAssumption DEF RangeAccepted
<1>2. /\ DOMAIN r = 1..(q.range[2] - q.range[1] + 1)
      /\ \A i \in DOMAIN r : r[i] = q.range[1] + i - 1
  BY <1>1 DEF RangeOfNums
<1>3. \A i \in DOMAIN r : r[i] \in q.range[1]..q.range[2]
  BY <1>1, <1>2
<1>4. q.range[2] - q.range[1] + 1 \in Nat
  BY <1>1
<1>5. r = [i \in 1..(q.range[2] - q.range[1] + 1) |-> r[i]]
  BY <1>1 DEF RangeOfNums
<1>6. r \in Seq(Numbers) /\ Len(r) = q.range[2] - q.range[1] + 1
  <2> DEFINE n == q.range[2] - q.range[1] + 1
  <2>1. n \in Nat /\ r \in [1..n -> Numbers]
    BY <1>1, <1>3, <1>4, <1>5
  <2> HIDE DEF n
  <2>2. r \in Seq(Numbers) /\ Len(r) = n
    BY <2>1
  <2> QED
    BY <2>2 DEF n
<1> QED
  BY <1>1, <1>2, <1>3, <1>4, <1>6

-----------------------------------------------------------------------------
\* Induction over the numbers, for a set: the least number outside S would be
\* the successor of one inside.
LEMMA SetInduction ==
  ASSUME NEW S, 0 \in S, \A n \in Nat : n \in S => n + 1 \in S
  PROVE  Nat \subseteq S
<1> DEFINE T == Nat \ S
           R == OpToRel(<, Nat)
<1>1. SUFFICES ASSUME T # {} PROVE FALSE
  OBVIOUS
<1>2. PICK x \in T : \A y \in T : ~(<<y, x>> \in R)
  <2>1. IsWellFoundedOn(R, Nat)
    BY NatLessThanWellFounded
  <2>2. T \subseteq Nat
    OBVIOUS
  <2> HIDE DEF R
  <2> QED BY <2>1, <2>2, <1>1, WFMin
<1>3. x \in Nat /\ x \notin S /\ x # 0
  BY <1>2
<1>4. x - 1 \in Nat /\ x - 1 \notin S
  <2>1. x - 1 \in Nat
    BY <1>3
  <2> QED BY <1>3, <2>1
<1>5. <<x - 1, x>> \in R
  BY <1>3, <1>4 DEF OpToRel
<1> QED BY <1>2, <1>4, <1>5

\* f[i] concatenates the first i sequences of ss.
Concatenates(f, ss, n) ==
  f = [i \in 1..n |-> IF i = 1 THEN ss[i] ELSE f[i - 1] \o ss[i]]

\* There is such a function for every number of sequences.
LEMMA ConcatenationExists ==
  ASSUME NEW ss, NEW n \in Nat
  PROVE  \E f : Concatenates(f, ss, n)
<1> DEFINE Have == {m \in Nat : \E f : Concatenates(f, ss, m)}
<1>1. 0 \in Have
  <2>1. Concatenates([i \in 1..0 |-> 0], ss, 0)
    BY DEF Concatenates
  <2> QED
    BY <2>1
<1>2. ASSUME NEW m \in Nat, m \in Have
      PROVE  m + 1 \in Have
  <2>1. PICK f : Concatenates(f, ss, m)
    BY <1>2
  <2> DEFINE g == [i \in 1..m + 1 |-> IF i = m + 1
                                      THEN IF i = 1 THEN ss[i] ELSE f[m] \o ss[i]
                                      ELSE f[i]]
  <2>2. \A i \in 1..m + 1 : g[i] = IF i = 1 THEN ss[i] ELSE g[i - 1] \o ss[i]
    <3> TAKE i \in 1..m + 1
    <3>1. CASE i = m + 1
      BY <3>1
    <3>2. CASE i # m + 1
      <4>1. i \in 1..m /\ g[i] = f[i]
        BY <3>2
      <4>2. f[i] = IF i = 1 THEN ss[i] ELSE f[i - 1] \o ss[i]
        BY <2>1, <4>1 DEF Concatenates
      <4>3. i # 1 => g[i - 1] = f[i - 1]
        BY <4>1
      <4> HIDE DEF g
      <4> QED
        BY <4>1, <4>2, <4>3
    <3> QED
      BY <3>1, <3>2
  <2>3. g = [i \in 1..m + 1 |-> g[i]]
    OBVIOUS
  <2> HIDE DEF g
  <2>4. g = [i \in 1..m + 1 |-> IF i = 1 THEN ss[i] ELSE g[i - 1] \o ss[i]]
    BY <2>2, <2>3
  <2>5. Concatenates(g, ss, m + 1)
    BY <2>4 DEF Concatenates
  <2> QED
    BY <2>5
<1> HIDE DEF Have
<1>3. Nat \subseteq Have
  BY <1>1, <1>2, SetInduction
<1> QED
  BY <1>3 DEF Have

\* s has the entries of the first n sequences of ss, each place of each once.
Flattens(s, ss, n) ==
  /\ \A i \in 1..n : \A j \in DOMAIN ss[i] : \E p \in DOMAIN s : s[p] = ss[i][j]
  /\ \A p \in DOMAIN s : \E i \in 1..n : \E j \in DOMAIN ss[i] : s[p] = ss[i][j]
  /\ \A p, q \in DOMAIN s : p # q =>
       \E i, k \in 1..n : \E j \in DOMAIN ss[i], l \in DOMAIN ss[k] :
         s[p] = ss[i][j] /\ s[q] = ss[k][l] /\ (i # k \/ j # l)

\* One more sequence is appended.
LEMMA OneMore ==
  ASSUME NEW S, NEW n \in Nat \ {0}, NEW ss \in [1..n -> Seq(S)], NEW m \in 1..n - 1,
         NEW s \in Seq(S), Flattens(s, ss, m)
  PROVE  /\ s \o ss[m + 1] \in Seq(S)
         /\ Flattens(s \o ss[m + 1], ss, m + 1)
<1> DEFINE t == ss[m + 1]
           u == s \o t
<1>1. t \in Seq(S) /\ Len(t) \in Nat /\ Len(s) \in Nat /\ DOMAIN t = 1..Len(t) /\ DOMAIN s = 1..Len(s)
  <2>1. ss[m + 1] \in Seq(S)
    OBVIOUS
  <2> QED
    BY <2>1
<1>2. /\ u \in Seq(S) /\ Len(u) = Len(s) + Len(t)
      /\ \A p \in 1..Len(s) + Len(t) : u[p] = IF p <= Len(s) THEN s[p] ELSE t[p - Len(s)]
  <2> HIDE DEF t
  <2> QED
    BY <1>1, ConcatProperties
<1>3. DOMAIN u = 1..Len(s) + Len(t)
  BY <1>2, LenProperties
<1> HIDE DEF u
<1>4. ASSUME NEW i \in 1..m + 1, NEW j \in DOMAIN ss[i]
      PROVE  \E p \in DOMAIN u : u[p] = ss[i][j]
  <2>1. CASE i = m + 1
    <3>1. j \in 1..Len(t) /\ Len(s) + j \in DOMAIN u
      BY <1>1, <1>3, <2>1
    <3>2. u[Len(s) + j] = t[j]
      <4> DEFINE a == Len(s)
                 b == Len(t)
                 p == a + j
      <4>1. a \in Nat /\ b \in Nat /\ j \in 1..b
        BY <1>1, <3>1
      <4>2. \A k \in 1..a + b : u[k] = IF k <= a THEN s[k] ELSE t[k - a]
        BY <1>2
      <4> HIDE DEF t, a, b
      <4>3. p \in 1..a + b /\ ~(p <= a) /\ p - a = j
        BY <4>1
      <4> HIDE DEF p
      <4>4. u[p] = t[j]
        BY <4>2, <4>3
      <4> QED BY <4>4 DEF p, a
    <3> QED
      BY <3>1, <3>2, <2>1
  <2>2. CASE i # m + 1
    <3>1. i \in 1..m
      BY <2>2
    <3>2. PICK p \in DOMAIN s : s[p] = ss[i][j]
      BY <3>1 DEF Flattens
    <3>3. p \in DOMAIN u /\ u[p] = s[p]
      <4> HIDE DEF t
      <4> QED BY <1>1, <1>2, <1>3, <3>2
    <3> QED
      BY <3>2, <3>3
  <2> QED
    BY <2>1, <2>2
<1>5. ASSUME NEW p \in DOMAIN u, NEW q \in DOMAIN u, p # q
      PROVE  \E i, k \in 1..m + 1 : \E j \in DOMAIN ss[i], l \in DOMAIN ss[k] :
               u[p] = ss[i][j] /\ u[q] = ss[k][l] /\ (i # k \/ j # l)
  <2>1. \A r \in DOMAIN u : r > Len(s) =>
          r - Len(s) \in DOMAIN ss[m + 1] /\ u[r] = ss[m + 1][r - Len(s)]
    <3> HIDE DEF t
    <3>1. \A r \in DOMAIN u : r > Len(s) => r - Len(s) \in DOMAIN t /\ u[r] = t[r - Len(s)]
      BY <1>1, <1>2, <1>3
    <3> QED
      BY <3>1 DEF t
  <2>2. \A r \in DOMAIN u : r <= Len(s) => r \in DOMAIN s /\ u[r] = s[r]
    <3> HIDE DEF t
    <3> QED BY <1>1, <1>2, <1>3
  <2>3. \A r \in DOMAIN s : \E i \in 1..m : \E j \in DOMAIN ss[i] : s[r] = ss[i][j]
    BY DEF Flattens
  <2>4. p \in Int /\ q \in Int
    BY <1>3
  <2>5. CASE p <= Len(s) /\ q <= Len(s)
    <3>1. p \in DOMAIN s /\ q \in DOMAIN s /\ u[p] = s[p] /\ u[q] = s[q]
      BY <2>2, <2>5
    <3>2. PICK i, k \in 1..m : \E j \in DOMAIN ss[i], l \in DOMAIN ss[k] :
             s[p] = ss[i][j] /\ s[q] = ss[k][l] /\ (i # k \/ j # l)
      BY <3>1, <1>5 DEF Flattens
    <3>3. PICK j \in DOMAIN ss[i], l \in DOMAIN ss[k] :
             u[p] = ss[i][j] /\ u[q] = ss[k][l] /\ (i # k \/ j # l)
      BY <3>1, <3>2
    <3>4. i \in 1..m + 1 /\ k \in 1..m + 1
      OBVIOUS
    <3> QED
      BY <3>3, <3>4, Zenon
  <2>6. CASE p > Len(s) /\ q > Len(s)
    <3>1. p - Len(s) # q - Len(s)
      BY <1>1, <1>5, <2>4
    <3>2. m + 1 \in 1..m + 1
      OBVIOUS
    <3> QED
      BY <2>1, <2>6, <3>1, <3>2
  <2>7. CASE p <= Len(s) /\ q > Len(s)
    <3>1. PICK i \in 1..m : \E j \in DOMAIN ss[i] : u[p] = ss[i][j]
      BY <2>2, <2>3, <2>7
    <3>2. i # m + 1 /\ i \in 1..m + 1 /\ m + 1 \in 1..m + 1
      OBVIOUS
    <3> QED
      BY <2>1, <2>7, <3>1, <3>2
  <2>8. CASE p > Len(s) /\ q <= Len(s)
    <3>1. PICK i \in 1..m : \E j \in DOMAIN ss[i] : u[q] = ss[i][j]
      BY <2>2, <2>3, <2>8
    <3>2. i # m + 1 /\ i \in 1..m + 1 /\ m + 1 \in 1..m + 1
      OBVIOUS
    <3> QED
      BY <2>1, <2>8, <3>1, <3>2
  <2> QED
    BY <1>1, <2>4, <2>5, <2>6, <2>7, <2>8
<1>6. \A p \in DOMAIN u : \E i \in 1..m + 1 : \E j \in DOMAIN ss[i] : u[p] = ss[i][j]
  <2> TAKE p \in DOMAIN u
  <2>1. CASE p <= Len(s)
    <3>1. p \in DOMAIN s /\ u[p] = s[p]
      <4> HIDE DEF t
      <4> QED BY <1>1, <1>2, <1>3, <2>1
    <3>2. PICK i \in 1..m : \E j \in DOMAIN ss[i] : s[p] = ss[i][j]
      BY <3>1 DEF Flattens
    <3>3. i \in 1..m + 1
      OBVIOUS
    <3> QED
      BY <3>1, <3>2, <3>3
  <2>2. CASE p > Len(s)
    <3>1. p - Len(s) \in DOMAIN t /\ u[p] = t[p - Len(s)]
      <4> HIDE DEF t
      <4> QED BY <1>1, <1>2, <1>3, <2>2
    <3> QED
      BY <3>1
  <2> QED
    BY <1>1, <1>3, <2>1, <2>2
<1> QED
  BY <1>2, <1>4, <1>5, <1>6 DEF Flattens, u

\* What FlattenSeq answers for a non-empty sequence of sequences.
LEMMA FlattenSeqFlattens ==
  ASSUME NEW S, NEW n \in Nat \ {0}, NEW ss \in [1..n -> Seq(S)]
  PROVE  FlattenSeq(ss) \in Seq(S) /\ Flattens(FlattenSeq(ss), ss, n)
<1> DEFINE f == CHOOSE g : Concatenates(g, ss, n)
<1>1. Concatenates(f, ss, n)
  BY ConcatenationExists
<1>2. Len(ss) = n
  OBVIOUS
<1>3. FlattenSeq(ss) = f[n]
  BY <1>2 DEF FlattenSeq, Concatenates
<1> HIDE DEF f
<1>4. \A i \in 1..n : f[i] = IF i = 1 THEN ss[i] ELSE f[i - 1] \o ss[i]
  BY <1>1 DEF Concatenates
<1> DEFINE Good == {k \in Nat : k + 1 \in 1..n => f[k + 1] \in Seq(S) /\ Flattens(f[k + 1], ss, k + 1)}
<1>5. 0 \in Good
  <2>1. f[1] = ss[1] /\ ss[1] \in Seq(S)
    BY <1>1 DEF Concatenates
  <2>2. Flattens(ss[1], ss, 1)
    BY DEF Flattens
  <2> QED
    BY <2>1, <2>2
<1>6. ASSUME NEW k \in Nat, k \in Good
      PROVE  k + 1 \in Good
  <2>1. SUFFICES ASSUME k + 2 \in 1..n
                 PROVE  f[k + 2] \in Seq(S) /\ Flattens(f[k + 2], ss, k + 2)
    BY SMT
  <2>2. k + 1 \in 1..n - 1 /\ f[k + 2] = f[k + 1] \o ss[k + 2]
    <3>1. k + 1 \in 1..n - 1 /\ k + 2 # 1 /\ (k + 2) - 1 = k + 1
      BY <2>1
    <3>2. f[k + 2] = IF k + 2 = 1 THEN ss[k + 2] ELSE f[(k + 2) - 1] \o ss[k + 2]
      BY <1>4, <2>1
    <3> QED
      BY <3>1, <3>2
  <2>3. f[k + 1] \in Seq(S) /\ Flattens(f[k + 1], ss, k + 1)
    BY <1>6, <2>2
  <2>4. (k + 1) + 1 = k + 2
    OBVIOUS
  <2>5. f[k + 1] \o ss[(k + 1) + 1] \in Seq(S) /\ Flattens(f[k + 1] \o ss[(k + 1) + 1], ss, (k + 1) + 1)
    BY <2>2, <2>3, OneMore
  <2> QED
    BY <2>2, <2>4, <2>5
<1> HIDE DEF Good
<1>7. n - 1 \in Good
  <2>1. n - 1 \in Nat
    OBVIOUS
  <2> QED
    BY <1>5, <1>6, <2>1, SetInduction
<1> QED
  BY <1>3, <1>7 DEF Good

\* The places of s that do not come after i in the order of blocks.sort.
NotAfter(s, i) == {j \in DOMAIN s : \/ NumberOf(s[j]) < NumberOf(s[i])
                                    \/ NumberOf(s[j]) = NumberOf(s[i]) /\ j <= i}

\* The ranks of the n places of s are 1 to n: blocks.sort is a permutation.
LEMMA RanksArePlaces ==
  ASSUME NEW s \in Seq(Blocks \cup AhBlocks)
  PROVE  /\ \A i \in DOMAIN s : Cardinality(NotAfter(s, i)) \in DOMAIN s
         /\ \A i, j \in DOMAIN s :
              i # j => Cardinality(NotAfter(s, i)) # Cardinality(NotAfter(s, j))
         /\ \A i, j \in DOMAIN s :
              Cardinality(NotAfter(s, i)) < Cardinality(NotAfter(s, j))
                => NumberOf(s[i]) <= NumberOf(s[j])
         /\ \A k \in DOMAIN s : \E i \in DOMAIN s : Cardinality(NotAfter(s, i)) = k
<1> DEFINE n == Len(s)
           r == [i \in 1..n |-> Cardinality(NotAfter(s, i))]
<1>1. DOMAIN s = 1..n /\ n \in Nat
  OBVIOUS
<1>2. \A i \in 1..n : NumberOf(s[i]) \in Nat
  BY <1>1, AhAssumption, ChainAssumption DEF NumberOf
<1>3. IsFiniteSet(1..n) /\ Cardinality(1..n) = n
  BY <1>1, FS_Interval
<1>4. ASSUME NEW i \in 1..n
      PROVE  /\ IsFiniteSet(NotAfter(s, i))
             /\ Cardinality(NotAfter(s, i)) \in 1..n
             /\ i \in NotAfter(s, i)
  <2>1. i \in NotAfter(s, i) /\ NotAfter(s, i) \in SUBSET (1..n)
    BY <1>1, <1>2 DEF NotAfter
  <2>2. /\ IsFiniteSet(NotAfter(s, i))
        /\ Cardinality(NotAfter(s, i)) <= n
        /\ Cardinality(NotAfter(s, i)) \in Nat
        /\ Cardinality(NotAfter(s, i)) # 0
    BY <1>3, <2>1, FS_Subset, FS_CardinalityType, FS_EmptySet
  <2> QED
    BY <1>1, <2>1, <2>2
<1>5. \A i, j \in 1..n :
        \/ NumberOf(s[i]) < NumberOf(s[j])
        \/ NumberOf(s[i]) = NumberOf(s[j]) /\ i < j
        => Cardinality(NotAfter(s, i)) < Cardinality(NotAfter(s, j))
  <2> SUFFICES ASSUME NEW i \in 1..n, NEW j \in 1..n,
                      \/ NumberOf(s[i]) < NumberOf(s[j])
                      \/ NumberOf(s[i]) = NumberOf(s[j]) /\ i < j
               PROVE  Cardinality(NotAfter(s, i)) < Cardinality(NotAfter(s, j))
    OBVIOUS
  <2>1. NotAfter(s, i) \subseteq NotAfter(s, j) /\ j \notin NotAfter(s, i)
    BY <1>1, <1>2 DEF NotAfter
  <2>2. NotAfter(s, i) # NotAfter(s, j)
    BY <2>1, <1>4
  <2>3. /\ Cardinality(NotAfter(s, i)) <= Cardinality(NotAfter(s, j))
        /\ Cardinality(NotAfter(s, i)) # Cardinality(NotAfter(s, j))
    BY <1>4, <2>1, <2>2, FS_Subset
  <2> QED
    BY <1>4, <2>3
<1>6. \A i, j \in 1..n : i # j => Cardinality(NotAfter(s, i)) # Cardinality(NotAfter(s, j))
  <2> SUFFICES ASSUME NEW i \in 1..n, NEW j \in 1..n, i # j
               PROVE  Cardinality(NotAfter(s, i)) # Cardinality(NotAfter(s, j))
    OBVIOUS
  <2>1. \/ NumberOf(s[i]) < NumberOf(s[j])
        \/ NumberOf(s[i]) = NumberOf(s[j]) /\ i < j
        \/ NumberOf(s[j]) < NumberOf(s[i])
        \/ NumberOf(s[j]) = NumberOf(s[i]) /\ j < i
    BY <1>1, <1>2
  <2>2. \/ Cardinality(NotAfter(s, i)) < Cardinality(NotAfter(s, j))
        \/ Cardinality(NotAfter(s, j)) < Cardinality(NotAfter(s, i))
    BY <1>5, <2>1
  <2> QED
    BY <1>1, <1>4, <2>2
<1>7. \A i, j \in 1..n :
        Cardinality(NotAfter(s, i)) < Cardinality(NotAfter(s, j))
          => NumberOf(s[i]) <= NumberOf(s[j])
  <2> SUFFICES ASSUME NEW i \in 1..n, NEW j \in 1..n, NumberOf(s[j]) < NumberOf(s[i])
               PROVE  ~(Cardinality(NotAfter(s, i)) < Cardinality(NotAfter(s, j)))
    BY <1>2
  <2>1. Cardinality(NotAfter(s, j)) < Cardinality(NotAfter(s, i))
    BY <1>5
  <2> QED
    BY <1>1, <1>4, <2>1
<1>8. r \in Injection(1..n, 1..n)
  BY <1>4, <1>6 DEF Injection, IsInjective
<1>9. r \in Surjection(1..n, 1..n)
  <2> HIDE DEF n, r
  <2> QED
    BY <1>3, <1>8, FS_Injection
<1>10. \A k \in 1..n : \E i \in 1..n : Cardinality(NotAfter(s, i)) = k
  BY <1>9 DEF Surjection
<1> QED
  BY <1>1, <1>4, <1>6, <1>7, <1>10

\* The sort keeps every entry, as often as it was there, and orders them.
LEMMA SortOrders ==
  ASSUME NEW s \in Seq(Blocks \cup AhBlocks)
  PROVE  /\ DOMAIN Sorted(s) = DOMAIN s
         /\ \A i \in DOMAIN s : \E k \in DOMAIN s : Sorted(s)[k] = s[i]
         /\ \A j, k \in DOMAIN s : j # k =>
              \E p, q \in DOMAIN s : p # q /\ Sorted(s)[j] = s[p] /\ Sorted(s)[k] = s[q]
         /\ \A j, k \in DOMAIN s : j < k =>
              NumberOf(Sorted(s)[j]) <= NumberOf(Sorted(s)[k])
<1> DEFINE rank(i) == Cardinality(NotAfter(s, i))
           at(k) == CHOOSE i \in DOMAIN s : rank(i) = k
<1>1. Sorted(s) = [k \in DOMAIN s |-> s[at(k)]]
  BY DEF Sorted, NotAfter
<1>2. \A k \in DOMAIN s : at(k) \in DOMAIN s /\ rank(at(k)) = k
  BY RanksArePlaces
<1>3. \A i \in DOMAIN s : rank(i) \in DOMAIN s /\ at(rank(i)) = i
  <2> TAKE i \in DOMAIN s
  <2>1. rank(i) \in DOMAIN s
    BY RanksArePlaces
  <2>2. at(rank(i)) \in DOMAIN s /\ rank(at(rank(i))) = rank(i)
    BY <1>2, <2>1
  <2> QED
    BY <2>1, <2>2, RanksArePlaces
<1>4. \A j, k \in DOMAIN s : j < k => NumberOf(s[at(j)]) <= NumberOf(s[at(k)])
  BY <1>2, RanksArePlaces
<1> HIDE DEF at, rank
<1>5. \A k \in DOMAIN s : Sorted(s)[k] = s[at(k)]
  BY <1>1
<1>6. \A j, k \in DOMAIN s : j # k => at(j) # at(k)
  BY <1>2
<1> QED
  BY <1>1, <1>2, <1>3, <1>4, <1>5, <1>6

\* The sort leaves blocks of ascending numbers where they are.
LEMMA AscendingStays ==
  ASSUME NEW s \in Seq(Blocks),
         \A i, j \in DOMAIN s : i < j => Height[s[i]] < Height[s[j]]
  PROVE  Sorted(s) = s
<1> DEFINE rank(i) == Cardinality({j \in DOMAIN s :
                         \/ NumberOf(s[j]) < NumberOf(s[i])
                         \/ NumberOf(s[j]) = NumberOf(s[i]) /\ j <= i})
<1>1. DOMAIN s = 1..Len(s) /\ Len(s) \in Nat
  OBVIOUS
<1>2. \A i \in DOMAIN s : NumberOf(s[i]) = Height[s[i]] /\ Height[s[i]] \in Nat
  BY <1>1, AhAssumption, ChainAssumption DEF NumberOf
<1>3. ASSUME NEW i \in DOMAIN s
      PROVE  rank(i) = i
  <2>1. {j \in DOMAIN s : \/ NumberOf(s[j]) < NumberOf(s[i])
                          \/ NumberOf(s[j]) = NumberOf(s[i]) /\ j <= i} = 1..i
    <3>1. \A j \in DOMAIN s : j < i => Height[s[j]] < Height[s[i]]
      OBVIOUS
    <3>2. \A j \in DOMAIN s : i < j => Height[s[i]] < Height[s[j]]
      OBVIOUS
    <3> HIDE DEF rank
    <3> QED
      BY <1>1, <1>2, <3>1, <3>2
  <2>2. Cardinality(1..i) = i
    BY <1>1, FS_Interval
  <2> QED
    BY <2>1, <2>2
<1>4. Sorted(s) = [k \in DOMAIN s |-> s[CHOOSE i \in DOMAIN s : rank(i) = k]]
  BY DEF Sorted
<1> HIDE DEF rank
<1>5. \A k \in DOMAIN s : (CHOOSE i \in DOMAIN s : rank(i) = k) = k
  BY <1>3
<1>6. Sorted(s) = [k \in DOMAIN s |-> s[k]]
  BY <1>4, <1>5
<1> QED
  BY <1>1, <1>6

LEMMA InitEstablishes == Init => IInv
<1> SUFFICES ASSUME Init PROVE IInv
  OBVIOUS
<1> USE DEF Init, NodeInit
<1>1. (CHOOSE q \in Queries : TRUE) \in Queries
  BY QueriesAssumption
<1>2. Typed
  BY <1>1, ChainAssumption DEF Typed, NodeTypeOK, Pool!Status
<1>3. Resolved
  BY ChainAssumption DEF Resolved, IsFinal
<1> QED
  BY <1>2, <1>3 DEF IInv, Asked, Phases, Tagged, Sent, InfoRight

\* The node's steps take no finality back and leave the request alone.
LEMMA NodePreserves ==
  ASSUME IInv, Node
  PROVE  IInv'
<1>1. NodeTypeOK' /\ \A b : IsFinal(b) => IsFinal(b)'
  BY NodeKeeps DEF IInv, Typed, Node
<1>2. Typed' /\ Asked' /\ Phases' /\ Tagged'
  BY <1>1 DEF IInv, Node, requestVars, Typed, Asked, Phases, InRange, AllFulfilled, Tagged
<1>3. Resolved'
  BY <1>1 DEF IInv, Node, requestVars, Resolved, ResolvedRight
<1>4. Sent'
  <2>1. Flattened' = Flattened
    BY DEF Node, requestVars, Flattened
  <2>2. Sorted(Flattened)' = Sorted(Flattened')
    BY DEF Sorted, NumberOf
  <2> QED
    BY <2>1, <2>2 DEF IInv, Node, requestVars, Sent
<1>5. InfoRight'
  BY <1>1 DEF IInv, Node, requestVars, InfoRight
<1> QED
  BY <1>2, <1>3, <1>4, <1>5 DEF IInv

LEMMA ArrivePreserves ==
  ASSUME IInv, Arrive
  PROVE  IInv'
<1> USE DEF IInv
<1>1. PICK q \in Queries :
        /\ query' = q
        /\ IF RangeAccepted(q.range)
           THEN /\ pc' = "pending"
                /\ range' = RangeOfNums(q.range)
                /\ status' = Pool!Admit(range', [n \in Numbers |->
                               IF \E i \in DOMAIN range' : range'[i] = n
                               THEN "waiting" ELSE "absent"])
           ELSE pc' = "error" /\ UNCHANGED <<range, status>>
  BY DEF Arrive
<1>2. /\ pc = "idle" /\ since' = finalized
      /\ UNCHANGED <<best, finalized, stage, source, tag, blocks, info>>
      /\ \A n \in Numbers : status[n] = "absent" /\ stage[n] = "hash"
  BY DEF Arrive, Phases
<1>3. /\ status' \in [Numbers -> Pool!Status]
      /\ \A n \in Numbers : /\ status'[n] # "fulfilled"
                            /\ status'[n] # "absent" => n \in InRange'
  <2>1. CASE RangeAccepted(q.range)
    <3> DEFINE s == [n \in Numbers |-> IF \E i \in DOMAIN range' : range'[i] = n
                                      THEN "waiting" ELSE "absent"]
    <3>1. s \in [Numbers -> Pool!Status]
      BY DEF Pool!Status
    <3>2. status' = Pool!Admit(range', s)
      BY <1>1, <2>1
    <3>3. \A n \in Numbers : s[n] # "fulfilled" /\ (s[n] # "absent" => n \in InRange')
      BY DEF InRange
    <3> HIDE DEF s
    <3> QED
      BY <3>1, <3>2, <3>3, AdmitKeeps
  <2>2. CASE ~RangeAccepted(q.range)
    BY <1>1, <1>2, <2>2 DEF Typed, Phases, InRange
  <2> QED
    BY <2>1, <2>2
<1>4. Typed'
  BY <1>1, <1>2, <1>3 DEF Typed, NodeTypeOK
<1>5. Asked' /\ Phases' /\ Tagged' /\ Sent' /\ InfoRight'
  BY <1>1, <1>2, <1>3 DEF Asked, Phases, Tagged, Sent, InfoRight
<1>6. Resolved'
  <2>1. IsFinal(finalized)
    BY FinalIsCanonical, ChainAssumption DEF Typed, IsFinal
  <2> QED
    BY <1>2, <1>3, <2>1 DEF Resolved, IsFinal
<1> QED
  BY <1>4, <1>5, <1>6

\* What every step of a task shares: no other task but waiting ones that are
\* admitted, and nothing once the answer is on its way.
LEMMA SettleKeeps ==
  ASSUME IInv, NEW n \in Numbers, status[n] = "admitted", NEW o \in {"fulfilled", "rejected"},
         Settle(n, o)
  PROVE  /\ status' \in [Numbers -> Pool!Status]
         /\ status'[n] = o
         /\ \A m \in Numbers \ {n} : /\ status'[m] = "fulfilled" => status[m] = "fulfilled"
                                     /\ status'[m] = "absent" <=> status[m] = "absent"
<1> DEFINE s == [status EXCEPT ![n] = o]
<1>1. s \in [Numbers -> Pool!Status] /\ status' = Pool!Admit(range, s) /\ s[n] = o
  BY DEF IInv, Typed, Settle, Pool!Status, Pool!Outcome
<1>2. \A m \in Numbers \ {n} : s[m] = status[m]
  BY DEF IInv, Typed
<1> HIDE DEF s
<1> QED
  BY <1>1, <1>2, AdmitKeeps

\* A task runs only while the answer is not on its way.
LEMMA TaskIsEarly ==
  ASSUME IInv, NEW n \in Numbers, status[n] = "admitted"
  PROVE  pc \notin {"idle", "info", "ok"} /\ n \in InRange
BY DEF IInv, Phases, AllFulfilled

\* The block a number is resolved to now.
LEMMA HashIsRight ==
  ASSUME IInv, NEW n \in Numbers, KnowsNumber(n)
  PROVE  /\ GetBlockHash(n) \in Blocks /\ Height[GetBlockHash(n)] = n
         /\ n <= Height[since] => IsFinal(GetBlockHash(n))
<1>1. n \in Nat /\ NodeTypeOK /\ best \in Blocks /\ IsFinal(since)
  BY NumbersAssumption DEF IInv, Typed, NodeTypeOK, Resolved
<1>2. GetBlockHash(n) \in Chain[best] /\ Height[GetBlockHash(n)] = n
  BY <1>1, BlockAtHeight DEF KnowsNumber, GetBlockHash
<1> QED
  BY <1>1, <1>2, ChainsNest, CanonicalBelowFinal

LEMMA ResolvePreserves ==
  ASSUME IInv, NEW n \in Numbers, Resolve(n)
  PROVE  IInv'
<1> USE DEF IInv
<1>1. /\ status[n] = "admitted" /\ stage[n] = "hash" /\ KnowsNumber(n)
      /\ source' = [source EXCEPT ![n] = GetBlockHash(n)]
      /\ UNCHANGED <<best, finalized, pc, query, range, tag, blocks, info, since>>
  BY DEF Resolve
<1>2. /\ GetBlockHash(n) \in Blocks /\ Height[GetBlockHash(n)] = n
      /\ n <= Height[since] => IsFinal(GetBlockHash(n))
  BY <1>1, HashIsRight
<1>3. pc \notin {"idle", "info", "ok"} /\ n \in InRange
  BY <1>1, TaskIsEarly
<1>4. /\ status' \in [Numbers -> Pool!Status] /\ status'[n] # "absent"
      /\ status'[n] = "fulfilled" => query.useRc
      /\ \A m \in Numbers \ {n} : /\ status'[m] = "fulfilled" => status[m] = "fulfilled"
                                  /\ status'[m] = "absent" <=> status[m] = "absent"
      /\ stage' \in [Numbers -> {"hash", "label", "build"}]
      /\ stage'[n] = "label" => query.useRc
      /\ \A m \in Numbers \ {n} : stage'[m] = stage[m]
  <2>1. CASE query.useRc /\ Included[GetBlockHash(n)] = <<>>
    BY <1>1, <2>1, SettleKeeps DEF Resolve, Typed
  <2>2. CASE ~(query.useRc /\ Included[GetBlockHash(n)] = <<>>)
    BY <1>1, <2>2 DEF Resolve, Typed
  <2> QED
    BY <2>1, <2>2
<1>5. Typed'
  BY <1>1, <1>2, <1>4 DEF Typed, NodeTypeOK
<1>6. Resolved'
  <2>1. ResolvedRight(n)'
    BY <1>1, <1>2 DEF ResolvedRight, IsFinal, Typed
  <2>2. \A m \in Numbers \ {n} : ResolvedRight(m) => ResolvedRight(m)'
    BY <1>1 DEF ResolvedRight, IsFinal, Typed
  <2> QED
    BY <1>1, <1>4, <2>1, <2>2 DEF Resolved, IsFinal
<1>7. Asked' /\ Phases' /\ Tagged' /\ Sent' /\ InfoRight'
  BY <1>1, <1>3, <1>4 DEF Asked, Phases, InRange, Tagged, Sent, InfoRight
<1> QED
  BY <1>5, <1>6, <1>7

LEMMA LabelPreserves ==
  ASSUME IInv, NEW n \in Numbers, Label(n)
  PROVE  IInv'
<1> USE DEF IInv
<1>1. /\ status[n] = "admitted" /\ stage[n] = "label"
      /\ stage' = [stage EXCEPT ![n] = "build"]
      /\ UNCHANGED <<best, finalized, pc, query, range, status, source, tag, blocks, info, since>>
  BY DEF Label
<1>2. pc \notin {"idle", "info", "ok"} /\ query.useRc
  BY <1>1, TaskIsEarly DEF Tagged
<1>3. Typed'
  BY <1>1 DEF Typed, NodeTypeOK
<1>4. \A m \in Numbers : stage'[m] # "hash" => stage[m] # "hash"
  BY <1>1 DEF Typed
<1>5. Resolved'
  BY <1>1, <1>4 DEF Resolved, ResolvedRight, IsFinal
<1> QED
  BY <1>1, <1>2, <1>3, <1>5 DEF Asked, Phases, InRange, Tagged, Sent, InfoRight

LEMMA BuildPreserves ==
  ASSUME IInv, NEW n \in Numbers, Build(n)
  PROVE  IInv'
<1> USE DEF IInv
<1>1. /\ status[n] = "admitted" /\ stage[n] = "build"
      /\ tag' = [tag EXCEPT ![n] = IF query.useRc THEN "absent" ELSE TagOf(n)]
      /\ Settle(n, "fulfilled")
      /\ UNCHANGED <<best, finalized, pc, query, range, stage, source, blocks, info, since>>
  BY DEF Build
<1>2. pc \notin {"idle", "info", "ok"} /\ n \in InRange
  BY <1>1, TaskIsEarly
<1>3. /\ status' \in [Numbers -> Pool!Status] /\ status'[n] = "fulfilled"
      /\ \A m \in Numbers \ {n} : /\ status'[m] = "fulfilled" => status[m] = "fulfilled"
                                  /\ status'[m] = "absent" <=> status[m] = "absent"
  BY <1>1, SettleKeeps
<1>4. n <= Height[since] => TagOf(n) = "true"
  <2>1. since \in Chain[finalized] /\ finalized \in Blocks /\ n \in Nat
    BY FinalIsCanonical, NumbersAssumption DEF Resolved, IsFinal, Typed
  <2>2. Height[since] <= Height[finalized] /\ Height[since] \in Nat /\ Height[finalized] \in Nat
    BY <2>1, TipIsHighest, ChainsNest, ChainAssumption
  <2> QED
    BY <2>1, <2>2 DEF TagOf
<1>5. TagOf(n) \in {"true", "false"}
  BY DEF TagOf
<1>6. Typed'
  BY <1>1, <1>3, <1>5 DEF Typed, NodeTypeOK
<1>7. Resolved'
  BY <1>1, <1>3 DEF Resolved, ResolvedRight, IsFinal
<1>8. Tagged'
  BY <1>1, <1>3, <1>4 DEF Tagged, Typed
<1> QED
  BY <1>1, <1>2, <1>3, <1>6, <1>7, <1>8 DEF Asked, Phases, InRange, Sent, InfoRight

LEMMA RejectPreserves ==
  ASSUME IInv, NEW n \in Numbers, Reject(n)
  PROVE  IInv'
<1> USE DEF IInv
<1>1. /\ status[n] = "admitted" /\ Settle(n, "rejected")
      /\ UNCHANGED <<best, finalized, pc, query, range, stage, source, tag, blocks, info, since>>
  BY DEF Reject
<1>2. pc \notin {"idle", "info", "ok"} /\ n \in InRange
  BY <1>1, TaskIsEarly
<1>3. /\ status' \in [Numbers -> Pool!Status] /\ status'[n] = "rejected"
      /\ \A m \in Numbers \ {n} : /\ status'[m] = "fulfilled" => status[m] = "fulfilled"
                                  /\ status'[m] = "absent" <=> status[m] = "absent"
  BY <1>1, SettleKeeps
<1>4. Typed'
  BY <1>1, <1>3 DEF Typed, NodeTypeOK
<1>5. Resolved'
  BY <1>1, <1>3 DEF Resolved, ResolvedRight, IsFinal
<1> QED
  BY <1>1, <1>2, <1>3, <1>4, <1>5 DEF Asked, Phases, InRange, Tagged, Sent, InfoRight

\* Without useRcBlock the blocks of an answer are those of the tasks, in the
\* order of their numbers, and the sort leaves them so.
LEMMA AnswerInOrder ==
  ASSUME IInv, pc \in {"pending", "info", "ok"}, AllFulfilled, ~query.useRc
  PROVE  /\ Len(range) = query.range[2] - query.range[1] + 1
         /\ DOMAIN range = 1..Len(range) /\ Len(range) \in Nat
         /\ query.range[1] \in Nat
         /\ \A k \in DOMAIN range : /\ range[k] = query.range[1] + k - 1
                                    /\ range[k] \in Numbers /\ ResolvedRight(range[k])
                                    /\ status[range[k]] = "fulfilled"
         /\ Flattened \in Seq(Blocks) /\ Len(Flattened) = Len(range)
         /\ \A k \in DOMAIN range : Flattened[k] = source[range[k]]
         /\ Sorted(Flattened) = Flattened
<1> USE DEF IInv
<1>1. /\ query \in Queries /\ RangeAccepted(query.range) /\ range = RangeOfNums(query.range)
  BY DEF Typed, Asked
<1>2. /\ query.range[1] \in Nat /\ query.range[2] \in Nat /\ query.range[1] < query.range[2]
      /\ DOMAIN range = 1..Len(range) /\ Len(range) \in Nat
      /\ Len(range) = query.range[2] - query.range[1] + 1
      /\ \A k \in DOMAIN range : range[k] = query.range[1] + k - 1 /\ range[k] \in Numbers
  BY <1>1, RangeRight
<1>3. \A k \in DOMAIN range : status[range[k]] = "fulfilled" /\ ResolvedRight(range[k])
  BY <1>2 DEF AllFulfilled, InRange, Resolved
<1>4. Flattened = [k \in 1..Len(range) |-> source[range[k]]]
  BY <1>2 DEF Flattened
<1>5. \A k \in 1..Len(range) : source[range[k]] \in Blocks
  BY <1>2, <1>3 DEF ResolvedRight
<1>6. /\ Flattened \in Seq(Blocks) /\ Len(Flattened) = Len(range)
      /\ \A k \in DOMAIN range : Flattened[k] = source[range[k]]
  <2> DEFINE n == Len(range)
  <2>1. n \in Nat /\ Flattened \in [1..n -> Blocks]
    BY <1>2, <1>4, <1>5
  <2> HIDE DEF n
  <2>2. Flattened \in Seq(Blocks) /\ Len(Flattened) = n
    BY <2>1
  <2> QED
    BY <1>2, <1>4, <2>2 DEF n
<1>7. \A i, j \in DOMAIN Flattened : i < j => Height[Flattened[i]] < Height[Flattened[j]]
  <2>1. \A k \in DOMAIN range : Height[Flattened[k]] = query.range[1] + k - 1
    BY <1>2, <1>3, <1>6 DEF ResolvedRight
  <2>2. DOMAIN Flattened = DOMAIN range
    BY <1>2, <1>6
  <2> QED
    BY <1>2, <2>1, <2>2
<1>8. Sorted(Flattened) = Flattened
  BY <1>6, <1>7, AscendingStays
<1> QED
  BY <1>2, <1>3, <1>6, <1>8

LEMMA HandlerPreserves ==
  ASSUME IInv, Handler
  PROVE  IInv'
<1> USE DEF IInv
<1>1. UNCHANGED <<best, finalized, query, range, status, stage, source, tag, since>>
  BY DEF Handler, Respond, RespondError, ReadInfo
<1>2. /\ pc \in {"pending", "info"} /\ pc' \in {"info", "ok", "error"}
      /\ pc' \in {"info", "ok"} => AllFulfilled
      /\ pc' = "info" => query.useRc
  BY DEF Handler, Respond, RespondError, ReadInfo, Phases
<1>3. Typed'
  BY <1>1, <1>2 DEF Typed, NodeTypeOK
<1>4. Asked' /\ Resolved' /\ Tagged' /\ Phases'
  BY <1>1, <1>2 DEF Asked, Resolved, ResolvedRight, IsFinal, Tagged, Phases, InRange, AllFulfilled
<1>5. Flattened' = Flattened
  BY <1>1 DEF Flattened
<1>6. Sent'
  <2>1. Sorted(Flattened)' = Sorted(Flattened')
    BY DEF Sorted, NumberOf
  <2>2. CASE Respond
    BY <1>5, <2>1, <2>2 DEF Respond, Sent
  <2>3. CASE RespondError
    BY <2>3 DEF RespondError, Sent
  <2>4. CASE ReadInfo
    BY <1>5, <2>1, <2>4 DEF ReadInfo, Sent
  <2> QED
    BY <2>2, <2>3, <2>4 DEF Handler
<1>7. InfoRight'
  <2>1. CASE info' = None
    BY <2>1, <1>2, NoneAssumption DEF InfoRight, Handler, Respond, RespondError, ReadInfo
  <2>2. CASE info' # None
    <3>1. ReadInfo /\ KnowsNumber(range[1]) /\ info' = GetBlockHash(range[1]) /\ pc' = "ok"
      BY <1>2, <2>2 DEF Handler, Respond, RespondError, ReadInfo, InfoRight
    <3>2. range[1] \in Numbers
      <4>1. 1 \in 1..(query.range[2] - query.range[1] + 1)
        BY <1>2, RangeRight DEF Typed, Asked
      <4> QED
        BY <1>2, <4>1, RangeRight DEF Typed, Asked
    <3>3. /\ GetBlockHash(range[1]) \in Blocks /\ Height[GetBlockHash(range[1])] = range[1]
          /\ range[1] <= Height[since] => IsFinal(GetBlockHash(range[1]))
      BY <3>1, <3>2, HashIsRight
    <3> QED
      BY <1>1, <3>1, <3>3 DEF InfoRight, IsFinal
  <2> QED
    BY <2>1, <2>2
<1> QED
  BY <1>3, <1>4, <1>6, <1>7

LEMMA StepPreserves == IInv /\ [Next]_vars => IInv'
<1> SUFFICES ASSUME IInv, [Next]_vars PROVE IInv'
  OBVIOUS
<1>1. CASE Node
  BY <1>1, NodePreserves
<1>2. CASE Arrive
  BY <1>2, ArrivePreserves
<1>3. CASE Handler
  BY <1>3, HandlerPreserves
<1>4. ASSUME NEW n \in Numbers, Task(n) PROVE IInv'
  BY <1>4, ResolvePreserves, LabelPreserves, BuildPreserves, RejectPreserves DEF Task
<1>5. CASE UNCHANGED vars
  <2>1. Typed' /\ Asked' /\ Resolved'
    BY <1>5 DEF IInv, vars, requestVars, Typed, NodeTypeOK, Asked, Resolved, ResolvedRight, IsFinal
  <2>2. Phases' /\ Tagged'
    BY <1>5 DEF IInv, vars, requestVars, Phases, InRange, AllFulfilled, Tagged
  <2>3. Sent' /\ InfoRight'
    <3>1. Flattened' = Flattened
      BY <1>5 DEF vars, requestVars, Flattened
    <3>2. Sorted(Flattened)' = Sorted(Flattened')
      BY DEF Sorted, NumberOf
    <3>3. Sent'
      BY <1>5, <3>1, <3>2 DEF IInv, vars, requestVars, Sent
    <3> QED
      BY <1>5, <3>3 DEF IInv, vars, requestVars, InfoRight, IsFinal
  <2> QED
    BY <2>1, <2>2, <2>3 DEF IInv
<1> QED
  BY <1>1, <1>2, <1>3, <1>4, <1>5 DEF Next

\* The inductive invariant: what each number was resolved to, and what the
\* answer is made of.
THEOREM RangeInvariant == Spec => []IInv
BY InitEstablishes, StepPreserves, PTL DEF Spec

\* With useRcBlock the answer is made of the arrays of the tasks, each of them
\* found in a block of its number.
LEMMA AnswerOfArrays ==
  ASSUME IInv, pc \in {"info", "ok"}, query.useRc,
         NEW n, n = Len(range),
         NEW ss, ss = [i \in DOMAIN range |-> Included[source[range[i]]]]
  PROVE  /\ n \in Nat \ {0} /\ DOMAIN range = 1..n
         /\ \A i \in 1..n : /\ range[i] = query.range[1] + i - 1
                            /\ range[i] \in Numbers /\ ResolvedRight(range[i])
         /\ query.range[1] \in Nat
         /\ Flattened \in Seq(AhBlocks) /\ Flattens(Flattened, ss, n)
         /\ blocks = Sorted(Flattened)
<1>1. query \in Queries /\ RangeAccepted(query.range) /\ range = RangeOfNums(query.range)
  BY DEF IInv, Typed, Asked
<1>2. /\ query.range[1] \in Nat /\ query.range[2] \in Nat /\ query.range[1] < query.range[2]
      /\ n = query.range[2] - query.range[1] + 1 /\ DOMAIN range = 1..n
      /\ \A i \in 1..n : range[i] = query.range[1] + i - 1 /\ range[i] \in Numbers
  BY <1>1, RangeRight
<1>3. n \in Nat \ {0}
  BY <1>2
<1>4. \A i \in 1..n : ResolvedRight(range[i])
  BY <1>2 DEF IInv, Phases, AllFulfilled, InRange, Resolved
<1>5. ss \in [1..n -> Seq(AhBlocks)]
  BY <1>2, <1>4, AhAssumption DEF ResolvedRight
<1>6. Flattened = FlattenSeq(ss)
  BY DEF Flattened
<1>7. blocks = Sorted(Flattened)
  BY DEF IInv, Sent
<1> QED
  BY <1>2, <1>3, <1>4, <1>5, <1>6, <1>7, FlattenSeqFlattens

\* The sort of Asset Hub blocks, by their numbers.
LEMMA AhSortOrders ==
  ASSUME NEW s \in Seq(AhBlocks)
  PROVE  /\ DOMAIN Sorted(s) = DOMAIN s
         /\ \A i \in DOMAIN s : \E k \in DOMAIN s : Sorted(s)[k] = s[i]
         /\ \A j, k \in DOMAIN s : j # k =>
              \E p, q \in DOMAIN s : p # q /\ Sorted(s)[j] = s[p] /\ Sorted(s)[k] = s[q]
         /\ \A j, k \in DOMAIN s : j < k => AhNumber[Sorted(s)[j]] <= AhNumber[Sorted(s)[k]]
<1>1. s \in Seq(Blocks \cup AhBlocks)
  OBVIOUS
<1>2. /\ DOMAIN Sorted(s) = DOMAIN s
      /\ \A i \in DOMAIN s : \E k \in DOMAIN s : Sorted(s)[k] = s[i]
      /\ \A j, k \in DOMAIN s : j # k =>
           \E p, q \in DOMAIN s : p # q /\ Sorted(s)[j] = s[p] /\ Sorted(s)[k] = s[q]
      /\ \A j, k \in DOMAIN s : j < k => NumberOf(Sorted(s)[j]) <= NumberOf(Sorted(s)[k])
  BY <1>1, SortOrders
<1>3. \A j, k \in DOMAIN s : j < k => Sorted(s)[j] \in AhBlocks /\ Sorted(s)[k] \in AhBlocks
  <2> SUFFICES ASSUME NEW j \in DOMAIN s, NEW k \in DOMAIN s, j # k
               PROVE  Sorted(s)[j] \in AhBlocks /\ Sorted(s)[k] \in AhBlocks
    OBVIOUS
  <2>1. PICK p, q \in DOMAIN s : Sorted(s)[j] = s[p] /\ Sorted(s)[k] = s[q]
    BY <1>2
  <2>2. s[p] \in AhBlocks /\ s[q] \in AhBlocks
    OBVIOUS
  <2> QED
    BY <2>1, <2>2
<1>4. \A j, k \in DOMAIN s : j < k => AhNumber[Sorted(s)[j]] <= AhNumber[Sorted(s)[k]]
  BY <1>2, <1>3 DEF NumberOf
<1> QED
  BY <1>2, <1>4

\* However the tasks interleave and settle, and whatever forks the node went
\* through meanwhile, a range of at most MaxRange blocks is answered with one
\* block for each number from min to max, in this order; with useRcBlock with
\* every Asset Hub block a task found, in the order of their numbers.
THEOREM RangeIsWhole == Spec => []WholeRange
<1>1. IInv => WholeRange
  <2> SUFFICES ASSUME IInv, Answered, Len(range) <= MaxRange
               PROVE  WholeRange
    BY DEF WholeRange
  <2>1. pc = "ok" /\ AllFulfilled /\ blocks = Sorted(Flattened)
    BY DEF IInv, Answered, Phases, Sent
  <2>2. CASE ~query.useRc
    <3>1. /\ Len(range) = query.range[2] - query.range[1] + 1
          /\ DOMAIN range = 1..Len(range)
          /\ \A k \in DOMAIN range : range[k] = query.range[1] + k - 1 /\ ResolvedRight(range[k])
          /\ Flattened \in Seq(Blocks) /\ Len(Flattened) = Len(range)
          /\ \A k \in DOMAIN range : Flattened[k] = source[range[k]]
          /\ blocks = Flattened
      BY <2>1, <2>2, AnswerInOrder
    <3>2. /\ Len(blocks) = query.range[2] - query.range[1] + 1
          /\ \A k \in DOMAIN blocks : Height[blocks[k]] = query.range[1] + k - 1
      BY <3>1 DEF ResolvedRight
    <3> QED
      BY <2>2, <3>2 DEF WholeRange
  <2>3. CASE query.useRc
    <3> DEFINE n == Len(range)
               ss == [i \in DOMAIN range |-> Included[source[range[i]]]]
    <3>1. /\ DOMAIN range = 1..n
          /\ Flattened \in Seq(AhBlocks) /\ Flattens(Flattened, ss, n)
      <4>1. /\ n = Len(range)
            /\ ss = [i \in DOMAIN range |-> Included[source[range[i]]]]
        OBVIOUS
      <4> HIDE DEF n, ss
      <4> QED
        BY <2>1, <2>3, <4>1, AnswerOfArrays
    <3>2. /\ DOMAIN blocks = DOMAIN Flattened
          /\ \A i \in DOMAIN Flattened : \E k \in DOMAIN blocks : blocks[k] = Flattened[i]
          /\ \A j, k \in DOMAIN blocks :
               j < k => AhNumber[blocks[j]] <= AhNumber[blocks[k]]
      BY <2>1, <3>1, AhSortOrders
    <3>3. ASSUME NEW m \in InRange, NEW i \in DOMAIN Included[source[m]]
          PROVE  \E k \in DOMAIN blocks : blocks[k] = Included[source[m]][i]
      <4>1. PICK j \in 1..n : range[j] = m
        BY <3>1 DEF InRange
      <4>2. ss[j] = Included[source[m]]
        BY <3>1, <4>1
      <4> HIDE DEF n, ss
      <4>3. PICK p \in DOMAIN Flattened : Flattened[p] = ss[j][i]
        BY <3>1, <4>2 DEF Flattens
      <4> QED
        BY <3>2, <4>2, <4>3
    <3> QED
      BY <2>3, <3>2, <3>3 DEF WholeRange
  <2> QED
    BY <2>2, <2>3
<1> QED
  BY <1>1, RangeInvariant, PTL

\* A range without useRcBlock that was final when it was asked for: final
\* blocks tagged so, each the parent of the next.
LEMMA SettledPlainChain ==
  ASSUME IInv, ~query.useRc, Answered, Settled
  PROVE  /\ \A k \in DOMAIN blocks : IsFinal(blocks[k]) /\ tag[range[k]] = "true"
         /\ \A k \in 2..Len(blocks) : Parent(blocks[k]) = blocks[k - 1]
<1>1. pc = "ok" /\ AllFulfilled /\ blocks = Flattened /\ NodeTypeOK
  BY AnswerInOrder DEF IInv, Answered, Phases, Sent, Typed
<1>2. /\ DOMAIN range = 1..Len(range) /\ query.range[1] \in Nat
      /\ \A k \in DOMAIN range : /\ range[k] = query.range[1] + k - 1
                                 /\ range[k] \in Numbers /\ ResolvedRight(range[k])
                                 /\ status[range[k]] = "fulfilled"
      /\ Flattened \in Seq(Blocks) /\ Len(Flattened) = Len(range) /\ Len(range) \in Nat
      /\ \A k \in DOMAIN range : Flattened[k] = source[range[k]]
  BY <1>1, AnswerInOrder
<1>3. \A k \in DOMAIN range : range[k] <= Height[since]
  BY DEF Settled, InRange
<1>4. \A k \in DOMAIN range : /\ IsFinal(blocks[k]) /\ tag[range[k]] = "true"
                            /\ blocks[k] \in Blocks
                            /\ Height[blocks[k]] = query.range[1] + k - 1
  BY <1>1, <1>2, <1>3 DEF ResolvedRight, IInv, Tagged
<1>5. ASSUME NEW k \in 2..Len(blocks)
      PROVE  Parent(blocks[k]) = blocks[k - 1]
  <2>1. k \in DOMAIN range /\ k - 1 \in DOMAIN range /\ k \in Int
    BY <1>1, <1>2
  <2> DEFINE b == blocks[k]
             c == blocks[k - 1]
  <2>2. /\ b \in Chain[best] /\ c \in Chain[best] /\ Height[b] \in Nat
        /\ Height[c] = Height[b] - 1 /\ Height[b] # 0
    <3>1. IsFinal(b) /\ b \in Blocks /\ Height[b] = query.range[1] + k - 1
      BY <1>4, <2>1
    <3>2. IsFinal(c) /\ c \in Blocks /\ Height[c] = query.range[1] + (k - 1) - 1
      BY <1>4, <2>1
    <3>3. b \in Chain[best] /\ c \in Chain[best]
      BY <1>1, <3>1, <3>2, FinalIsCanonical
    <3>4. k >= 2
      BY <1>2
    <3> HIDE DEF b, c
    <3> QED
      BY <1>2, <2>1, <3>1, <3>2, <3>3, <3>4
  <2>3. b # Genesis
    BY <2>2, ChainAssumption
  <2>4. GetBlockHash(Height[b] - 1) = Parent(b)
    BY <1>1, <2>2, <2>3, ParentByNumber
  <2>5. GetBlockHash(Height[c]) = c
    BY <1>1, <2>2, CanonicalBlock
  <2> QED
    BY <2>2, <2>4, <2>5
<1>6. DOMAIN blocks = DOMAIN range
  BY <1>1, <1>2
<1> QED
  BY <1>4, <1>5, <1>6

\* With useRcBlock: no Asset Hub block twice, and rcBlock is the first number's.
LEMMA SettledArraysOnce ==
  ASSUME IInv, query.useRc, Answered, Settled
  PROVE  /\ \A j, k \in DOMAIN blocks : j # k => blocks[j] # blocks[k]
         /\ info \in {None, source[range[1]]}
<1> DEFINE n == Len(range)
           ss == [i \in DOMAIN range |-> Included[source[range[i]]]]
<1>1. /\ n \in Nat \ {0} /\ DOMAIN range = 1..n /\ query.range[1] \in Nat
      /\ \A i \in 1..n : range[i] = query.range[1] + i - 1 /\ range[i] \in Numbers
      /\ Flattened \in Seq(AhBlocks) /\ Flattens(Flattened, ss, n)
      /\ blocks = Sorted(Flattened) /\ NodeTypeOK /\ best \in Blocks
  BY AnswerOfArrays DEF Answered, IInv, Typed, NodeTypeOK
<1>2. \A i \in 1..n : /\ source[range[i]] \in Chain[best] /\ source[range[i]] \in Blocks
                      /\ Height[source[range[i]]] = range[i] /\ IsFinal(source[range[i]])
  <2>1. \A i \in 1..n : ResolvedRight(range[i]) /\ range[i] <= Height[since]
    BY <1>1, AnswerOfArrays DEF Answered, Settled, InRange
  <2>2. \A i \in 1..n : /\ source[range[i]] \in Blocks
                        /\ Height[source[range[i]]] = range[i] /\ IsFinal(source[range[i]])
    BY <2>1 DEF ResolvedRight
  <2> QED
    BY <1>1, <2>2, FinalIsCanonical
<1>3. ASSUME NEW j \in DOMAIN blocks, NEW k \in DOMAIN blocks, j # k
      PROVE  blocks[j] # blocks[k]
  <2>1. PICK p, q \in DOMAIN Flattened :
          p # q /\ blocks[j] = Flattened[p] /\ blocks[k] = Flattened[q]
    BY <1>1, <1>3, AhSortOrders
  <2> HIDE DEF n, ss
  <2>2. PICK h, i \in 1..n : \E u \in DOMAIN ss[h], v \in DOMAIN ss[i] :
          /\ Flattened[p] = ss[h][u] /\ Flattened[q] = ss[i][v]
          /\ h # i \/ u # v
    BY <1>1, <2>1 DEF Flattens
  <2>3. PICK u \in DOMAIN ss[h], v \in DOMAIN ss[i] :
          /\ Flattened[p] = ss[h][u] /\ Flattened[q] = ss[i][v]
          /\ h # i \/ u # v
    BY <2>2
  <2>4. ss[h] = Included[source[range[h]]] /\ ss[i] = Included[source[range[i]]]
    BY <1>1 DEF ss
  <2>5. h # i => source[range[h]] # source[range[i]]
    <3>1. h # i => range[h] # range[i]
      BY <1>1
    <3> QED
      BY <1>2, <3>1
  <2>6. ss[h][u] # ss[i][v]
    BY <1>1, <1>2, <2>3, <2>4, <2>5, IncludedOnceAssumption
  <2> QED
    BY <2>1, <2>3, <2>6
<1>4. info \in {None, source[range[1]]}
  <2>1. SUFFICES ASSUME info # None PROVE info = source[range[1]]
    OBVIOUS
  <2>2. 1 \in 1..n
    BY <1>1
  <2>3. range[1] <= Height[since]
    BY <1>1, <2>2 DEF Settled, InRange
  <2>4. info \in Chain[best] /\ Height[info] = range[1]
    BY <1>1, <2>1, <2>3, FinalIsCanonical DEF IInv, InfoRight
  <2> QED
    BY <1>1, <1>2, <2>2, <2>4, CanonicalBlock
<1> QED
  BY <1>3, <1>4

\* For a range that was final when it was asked for the answer is one chain,
\* although every number was resolved on its own: final blocks tagged so, each
\* the parent of the next; with useRcBlock no Asset Hub block twice.
THEOREM SettledRangeIsChain == Spec => []SettledRangeIsOneChain
<1>1. IInv => SettledRangeIsOneChain
  BY SettledPlainChain, SettledArraysOnce DEF SettledRangeIsOneChain
<1> QED
  BY <1>1, RangeInvariant, PTL
=============================================================================
