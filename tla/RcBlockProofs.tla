---------------------------- MODULE RcBlockProofs ----------------------------
(***************************************************************************)
(* The safety properties of RcBlock for any relay chain and any inclusion  *)
(* of Asset Hub blocks.  The handler's state is described by what each of  *)
(* its reads established when it was made (Read), which a node that only   *)
(* extends finality keeps.                                                 *)
(***************************************************************************)
EXTENDS RcBlock, SequenceTheorems, TLAPS

-----------------------------------------------------------------------------
(* Chains of blocks: they form a tree, of which finality is never taken back. *)

\* The chain of an ancestor is part of the chain.
LEMMA ChainsNest ==
  ASSUME NEW b \in Blocks, NEW c \in Chain[b]
  PROVE  c \in Blocks /\ Chain[c] \subseteq Chain[b]
BY ChainAssumption

\* A chain contains everything of a longer one it shares a higher block with.
LEMMA LowerBlocksAreShared ==
  ASSUME NEW tip \in Blocks, NEW b \in Chain[tip], NEW c \in Chain[tip],
         Height[b] <= Height[c]
  PROVE  b \in Chain[c]
BY ChainAssumption

\* A chain has exactly one block at every height up to its tip.
LEMMA BlockAtHeight ==
  ASSUME NEW tip \in Blocks, NEW n \in Nat, n <= Height[tip]
  PROVE  /\ BlockAt(tip, n) \in Chain[tip]
         /\ Height[BlockAt(tip, n)] = n
         /\ \A c \in Chain[tip] : Height[c] = n => c = BlockAt(tip, n)
<1>1. n \in 0..Height[tip]
  BY ChainAssumption
<1>2. \E c \in Chain[tip] : Height[c] = n
  BY <1>1, ChainAssumption
<1>3. BlockAt(tip, n) \in Chain[tip] /\ Height[BlockAt(tip, n)] = n
  BY <1>2 DEF BlockAt
<1> QED BY <1>3, ChainAssumption

\* The finalized chain is part of the best chain.
LEMMA FinalIsCanonical ==
  ASSUME NodeTypeOK
  PROVE  /\ finalized \in Blocks
         /\ \A b : IsFinal(b) => b \in Chain[best] /\ b \in Blocks
<1>1. finalized \in Blocks /\ Chain[finalized] \subseteq Chain[best] /\ best \in Blocks
  BY ChainsNest DEF NodeTypeOK
<1> QED BY <1>1, ChainsNest DEF IsFinal

\* A canonical block not above a finalized one is final.
LEMMA CanonicalBelowFinal ==
  ASSUME NodeTypeOK, NEW b \in Chain[best], NEW f, IsFinal(f), Height[b] <= Height[f]
  PROVE  IsFinal(b)
<1>1. f \in Chain[best] /\ finalized \in Blocks /\ best \in Blocks
  BY FinalIsCanonical DEF NodeTypeOK
<1>2. b \in Chain[f]
  BY <1>1, LowerBlocksAreShared
<1> QED BY <1>1, <1>2, ChainsNest DEF IsFinal

\* What the node's steps keep.
LEMMA NodeKeeps ==
  ASSUME NodeTypeOK, NodeNext
  PROVE  NodeTypeOK' /\ \A b : IsFinal(b) => IsFinal(b)'
<1>1. CASE NewBest
  BY <1>1 DEF NewBest, NodeTypeOK, IsFinal
<1>2. CASE Finalize
  <2>1. PICK b \in Blocks : /\ finalized \in Chain[b]
                            /\ finalized' = b
                            /\ best' = IF b \in Chain[best] THEN best ELSE b
    BY <1>2 DEF Finalize
  <2>2. b \in Chain[b]
    BY ChainAssumption
  <2>3. NodeTypeOK'
    BY <2>1, <2>2 DEF NodeTypeOK
  <2>4. Chain[finalized] \subseteq Chain[b]
    BY <2>1, ChainsNest
  <2> QED BY <2>1, <2>3, <2>4 DEF IsFinal
<1> QED BY <1>1, <1>2 DEF NodeNext

-----------------------------------------------------------------------------
(* The invariant. *)

\* What is known of a block that getHashFromAt has answered.
Read(b) ==
  /\ At(query) = None => IsFinal(b) /\ since \in Chain[b]
  /\ At(query) \in Blocks => b = At(query)
  /\ At(query) \in Nat /\ At(query) \notin Blocks =>
       /\ Height[b] = At(query)
       /\ At(query) <= Height[since] => IsFinal(b)

\* Without `at`, c was read after b.
Follows(b, c) == At(query) = None => b \in Chain[c]

Reads ==
  /\ IsFinal(since)
  /\ source # None => Read(source)
  /\ label # None => Read(label) /\ Follows(source, label)
  /\ info # None => /\ Read(info) /\ Follows(source, info)
                    /\ label # None => Follows(label, info)

Empty == source = None /\ label = None /\ info = None /\ results = <<>>

\* Where the handler is tells what it has done.
Progress ==
  /\ pc \in {"idle", "head", "events"} => Empty
  /\ pc \in {"label", "process", "info", "ok"} => source \in Blocks
  /\ pc = "label" => label = None /\ info = None /\ results = <<>> /\ Included[source] # <<>>
  /\ pc = "process" => /\ label \in Blocks /\ info = None
                       /\ Len(results) < Len(Included[source])
  /\ pc = "info" => info = None /\ query.object /\ Len(results) = Len(Included[source])
  /\ pc = "ok" => (query.object <=> info # None) /\ Len(results) = Len(Included[source])

Results ==
  \A n \in DOMAIN results : /\ results[n].ahHash = Included[source][n]
                            /\ results[n].rcBlockHash = label

IInv == TypeOK /\ Reads /\ Progress /\ Results

-----------------------------------------------------------------------------
\* `at` is a hash, a number or no string.
LEMMA AtCases ==
  ASSUME TypeOK
  PROVE  /\ At(query) \in Blocks \cup Nat \cup {None}
         /\ query.object \in BOOLEAN
         /\ query.route # "head" => At(query) = query.at
         /\ query.route = "head" => At(query) = None
<1>1. query \in Query
  BY QueriesAssumption DEF TypeOK
<1>2. CASE query \in HeadQuery
  BY <1>2 DEF HeadQuery, At
<1>3. CASE query \in BlockQuery
  BY <1>3 DEF BlockQuery, At
<1>4. CASE query \in StateQuery
  BY <1>4 DEF StateQuery, At
<1> QED BY <1>1, <1>2, <1>3, <1>4 DEF Query

\* What a read establishes at the moment it is made.
LEMMA ReadNow ==
  ASSUME IInv, Resolvable(At(query)), NEW b, b = HashFromAt(At(query))
  PROVE  /\ b \in Blocks /\ Read(b)
         /\ \A c : IsFinal(c) => Follows(c, b)
<1>1. NodeTypeOK /\ finalized \in Blocks /\ IsFinal(since) /\ best \in Blocks
  BY FinalIsCanonical DEF IInv, TypeOK, NodeTypeOK, Reads
<1>2. CASE At(query) = None
  <2>1. b = finalized /\ finalized \in Chain[finalized]
    BY <1>1, <1>2, ChainAssumption DEF HashFromAt
  <2> QED BY <1>1, <1>2, <2>1, NoneAssumption DEF Read, Follows, IsFinal
<1>3. CASE At(query) \in Blocks
  BY <1>3, NoneAssumption DEF HashFromAt, Read, Follows
<1>4. CASE At(query) \notin Blocks /\ At(query) # None
  <2> DEFINE n == At(query)
  <2>1. n \in Nat /\ n <= Height[best] /\ b = GetBlockHash(n)
    BY <1>4, AtCases DEF Resolvable, KnowsNumber, HashFromAt, IInv
  <2>2. b \in Chain[best] /\ Height[b] = n
    BY <1>1, <2>1, BlockAtHeight DEF GetBlockHash
  <2>3. b \in Blocks
    BY <1>1, <2>2, ChainsNest
  <2>4. n <= Height[since] => IsFinal(b)
    BY <1>1, <2>2, CanonicalBelowFinal
  <2> QED BY <1>4, <2>2, <2>3, <2>4 DEF Read, Follows
<1> QED BY <1>2, <1>3, <1>4

\* Without `at`, a block that was read is final.
LEMMA ReadIsFinal ==
  ASSUME NEW b, Read(b), At(query) = None
  PROVE  IsFinal(b)
BY DEF Read

LEMMA InitEstablishes == Init => IInv
<1> SUFFICES ASSUME Init PROVE IInv
  OBVIOUS
<1>1. NodeTypeOK /\ IsFinal(since) /\ since \in Blocks
  BY ChainAssumption DEF Init, NodeInit, NodeTypeOK, IsFinal
<1>2. query \in Queries
  BY QueriesAssumption DEF Init
<1>3. TypeOK
  BY <1>1, <1>2 DEF Init, TypeOK
<1>4. Reads /\ Progress /\ Results
  BY <1>1 DEF Init, Reads, Progress, Empty, Results
<1> QED BY <1>3, <1>4 DEF IInv

\* The node only extends the finalized chain.
LEMMA NodePreserves == ASSUME IInv, Node PROVE IInv'
<1>1. NodeTypeOK' /\ \A b : IsFinal(b) => IsFinal(b)'
  BY NodeKeeps DEF IInv, TypeOK, Node
<1>2. UNCHANGED requestVars /\ At(query)' = At(query)
  BY DEF Node, requestVars, At
<1>3. \A b : Read(b) => Read(b)'
  BY <1>1, <1>2 DEF Read, requestVars
<1>4. TypeOK'
  BY <1>1, <1>2 DEF IInv, TypeOK, requestVars
<1>5. Reads'
  BY <1>1, <1>2, <1>3 DEF IInv, Reads, Follows, requestVars
<1>6. Progress' /\ Results'
  BY <1>2 DEF IInv, Progress, Empty, Results, requestVars
<1> QED BY <1>4, <1>5, <1>6 DEF IInv

LEMMA ArrivePreserves == ASSUME IInv, Arrive PROVE IInv'
<1>1. /\ pc = "idle" /\ pc' \in {"head", "events"} /\ query' \in Queries
      /\ since' = finalized
      /\ UNCHANGED <<best, finalized, asked, source, label, results, info>>
  BY DEF Arrive, Goto
<1>2. finalized \in Blocks /\ finalized \in Chain[finalized]
  BY FinalIsCanonical, ChainAssumption DEF IInv, TypeOK
<1>3. TypeOK'
  BY <1>1, <1>2 DEF IInv, TypeOK, NodeTypeOK
<1>4. Empty'
  BY <1>1 DEF IInv, Progress, Empty
<1>5. IsFinal(since)'
  BY <1>1, <1>2 DEF IsFinal
<1>6. Reads' /\ Progress' /\ Results'
  BY <1>1, <1>4, <1>5 DEF Empty, Reads, Progress, Results
<1> QED BY <1>3, <1>6 DEF IInv

\* What stays when neither the node nor the question moves.
LEMMA ReadStays ==
  ASSUME UNCHANGED <<best, finalized, query, since>>
  PROVE  /\ \A b : Read(b)' <=> Read(b)
         /\ \A b, c : Follows(b, c)' <=> Follows(b, c)
         /\ IsFinal(since)' <=> IsFinal(since)
BY DEF Read, Follows, IsFinal, At

LEMMA AskHeadPreserves == ASSUME IInv, AskHead PROVE IInv'
<1>1. /\ pc = "head" /\ pc' = "events" /\ asked' \in {finalized, best}
      /\ UNCHANGED <<best, finalized, query, source, label, results, info, since>>
  BY DEF AskHead, Goto
<1>2. TypeOK'
  BY <1>1, FinalIsCanonical DEF IInv, TypeOK, NodeTypeOK
<1>3. Reads'
  BY <1>1, ReadStays DEF IInv, Reads
<1>4. Progress' /\ Results'
  BY <1>1 DEF IInv, Progress, Empty, Results
<1> QED BY <1>2, <1>3, <1>4 DEF IInv

LEMMA ReadEventsPreserves == ASSUME IInv, ReadEvents PROVE IInv'
<1> DEFINE b == HashFromAt(At(query))
<1>1. /\ pc = "events" /\ source' = b /\ Resolvable(At(query))
      /\ pc' = IF Included[b] = <<>> THEN (IF query.object THEN "info" ELSE "ok")
                                     ELSE "label"
      /\ UNCHANGED <<best, finalized, query, asked, label, results, info, since>>
  BY DEF ReadEvents, Goto
<1>2. b \in Blocks /\ Read(b)
  BY <1>1, ReadNow
<1>3. Empty /\ query.object \in BOOLEAN
  BY <1>1, AtCases DEF IInv, Progress
<1>4. TypeOK'
  BY <1>1, <1>2 DEF IInv, TypeOK, NodeTypeOK
<1>5. Reads'
  BY <1>1, <1>2, <1>3, ReadStays DEF IInv, Reads, Empty
<1>6. Progress' /\ Results'
  <2>1. b # None
    BY <1>2, NoneAssumption
  <2>2. CASE Included[b] # <<>>
    BY <1>1, <1>2, <1>3, <2>2 DEF Progress, Empty, Results
  <2>3. CASE Included[b] = <<>>
    <3>1. pc' = IF query.object THEN "info" ELSE "ok"
      BY <1>1, <2>3
    <3>2. pc' \in {"info", "ok"} /\ (pc' = "info" <=> query.object)
      BY <1>3, <3>1
    <3> QED BY <1>1, <1>2, <1>3, <2>3, <3>2 DEF Progress, Empty, Results
  <2> QED BY <2>2, <2>3
<1> QED BY <1>4, <1>5, <1>6 DEF IInv

LEMMA ReadLabelPreserves == ASSUME IInv, ReadLabel PROVE IInv'
<1> DEFINE b == HashFromAt(At(query))
<1>1. /\ pc = "label" /\ pc' = "process" /\ label' = b /\ Resolvable(At(query))
      /\ UNCHANGED <<best, finalized, query, asked, source, results, info, since>>
  BY DEF ReadLabel, Goto
<1>2. b \in Blocks /\ Read(b) /\ \A c : IsFinal(c) => Follows(c, b)
  BY <1>1, ReadNow
<1>3. /\ source \in Blocks /\ label = None /\ info = None /\ results = <<>>
      /\ Included[source] \in Seq(AhBlocks) /\ Included[source] # <<>>
  BY <1>1, IncludedAssumption DEF IInv, Progress
<1>4. Follows(source, b)
  BY <1>2, <1>3, ReadIsFinal, NoneAssumption DEF IInv, Reads, Follows
<1>5. TypeOK'
  BY <1>1, <1>2 DEF IInv, TypeOK, NodeTypeOK
<1>6. Reads'
  BY <1>1, <1>2, <1>3, <1>4, ReadStays DEF IInv, Reads
<1>7. Progress' /\ Results'
  BY <1>1, <1>2, <1>3, NoneAssumption DEF Progress, Empty, Results
<1> QED BY <1>5, <1>6, <1>7 DEF IInv

LEMMA ProcessPreserves == ASSUME IInv, Process PROVE IInv'
<1> DEFINE n == Len(results) + 1
           hashes == Included[source]
           new == Result(hashes[n])
<1>1. /\ pc = "process" /\ results' = Append(results, new)
      /\ pc' = IF n = Len(hashes) THEN (IF query.object THEN "info" ELSE "ok") ELSE pc
      /\ UNCHANGED <<best, finalized, query, asked, source, label, info, since>>
  BY DEF Process, Finish, Goto
<1>2. /\ source \in Blocks /\ label \in Blocks /\ info = None
      /\ Len(results) < Len(hashes) /\ hashes \in Seq(AhBlocks)
      /\ results \in Seq([ahHash : AhBlocks, rcBlockHash : Blocks])
      /\ query.object \in BOOLEAN
  BY <1>1, IncludedAssumption, AtCases DEF IInv, Progress, TypeOK
<1>3. n \in 1..Len(hashes) /\ hashes[n] \in AhBlocks
  BY <1>2
<1>4. new \in [ahHash : AhBlocks, rcBlockHash : Blocks]
  BY <1>2, <1>3 DEF Result
<1>5. /\ results' \in Seq([ahHash : AhBlocks, rcBlockHash : Blocks])
      /\ Len(results') = n /\ DOMAIN results' = DOMAIN results \cup {n}
      /\ results'[n] = new
      /\ \A i \in DOMAIN results : results'[i] = results[i]
  BY <1>1, <1>2, <1>4
<1>6. TypeOK'
  BY <1>1, <1>5 DEF IInv, TypeOK, NodeTypeOK
<1>7. Reads'
  BY <1>1, ReadStays DEF IInv, Reads
<1>8. Progress'
  BY <1>1, <1>2, <1>3, <1>5, NoneAssumption DEF Progress, Empty
<1>9. Results'
  BY <1>1, <1>5 DEF IInv, Results, Result
<1> QED BY <1>6, <1>7, <1>8, <1>9 DEF IInv

LEMMA ReadInfoPreserves == ASSUME IInv, ReadInfo PROVE IInv'
<1> DEFINE b == HashFromAt(At(query))
<1>1. /\ pc = "info" /\ pc' = "ok" /\ info' = b /\ Resolvable(At(query))
      /\ UNCHANGED <<best, finalized, query, asked, source, label, results, since>>
  BY DEF ReadInfo, Goto
<1>2. b \in Blocks /\ Read(b) /\ \A c : IsFinal(c) => Follows(c, b)
  BY <1>1, ReadNow
<1>3. source \in Blocks /\ query.object /\ Len(results) = Len(Included[source])
  BY <1>1 DEF IInv, Progress
<1>4. Follows(source, b) /\ (label # None => Follows(label, b))
  BY <1>2, <1>3, ReadIsFinal, NoneAssumption DEF IInv, Reads, Follows
<1>5. TypeOK'
  BY <1>1, <1>2 DEF IInv, TypeOK, NodeTypeOK
<1>6. Reads'
  BY <1>1, <1>2, <1>4, ReadStays DEF IInv, Reads
<1>7. Progress' /\ Results'
  BY <1>1, <1>2, <1>3, NoneAssumption DEF IInv, Progress, Results
<1> QED BY <1>5, <1>6, <1>7 DEF IInv

LEMMA FailPreserves == ASSUME IInv, Fail PROVE IInv'
<1>1. /\ pc' = "error"
      /\ UNCHANGED <<best, finalized, query, asked, source, label, results, info, since>>
  BY DEF Fail
<1>2. TypeOK'
  BY <1>1 DEF IInv, TypeOK, NodeTypeOK
<1>3. Reads'
  BY <1>1, ReadStays DEF IInv, Reads
<1>4. Progress' /\ Results'
  BY <1>1 DEF IInv, Progress, Results
<1> QED BY <1>2, <1>3, <1>4 DEF IInv

LEMMA StepPreserves == IInv /\ [Next]_vars => IInv'
<1> SUFFICES ASSUME IInv, [Next]_vars PROVE IInv'
  OBVIOUS
<1>1. CASE UNCHANGED vars
  <2>1. UNCHANGED <<best, finalized, query, since>> /\ UNCHANGED requestVars
    BY <1>1 DEF vars, requestVars
  <2>2. TypeOK'
    BY <2>1 DEF IInv, TypeOK, NodeTypeOK, requestVars
  <2>3. Reads'
    BY <2>1, ReadStays DEF IInv, Reads, requestVars
  <2>4. Progress' /\ Results'
    BY <2>1 DEF IInv, Progress, Empty, Results, requestVars
  <2> QED BY <2>2, <2>3, <2>4 DEF IInv
<1>2. CASE Arrive \/ AskHead \/ ReadEvents \/ ReadLabel
  BY <1>2, ArrivePreserves, AskHeadPreserves, ReadEventsPreserves, ReadLabelPreserves
<1>3. CASE Process \/ ReadInfo \/ Fail \/ Node
  BY <1>3, ProcessPreserves, ReadInfoPreserves, FailPreserves, NodePreserves
<1> QED BY <1>1, <1>2, <1>3 DEF Next

-----------------------------------------------------------------------------
(* The theorems. *)

\* The inductive invariant of the useRcBlock branch.
THEOREM RcInvariant == Spec => []IInv
BY InitEstablishes, StepPreserves, PTL DEF Spec

\* Every result names an Asset Hub block and a relay block.
THEOREM TypeCorrect == Spec => []TypeOK
<1>1. IInv => TypeOK
  BY DEF IInv
<1> QED BY <1>1, RcInvariant, PTL

\* What getHashFromRcAt found is answered in full, in one relay block's name.
THEOREM AnswersAreWhole == Spec => []WholeAnswer
<1>1. IInv => WholeAnswer
  BY DEF IInv, Progress, Results, WholeAnswer, Answered
<1> QED BY <1>1, RcInvariant, PTL

\* The two or three reads agree whenever `at` names one block for good.
THEOREM SettledReadsAgree == Spec => []SettledAtAgrees
<1>1. IInv => SettledAtAgrees
  <2> SUFFICES ASSUME IInv, Answered, Settled
               PROVE  /\ IF query.at \in Blocks THEN source = query.at
                         ELSE Height[source] = query.at /\ IsFinal(source)
                      /\ label \in {None, source}
                      /\ info \in {None, source}
    BY DEF SettledAtAgrees
  <2>1. /\ At(query) = query.at /\ query.at # None
        /\ query.at \in Blocks \/ (query.at \in Nat /\ query.at <= Height[since])
    BY AtCases DEF Settled, IInv
  <2>2. source \in Blocks /\ source # None
    BY NoneAssumption DEF IInv, Progress, Answered
  <2>3. CASE query.at \in Blocks
    BY <2>1, <2>2, <2>3 DEF IInv, Reads, Read
  <2>4. CASE query.at \notin Blocks
    <3>1. \A b : Read(b) => Height[b] = query.at /\ IsFinal(b)
      BY <2>1, <2>4 DEF Read
    <3>2. \A b, c : IsFinal(b) /\ IsFinal(c) /\ Height[b] = Height[c] => b = c
      <4>1. finalized \in Blocks
        BY FinalIsCanonical DEF IInv, TypeOK
      <4> QED BY <4>1, ChainAssumption DEF IsFinal
    <3> QED BY <2>2, <2>4, <3>1, <3>2 DEF IInv, Reads
  <2> QED BY <2>3, <2>4
<1> QED BY <1>1, RcInvariant, PTL

\* The reads of a head go forward along the finalized chain.
THEOREM HeadsGoForward == Spec => []HeadsAdvance
<1>1. IInv => HeadsAdvance
  BY NoneAssumption
     DEF IInv, Progress, Reads, Read, Follows, HeadsAdvance, Answered
<1> QED BY <1>1, RcInvariant, PTL
=============================================================================
