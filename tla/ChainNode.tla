------------------------------ MODULE ChainNode ------------------------------
(***************************************************************************)
(* The Substrate node behind the API connection, as far as its RPC answers *)
(* can differ from one call to the next: which block is the best one and   *)
(* which is the finalized one.  Everything asked "at" a block hash is      *)
(* immutable.  The node is not part of the repository; it is modelled from *)
(* how the services use chain_getHeader, chain_getFinalizedHead and        *)
(* chain_getBlockHash.                                                     *)
(***************************************************************************)
EXTENDS Integers

CONSTANTS Blocks,   \* every block the node may come to know, by hash
          Genesis,  \* the block without a parent
          Height,   \* Height[b]: the number in the header of b
          Chain     \* Chain[b]: b and all its ancestors

\* The blocks form a tree rooted at Genesis: a chain has one block at every
\* height up to its tip, and the ancestors of an ancestor are those of the
\* tip that are not higher.
ASSUME ChainAssumption ==
  /\ Genesis \in Blocks
  /\ Height \in [Blocks -> Nat]
  /\ Chain \in [Blocks -> SUBSET Blocks]
  /\ Chain[Genesis] = {Genesis}
  /\ Height[Genesis] = 0
  /\ \A b \in Blocks :
       /\ b \in Chain[b] /\ Genesis \in Chain[b]
       /\ \A n \in 0..Height[b] : \E c \in Chain[b] : Height[c] = n
       /\ \A c, d \in Chain[b] : Height[c] = Height[d] => c = d
       /\ \A c \in Chain[b] : Chain[c] = {d \in Chain[b] : Height[d] <= Height[c]}

VARIABLES best,      \* chain_getHeader: the best block
          finalized  \* chain_getFinalizedHead

nodeVars == <<best, finalized>>

BlockAt(tip, n) == CHOOSE b \in Chain[tip] : Height[b] = n

Parent(b) == BlockAt(b, Height[b] - 1)

\* chain_getBlockHash(n) has an answer, and it is GetBlockHash(n).
KnowsNumber(n) == n <= Height[best]

GetBlockHash(n) == BlockAt(best, n)

\* b is on the finalized chain; once true this stays true.
IsFinal(b) == b \in Chain[finalized]

NodeInit == best = Genesis /\ finalized = Genesis

\* A block is imported on the best chain, or the node switches to a fork.
NewBest == \E b \in Blocks \ {best} : /\ finalized \in Chain[b]
                                      /\ best' = b
                                      /\ UNCHANGED finalized

\* Finality may settle on a fork, which then becomes the best chain.
Finalize == \E b \in Blocks \ {finalized} :
              /\ finalized \in Chain[b]
              /\ finalized' = b
              /\ best' = IF b \in Chain[best] THEN best ELSE b

NodeNext == NewBest \/ Finalize

NodeTypeOK == best \in Blocks /\ finalized \in Chain[best]
=============================================================================
