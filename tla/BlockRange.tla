----------------------------- MODULE BlockRange -----------------------------
(***************************************************************************)
(* GET /blocks?range=min-max: one task per number through a PromiseQueue   *)
(* of Slots, Promise.all over the tasks, a sort, one answer.  Each task    *)
(* asks the node for the hash of its number when its turn comes, so the    *)
(* node may reorganise between two blocks of one answer.                   *)
(*                                                                         *)
(* The queue is the FifoPool that PromiseQueue implements: the loop that   *)
(* submits has no await, so all tasks arrive at once.  With useRcBlock the *)
(* node of ChainNode is the relay chain's and a task answers the Asset Hub *)
(* blocks its relay block included.                                        *)
(***************************************************************************)
EXTENDS ChainNode, RangeQuery, Sequences, FiniteSets, SequencesExt

CONSTANTS Slots,     \* the queue's argument
          Numbers,   \* the block numbers a range may name
          Queries,   \* the queries the client may choose from
          AhBlocks,  \* Asset Hub blocks, by hash
          AhNumber,  \* AhNumber[x]: the number in the header of x
          Included,  \* Included[b]: those in the CandidateIncluded events of b
          None       \* no block

ASSUME SlotsAssumption == Slots \in Nat \ {0}
ASSUME NumbersAssumption == Numbers \subseteq Nat /\ IsFiniteSet(Numbers)
ASSUME AhAssumption == /\ AhNumber \in [AhBlocks -> Nat]
                       /\ Included \in [Blocks -> Seq(AhBlocks)]
                       /\ AhBlocks \cap Blocks = {}
\* A chain of the relay chain includes an Asset Hub block once.
ASSUME IncludedOnceAssumption ==
  \A b \in Blocks : \A c, d \in Chain[b] :
    \A i \in DOMAIN Included[c], j \in DOMAIN Included[d] :
      Included[c][i] = Included[d][j] => c = d /\ i = j
ASSUME NoneAssumption == None \notin Blocks

VARIABLES pc,      \* the await the handler is suspended at
          query,   \* what the client asks
          range,   \* rangeOfNums
          status,  \* status[n]: the promise pQueue.run() returned for n
          stage,   \* stage[n]: the await the task of n is suspended at
          source,  \* source[n]: the block n was resolved to
          tag,     \* tag[n]: its finalized tag
          blocks,  \* blocks
          info,    \* rcBlock of the object format
          since    \* history: the finalized head when the query arrived

requestVars == <<pc, query, range, status, stage, source, tag, blocks, info, since>>

vars == <<best, finalized, requestVars>>

Query == [range : Seq(Nat \cup {NaN}), useRc : BOOLEAN, object : BOOLEAN]

ASSUME QueriesAssumption == Queries # {} /\ Queries \subseteq Query

Pool == INSTANCE FifoPool WITH Tasks <- Numbers, MaxTasks <- Slots,
                               arrived <- range, status <- status

-----------------------------------------------------------------------------
ASSUME RangesAssumption ==
  \A q \in Queries :
    RangeAccepted(q.range) => q.range[1]..q.range[2] \subseteq Numbers

Init == /\ NodeInit
        /\ pc = "idle"
        /\ query = CHOOSE q \in Queries : TRUE
        /\ range = <<>>
        /\ status = [n \in Numbers |-> "absent"]
        /\ stage = [n \in Numbers |-> "hash"]
        /\ source = [n \in Numbers |-> None]
        /\ tag = [n \in Numbers |-> "absent"]
        /\ blocks = <<>> /\ info = None
        /\ since = Genesis

\* The handler up to Promise.all: the range is parsed and every task queued.
Arrive ==
  /\ pc = "idle"
  /\ \E q \in Queries :
       /\ query' = q
       /\ IF RangeAccepted(q.range)
          THEN /\ pc' = "pending"
               /\ range' = RangeOfNums(q.range)
               /\ status' = Pool!Admit(range', [n \in Numbers |->
                              IF \E i \in DOMAIN range' : range'[i] = n
                              THEN "waiting" ELSE "absent"])
          ELSE pc' = "error" /\ UNCHANGED <<range, status>>
  /\ since' = finalized
  /\ UNCHANGED <<best, finalized, stage, source, tag, blocks, info>>

-----------------------------------------------------------------------------
(* The task of number n. *)

\* Faulty: a rejected task keeps its slot.
SettleLeaking(n, outcome) ==
  status' = IF outcome = "fulfilled"
            THEN Pool!Admit(range, [status EXCEPT ![n] = outcome])
            ELSE [status EXCEPT ![n] = outcome]

Settle(n, outcome) ==
  status' = Pool!Admit(range, [status EXCEPT ![n] = outcome])

\* getHashForBlock, and the events of a relay block.  One without Asset Hub
\* blocks settles the task with null.
Resolve(n) ==
  /\ status[n] = "admitted" /\ stage[n] = "hash"
  /\ KnowsNumber(n)
  /\ source' = [source EXCEPT ![n] = GetBlockHash(n)]
  /\ IF query.useRc /\ Included[GetBlockHash(n)] = <<>>
     THEN Settle(n, "fulfilled") /\ UNCHANGED stage
     ELSE /\ stage' = [stage EXCEPT ![n] = IF query.useRc THEN "label" ELSE "build"]
          /\ UNCHANGED status
  /\ UNCHANGED <<best, finalized, pc, query, range, tag, blocks, info, since>>

\* getHashFromRcAt asks for the hash again, for rcBlockNumber.
Label(n) ==
  /\ status[n] = "admitted" /\ stage[n] = "label"
  /\ KnowsNumber(n)
  /\ stage' = [stage EXCEPT ![n] = "build"]
  /\ UNCHANGED <<best, finalized, pc, query, range, status, source, tag, blocks, info, since>>

\* Faulty: the finalized head itself is not taken for finalized.
TagBelowHead(n) == IF n < Height[finalized] THEN "true" ELSE "false"

\* isFinalizedBlock without checkFinalized, against the head of this moment.
TagOf(n) == IF n <= Height[finalized] THEN "true" ELSE "false"

\* fetchBlock.  The tag of an Asset Hub block is another node's affair.
Build(n) ==
  /\ status[n] = "admitted" /\ stage[n] = "build"
  /\ tag' = [tag EXCEPT ![n] = IF query.useRc THEN "absent" ELSE TagOf(n)]
  /\ Settle(n, "fulfilled")
  /\ UNCHANGED <<best, finalized, pc, query, range, stage, source, blocks, info, since>>

\* A call the task awaits rejects; one for an unknown number always does.
Reject(n) ==
  /\ status[n] = "admitted"
  /\ Settle(n, "rejected")
  /\ UNCHANGED <<best, finalized, pc, query, range, stage, source, tag, blocks, info, since>>

Task(n) == Resolve(n) \/ Label(n) \/ Build(n) \/ Reject(n)

-----------------------------------------------------------------------------
NumberOf(b) == IF b \in AhBlocks THEN AhNumber[b] ELSE Height[b]

\* allBlocks in the order of range: a block for each number, or the arrays of
\* the tasks flattened.
Flattened ==
  IF query.useRc
  THEN FlattenSeq([i \in DOMAIN range |-> Included[source[range[i]]]])
  ELSE [i \in DOMAIN range |-> source[range[i]]]

\* Faulty: no sort; with useRcBlock a fork may bring a later block first.
Unsorted(s) == s

\* blocks.sort by number; a stable sort.
Sorted(s) ==
  LET rank(i) == Cardinality({j \in DOMAIN s :
                   \/ NumberOf(s[j]) < NumberOf(s[i])
                   \/ NumberOf(s[j]) = NumberOf(s[i]) /\ j <= i})
  IN  [k \in DOMAIN s |-> s[CHOOSE i \in DOMAIN s : rank(i) = k]]

InRange == {range[i] : i \in DOMAIN range}

\* Promise.all fulfils.
AllFulfilled == \A n \in InRange : status[n] = "fulfilled"

Respond ==
  /\ pc = "pending" /\ AllFulfilled
  /\ blocks' = Sorted(Flattened)
  /\ pc' = IF query.useRc /\ query.object THEN "info" ELSE "ok"
  /\ UNCHANGED <<best, finalized, query, range, status, stage, source, tag, info, since>>

\* Promise.all rejects with the first rejection; the queue runs on.
RespondError ==
  /\ pc = "pending" /\ \E n \in InRange : status[n] = "rejected"
  /\ pc' = "error"
  /\ UNCHANGED <<best, finalized, query, range, status, stage, source, tag, blocks, info, since>>

\* getRcBlockInfo of the first number of the range.
ReadInfo ==
  /\ pc = "info"
  /\ \/ /\ KnowsNumber(range[1])
        /\ info' = GetBlockHash(range[1])
        /\ pc' = "ok"
     \/ pc' = "error" /\ UNCHANGED info
  /\ UNCHANGED <<best, finalized, query, range, status, stage, source, tag, blocks, since>>

Handler == Respond \/ RespondError \/ ReadInfo

Node == NodeNext /\ UNCHANGED requestVars

Next == Node \/ Arrive \/ Handler \/ \E n \in Numbers : Task(n)

(***************************************************************************)
(* Every call the handler or a task awaits is answered or refused, and the *)
(* event loop gets to every callback.  The node need not move.             *)
(***************************************************************************)
Fairness == WF_vars(Handler) /\ \A n \in Numbers : WF_vars(Task(n))

Spec == Init /\ [][Next]_vars /\ Fairness

-----------------------------------------------------------------------------
Answered == pc = "ok"

(***************************************************************************)
(* However the tasks interleave and settle, an answer about at most        *)
(* MaxRange blocks, which is what the route is documented to take, has     *)
(* without useRcBlock exactly one block for each number from min to max,   *)
(* in this order; with it, every Asset Hub block a task found, in the      *)
(* order of numbers.  That a longer range is refused is promised in        *)
(* DocumentedAnswers.                                                      *)
(***************************************************************************)
WholeRange ==
  Answered /\ Len(range) <= MaxRange =>
    IF query.useRc
    THEN /\ \A n \in InRange : \A i \in DOMAIN Included[source[n]] :
              \E k \in DOMAIN blocks : blocks[k] = Included[source[n]][i]
         /\ \A j, k \in DOMAIN blocks :
              j < k => AhNumber[blocks[j]] <= AhNumber[blocks[k]]
    ELSE /\ Len(blocks) = query.range[2] - query.range[1] + 1
         /\ \A k \in DOMAIN blocks : Height[blocks[k]] = query.range[1] + k - 1

\* Every number of the range was final when the query arrived.
Settled == \A n \in InRange : n <= Height[since]

(***************************************************************************)
(* For a range that was final when it was asked for, the answer is one     *)
(* chain although every number was resolved on its own: each block is the  *)
(* parent of the next, all are final and tagged so; with useRcBlock no     *)
(* Asset Hub block is answered twice, and rcBlock is the first number's.   *)
(***************************************************************************)
SettledRangeIsOneChain ==
  Answered /\ Settled =>
    IF query.useRc
    THEN /\ \A j, k \in DOMAIN blocks : j # k => blocks[j] # blocks[k]
         /\ info \in {None, source[range[1]]}
    ELSE /\ \A k \in DOMAIN blocks : IsFinal(blocks[k]) /\ tag[range[k]] = "true"
         /\ \A k \in 2..Len(blocks) : Parent(blocks[k]) = blocks[k - 1]

(***************************************************************************)
(* A range is answered or refused in the end, and although one rejected    *)
(* task refuses it at once, every task that was queued still gets its slot *)
(* and settles: no failure strands the numbers behind it.                  *)
(***************************************************************************)
RangeAnsweredAndDrained ==
  /\ pc \in {"pending", "info"} ~> pc \in {"ok", "error"}
  /\ \A n \in Numbers :
       status[n] \in {"waiting", "admitted"} ~> status[n] \in {"fulfilled", "rejected"}
=============================================================================
