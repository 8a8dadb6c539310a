------------------------------- MODULE RcBlock -------------------------------
(***************************************************************************)
(* The useRcBlock=true branch that 25 controllers share: a block of the    *)
(* relay chain is named, and the endpoint answers for every Asset Hub      *)
(* block whose inclusion that block records.  The branch asks the relay    *)
(* chain node up to four times what `at` stands for, and the node moves    *)
(* in between.                                                             *)
(*                                                                         *)
(* The node of ChainNode is the relay chain's here.  Requests share        *)
(* nothing but that node, so one request stands for all of them.  What an  *)
(* endpoint computes at an Asset Hub block is left out: it is read at the  *)
(* block's hash, which cannot change.                                      *)
(***************************************************************************)
EXTENDS ChainNode, Sequences

CONSTANTS AhBlocks,  \* Asset Hub blocks, by hash
          Included,  \* Included[b]: those in the CandidateIncluded events of b
          Queries,   \* the queries the client may choose from
          None       \* no block; as `at`: no string

ASSUME IncludedAssumption == Included \in [Blocks -> Seq(AhBlocks)]
ASSUME NoneAssumption == None \notin Blocks /\ None \notin AhBlocks /\ None \notin Nat

VARIABLES pc,       \* the await the handler is suspended at
          query,    \* what the client asks
          asked,    \* rcHash of the head routes
          source,   \* the relay block whose events were read
          label,    \* rcBlockHash, which also gives rcBlockNumber
          results,  \* results
          info,     \* rcBlock of the object format
          since     \* history: the finalized head when the query arrived

requestVars == <<pc, query, asked, source, label, results, info, since>>

vars == <<best, finalized, requestVars>>

\* GET /blocks/head and /blocks/head/header.
HeadQuery == [route : {"head"}, finalized : BOOLEAN, object : BOOLEAN]

\* The other block routes have the block in their path,
BlockQuery == [route : {"block"}, at : Blocks \cup Nat, object : BOOLEAN]

\* and the routes of accounts and pallets an optional query parameter.
StateQuery == [route : {"state"}, at : Blocks \cup Nat \cup {None}, object : BOOLEAN]

Query == HeadQuery \cup BlockQuery \cup StateQuery

ASSUME QueriesAssumption == Queries # {} /\ Queries \subseteq Query

\* What the handlers pass on as `at`.  The head routes pass a hash object.
At(q) == IF q.route = "head" THEN None ELSE q.at

Resolvable(at) == at \notin Blocks /\ at # None => KnowsNumber(at)

\* Faulty: without a string, the newest block is taken.
HashOrNewest(at) == IF at = None THEN best
                    ELSE IF at \in Blocks THEN at ELSE GetBlockHash(at)

\* getHashFromAt: only a string is looked at.
HashFromAt(at) == IF at = None THEN finalized
                  ELSE IF at \in Blocks THEN at ELSE GetBlockHash(at)

-----------------------------------------------------------------------------
Init == /\ NodeInit
        /\ pc = "idle"
        /\ query = CHOOSE q \in Queries : TRUE
        /\ asked = None /\ source = None /\ label = None /\ info = None
        /\ results = <<>>
        /\ since = Genesis

Goto(from, to) == pc = from /\ pc' = to

Arrive ==
  /\ \E q \in Queries : /\ query' = q
                        /\ Goto("idle", IF q.route = "head" THEN "head" ELSE "events")
  /\ since' = finalized
  /\ UNCHANGED <<best, finalized, asked, source, label, results, info>>

\* The chains the branch is for all finalize (options.finalizes).
AskHead ==
  /\ Goto("head", "events")
  /\ asked' = IF query.finalized THEN finalized ELSE best
  /\ UNCHANGED <<best, finalized, query, source, label, results, info, since>>

\* getAhAtFromRcAt.  Without an Asset Hub block the answer is empty.
ReadEvents ==
  LET rcHash == HashFromAt(At(query))
  IN  /\ Resolvable(At(query))
      /\ IF Included[rcHash] = <<>>
           THEN Goto("events", IF query.object THEN "info" ELSE "ok")
           ELSE Goto("events", "label")
      /\ source' = rcHash
      /\ UNCHANGED <<best, finalized, query, asked, label, results, info, since>>

\* Faulty: the number is read off the best block.
LabelWithNewest ==
  /\ Goto("label", "process")
  /\ label' = best
  /\ UNCHANGED <<best, finalized, query, asked, source, results, info, since>>

\* The rest of getHashFromRcAt asks for the hash a second time.
ReadLabel ==
  /\ Resolvable(At(query))
  /\ Goto("label", "process")
  /\ label' = HashFromAt(At(query))
  /\ UNCHANGED <<best, finalized, query, asked, source, results, info, since>>

Result(ahHash) == [ahHash |-> ahHash, rcBlockHash |-> label]

Finish == Goto("process", IF query.object THEN "info" ELSE "ok")

\* Faulty: only the first of the Asset Hub blocks is answered.
ProcessFirst ==
  /\ pc = "process" /\ Finish
  /\ results' = <<Result(Included[source][1])>>
  /\ UNCHANGED <<best, finalized, query, asked, source, label, info, since>>

\* One turn of the loop over the Asset Hub blocks, with its awaits.
Process ==
  LET n == Len(results) + 1
      ahHashes == Included[source]
  IN  /\ pc = "process"
      /\ IF n = Len(ahHashes) THEN Finish ELSE UNCHANGED pc
      /\ results' = Append(results, Result(ahHashes[n]))
      /\ UNCHANGED <<best, finalized, query, asked, source, label, info, since>>

\* getRcBlockInfo, for the object format only.
ReadInfo ==
  /\ Resolvable(At(query))
  /\ Goto("info", "ok")
  /\ info' = HashFromAt(At(query))
  /\ UNCHANGED <<best, finalized, query, asked, source, label, results, since>>

\* A call the handler awaits rejects, a number the node does not know too.
Fail ==
  /\ pc \in {"head", "events", "label", "process", "info"}
  /\ pc' = "error"
  /\ UNCHANGED <<best, finalized, query, asked, source, label, results, info, since>>

Node == NodeNext /\ UNCHANGED requestVars

Next == \/ Arrive \/ AskHead \/ ReadEvents \/ ReadLabel \/ Process \/ ReadInfo
        \/ Fail \/ Node

Spec == Init /\ [][Next]_vars

-----------------------------------------------------------------------------
TypeOK ==
  /\ NodeTypeOK
  /\ pc \in {"idle", "head", "events", "label", "process", "info", "ok", "error"}
  /\ query \in Queries
  /\ {asked, source, label, info} \subseteq Blocks \cup {None}
  /\ results \in Seq([ahHash : AhBlocks, rcBlockHash : Blocks])
  /\ since \in Blocks

Answered == pc = "ok"

(***************************************************************************)
(* An answer is whole: one result for every Asset Hub block the events     *)
(* name, in their order, and all of them carry the same relay block.  With *)
(* the object format there is a relay block even if there is no result.    *)
(***************************************************************************)
WholeAnswer ==
  Answered =>
    /\ Len(results) = Len(Included[source])
    /\ \A n \in DOMAIN results : /\ results[n].ahHash = Included[source][n]
                                 /\ results[n].rcBlockHash = label
    /\ query.object <=> info # None

\* `at` names one block for good: a hash, or a number that was final already.
Settled == /\ query.route # "head" /\ query.at # None
           /\ query.at \in Blocks \/ query.at <= Height[since]

(***************************************************************************)
(* For a hash, or a number at or below the finalized head, all reads agree *)
(* however the node moves: the events, rcBlockHash and rcBlock are those   *)
(* of the one block that was named.                                        *)
(***************************************************************************)
SettledAtAgrees ==
  Answered /\ Settled =>
    /\ IF query.at \in Blocks THEN source = query.at
                              ELSE Height[source] = query.at /\ IsFinal(source)
    /\ label \in {None, source}
    /\ info \in {None, source}

(***************************************************************************)
(* Without `at`, and on the head routes, the reads may differ, but all are *)
(* of finalized blocks no older than the request, each at or after the     *)
(* one before: the label never names a block before the one that included  *)
(* the result, nor rcBlock one before the label.                           *)
(***************************************************************************)
HeadsAdvance ==
  Answered /\ At(query) = None =>
    /\ since \in Chain[source] /\ IsFinal(source)
    /\ label # None => source \in Chain[label] /\ IsFinal(label)
    /\ info # None => /\ source \in Chain[info] /\ IsFinal(info)
                      /\ label # None => label \in Chain[info]

(***************************************************************************)
(* GET /blocks/head is documented to give "the newest known block" for     *)
(* finalized=false, and with useRcBlock it "Respects the `finalized`       *)
(* parameter when determining which relay chain block to use".  The newest *)
(* block of the relay chain is asked for and then not used: the answer may *)
(* be of a block below it.                                                 *)
(***************************************************************************)
NewestIsAnswered ==
  Answered /\ query.route = "head" /\ ~query.finalized
    => Height[source] >= Height[asked]
=============================================================================
