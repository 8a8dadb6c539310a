---------------------------- MODULE BlockEndpoint ----------------------------
(***************************************************************************)
(* GET /blocks/head, GET /blocks/{id} and                                  *)
(* GET /blocks/{id}/extrinsics/{index}: the handlers of BlocksController   *)
(* and BlocksExtrinsicsController, which share one LRU cache of blocks,    *)
(* with BlocksService.fetchBlock under them.  Each await at which the node *)
(* or another request can get in between is a step boundary.               *)
(*                                                                         *)
(* Of a block only what can differ between two answers for the same hash   *)
(* is kept: the finalized tag and the block whose state the fees were      *)
(* computed in.  Of the options only the three that decide those are kept; *)
(* the others (eventDocs, noFees, ...) are more fields of the same key.    *)
(***************************************************************************)
EXTENDS ChainNode, Sequences

CONSTANTS Requests,   \* the requests clients make, each of them once
          Queries,    \* the queries they may choose from
          Finalizes,  \* options.finalizes of the chain
          CacheMax,   \* the size of the block cache
          None        \* no block

ASSUME CacheAssumption == CacheMax \in Nat \ {0}
ASSUME FinalizesAssumption == Finalizes \in BOOLEAN
ASSUME NoneAssumption == None \notin Blocks

VARIABLES store,     \* blockStore: its entries, the most recently used first
          pc,        \* pc[r]: the await request r is suspended at
          query,     \* query[r]: what r asks
          head,      \* head[r]: finalizedHead in fetchBlock
          block,     \* block[r]: the block object r is building or answers
          fetched,   \* history: r built its block itself, it did not hit
          since      \* history: the finalized head when r arrived

requestVars == <<pc, query, head, block, fetched, since>>

vars == <<best, finalized, store, requestVars>>

HeadQuery == [route : {"head"}, finalized : BOOLEAN]

\* id is a hash or a number; isHex(id) tells which.
BlockQuery == [route : {"block"}, id : Blocks \cup Nat, finalizedKey : BOOLEAN]

ExtrinsicQuery == [route : {"extrinsic"}, id : Blocks \cup Nat]

Query == HeadQuery \cup BlockQuery \cup ExtrinsicQuery

ASSUME QueriesAssumption == Queries # {} /\ Queries \subseteq Query

ByHash(q) == q.route # "head" /\ q.id \in Blocks

Tag == {"absent", "true", "false"}

Block == [hash : Blocks \cup {None}, finalized : Tag, feesAt : Blocks \cup {None}]

NoBlock == [hash |-> None, finalized |-> "absent", feesAt |-> None]

HeadOptions(q) == [checkFinalized     |-> FALSE,
                   queryFinalizedHead |-> Finalizes /\ ~q.finalized,
                   omitFinalizedTag   |-> ~Finalizes]

\* Faulty: a hash is trusted to be canonical, as a number is.
BlockOptionsTrustingHash(q) ==
  [checkFinalized     |-> FALSE,
   queryFinalizedHead |-> Finalizes,
   omitFinalizedTag   |-> ~Finalizes \/ ~q.finalizedKey]

BlockOptions(q) == [checkFinalized     |-> ByHash(q),
                    queryFinalizedHead |-> Finalizes,
                    omitFinalizedTag   |-> ~Finalizes \/ ~q.finalizedKey]

ExtrinsicOptions == [checkFinalized     |-> TRUE,
                     queryFinalizedHead |-> FALSE,
                     omitFinalizedTag   |-> TRUE]

Options(q) == CASE q.route = "head"      -> HeadOptions(q)
                [] q.route = "block"     -> BlockOptions(q)
                [] q.route = "extrinsic" -> ExtrinsicOptions

\* Faulty: a cache keyed by the hash alone.
KeyOfHashOnly(q, hash) == [hash |-> hash]

\* The hash followed by the values of the options.
CacheKey(q, hash) == [hash |-> hash, options |-> Options(q)]

-----------------------------------------------------------------------------
(* The cache, an lru-cache of at most CacheMax entries. *)

Position(s, key) == {i \in DOMAIN s : s[i].key = key}

MoveToFront(s, i, e) ==
  [j \in DOMAIN s |-> IF j = 1 THEN e ELSE IF j <= i THEN s[j - 1] ELSE s[j]]

PushToFront(s, e) ==
  [j \in 1..(IF Len(s) < CacheMax THEN Len(s) + 1 ELSE CacheMax) |->
     IF j = 1 THEN e ELSE s[j - 1]]

Put(s, e) ==
  IF Position(s, e.key) = {}
  THEN PushToFront(s, e)
  ELSE MoveToFront(s, CHOOSE i \in Position(s, e.key) : TRUE, e)

-----------------------------------------------------------------------------
Init == /\ NodeInit
        /\ store = <<>>
        /\ pc = [r \in Requests |-> "idle"]
        /\ query = [r \in Requests |-> CHOOSE q \in Queries : TRUE]
        /\ head = [r \in Requests |-> None]
        /\ block = [r \in Requests |-> NoBlock]
        /\ fetched = [r \in Requests |-> FALSE]
        /\ since = [r \in Requests |-> Genesis]

Goto(r, from, to) == pc[r] = from /\ pc' = [pc EXCEPT ![r] = to]

Arrive(r) ==
  /\ Goto(r, "idle", "resolve")
  /\ \E q \in Queries : query' = [query EXCEPT ![r] = q]
  /\ since' = [since EXCEPT ![r] = finalized]
  /\ UNCHANGED <<best, finalized, store, head, block, fetched>>

HeadHash(q) == IF Finalizes /\ q.finalized THEN finalized ELSE best

\* The block the request is about: getHeader, getFinalizedHead or
\* getHashForBlock.
Resolve(r) ==
  LET q == query[r]
      hash == CASE q.route = "head" -> HeadHash(q)
                [] ByHash(q) -> q.id
                [] OTHER -> GetBlockHash(q.id)
  IN  /\ q.route # "head" /\ ~ByHash(q) => KnowsNumber(q.id)
      /\ Goto(r, "resolve", "lookup")
      /\ block' = [block EXCEPT ![r].hash = hash]
      /\ UNCHANGED <<best, finalized, store, query, head, fetched, since>>

\* getBlockHash rejects for a number above the best block: getHashForBlock
\* asks for the header to word the error, and the request ends either way.
ResolveUnknown(r) ==
  /\ query[r].route # "head" /\ ~ByHash(query[r]) /\ ~KnowsNumber(query[r].id)
  /\ Goto(r, "resolve", "error")
  /\ UNCHANGED <<best, finalized, store, query, head, block, fetched, since>>

\* blockStore.get.  The block handlers answer a hit at once; the extrinsics
\* handler still awaits api.at before it looks for the extrinsic.
Lookup(r) ==
  LET found == Position(store, CacheKey(query[r], block[r].hash))
  IN  /\ IF found = {}
         THEN /\ Goto(r, "lookup", "fetch")
              /\ UNCHANGED <<store, block>>
         ELSE LET i == CHOOSE j \in found : TRUE
              IN  /\ Goto(r, "lookup", IF query[r].route = "extrinsic"
                                       THEN "deliver" ELSE "ok")
                  /\ store' = MoveToFront(store, i, store[i])
                  /\ block' = [block EXCEPT ![r] = store[i].block]
      /\ UNCHANGED <<best, finalized, query, head, fetched, since>>

\* api.at and the Promise.all at the top of fetchBlock.
Fetch(r) ==
  /\ Goto(r, "fetch",
          IF Options(query[r]).omitFinalizedTag THEN "previous" ELSE "tag")
  /\ head' = [head EXCEPT ![r] = IF Options(query[r]).queryFinalizedHead
                                 THEN finalized ELSE block[r].hash]
  /\ fetched' = [fetched EXCEPT ![r] = TRUE]
  /\ UNCHANGED <<best, finalized, store, query, block, since>>

\* The hash getBlockHash answers for the height of the block is its own.
Canonical(hash) == /\ KnowsNumber(Height[hash])
                   /\ GetBlockHash(Height[hash]) = hash

\* Faulty: the finalized head itself is not taken for finalized.
IsBelowFinalizedHead(r) ==
  LET hash == block[r].hash
  IN  /\ Options(query[r]).checkFinalized => Canonical(hash)
      /\ Height[hash] < Height[head[r]]

\* isFinalizedBlock.  By hash, the block must also be the canonical one of
\* its height at this moment; a height above the best block has none.
IsFinalizedBlock(r) ==
  LET hash == block[r].hash
  IN  /\ Options(query[r]).checkFinalized => Canonical(hash)
      /\ Height[hash] <= Height[head[r]]

\* Faulty: the tag says canonical, not finalized.
TagCanonical(r) ==
  /\ Goto(r, "tag", "previous")
  /\ block' = [block EXCEPT ![r].finalized =
                 IF Canonical(block[r].hash) THEN "true" ELSE "false"]
  /\ UNCHANGED <<best, finalized, store, query, head, fetched, since>>

TagFinalized(r) ==
  /\ Goto(r, "tag", "previous")
  /\ block' = [block EXCEPT ![r].finalized =
                 IF IsFinalizedBlock(r) THEN "true" ELSE "false"]
  /\ UNCHANGED <<best, finalized, store, query, head, fetched, since>>

\* fetchPreviousBlockHash asks by number.  The genesis block is returned
\* before fees are looked at.
FetchPrevious(r) ==
  LET hash == block[r].hash
  IN  /\ Goto(r, "previous", "store")
      /\ hash # Genesis => KnowsNumber(Height[hash] - 1)
      /\ block' = [block EXCEPT ![r].feesAt =
                     IF hash = Genesis THEN None
                                       ELSE GetBlockHash(Height[hash] - 1)]
      /\ UNCHANGED <<best, finalized, store, query, head, fetched, since>>

\* blockStore.set, once the fees are known.
Store(r) ==
  /\ Goto(r, "store", IF query[r].route = "extrinsic" THEN "deliver" ELSE "ok")
  /\ store' = Put(store, [key   |-> CacheKey(query[r], block[r].hash),
                          block |-> block[r]])
  /\ UNCHANGED <<best, finalized, query, head, block, fetched, since>>

\* fetchExtrinsicByIndex found the index; Fail(r) covers that it did not.
Deliver(r) ==
  /\ Goto(r, "deliver", "ok")
  /\ UNCHANGED <<best, finalized, store, query, head, block, fetched, since>>

\* An RPC that r awaits rejects, or the answer has no extrinsic of that
\* index; nothing is cached.
Fail(r) ==
  /\ pc[r] \in {"resolve", "fetch", "tag", "previous", "store", "deliver"}
  /\ pc' = [pc EXCEPT ![r] = "error"]
  /\ UNCHANGED <<best, finalized, store, query, head, block, fetched, since>>

Step(r) == \/ Arrive(r) \/ Resolve(r) \/ ResolveUnknown(r) \/ Lookup(r)
           \/ Fetch(r) \/ TagFinalized(r) \/ FetchPrevious(r) \/ Store(r)
           \/ Deliver(r) \/ Fail(r)

Node == NodeNext /\ UNCHANGED <<store, requestVars>>

Next == Node \/ \E r \in Requests : Step(r)

Spec == Init /\ [][Next]_vars

-----------------------------------------------------------------------------
Location == {"idle", "resolve", "lookup", "fetch", "tag", "previous", "store",
             "deliver", "ok", "error"}

Key == [hash : Blocks,
        options : [checkFinalized : BOOLEAN, queryFinalizedHead : BOOLEAN,
                   omitFinalizedTag : BOOLEAN]]

TypeOK ==
  /\ NodeTypeOK
  /\ store \in Seq([key : Key, block : Block]) /\ Len(store) <= CacheMax
  /\ pc \in [Requests -> Location]
  /\ query \in [Requests -> Queries]
  /\ head \in [Requests -> Blocks \cup {None}]
  /\ block \in [Requests -> Block]
  /\ fetched \in [Requests -> BOOLEAN]
  /\ since \in [Requests -> Blocks]

Answered(r) == pc[r] = "ok"

(***************************************************************************)
(* A block asked for by its hash and answered "finalized": true is on the  *)
(* finalized chain, however the node moved while isFinalizedBlock was      *)
(* waiting for its two answers and whoever cached the block.               *)
(***************************************************************************)
ByHashTagSound ==
  \A r \in Requests :
    Answered(r) /\ ByHash(query[r]) /\ block[r].finalized = "true"
      => IsFinal(block[r].hash)

(***************************************************************************)
(* GET /blocks/head without finalized=false answers a finalized block and  *)
(* says so, on a chain that finalizes.                                     *)
(***************************************************************************)
HeadIsFinal ==
  \A r \in Requests :
    Answered(r) /\ Finalizes /\ query[r].route = "head" /\ query[r].finalized
      => IsFinal(block[r].hash) /\ block[r].finalized = "true"

(***************************************************************************)
(* Although fetchPreviousBlockHash asks by number, a block that is said to *)
(* be finalized on the two routes above has its fees computed in the state *)
(* of its own parent.                                                      *)
(***************************************************************************)
FinalFeesAtParent ==
  \A r \in Requests :
    /\ Answered(r)
    /\ block[r].finalized = "true"
    /\ block[r].hash # Genesis
    /\ ByHash(query[r]) \/ (query[r].route = "head" /\ query[r].finalized)
    => block[r].feesAt = Parent(block[r].hash)

(***************************************************************************)
(* Whatever other requests put into the shared cache, an answer is about   *)
(* the block that was asked for and carries a finalized tag exactly if     *)
(* this request's options ask for one.                                     *)
(***************************************************************************)
AnswersTheQuestion ==
  \A r \in Requests :
    LET q == query[r]
    IN  Answered(r) =>
          /\ q.route # "head" =>
               IF ByHash(q) THEN block[r].hash = q.id
                            ELSE Height[block[r].hash] = q.id
          /\ (block[r].finalized = "absent") <=> Options(q).omitFinalizedTag

(***************************************************************************)
(* A request that builds its own block does not call it unfinalized if it  *)
(* was finalized already when the request arrived.                         *)
(***************************************************************************)
FreshTagCurrent ==
  \A r \in Requests :
    Answered(r) /\ fetched[r] /\ block[r].finalized = "false"
      => block[r].hash \notin Chain[since[r]]

(***************************************************************************)
(* BlocksService.isFinalizedBlock: the tag tells "whether or not the       *)
(* queried block is considered finalized at the time of querying", for     *)
(* every request.  A cached block keeps the tag it was stored with.        *)
(***************************************************************************)
TagCurrent ==
  \A r \in Requests :
    Answered(r) /\ block[r].finalized = "false"
      => block[r].hash \notin Chain[since[r]]

(***************************************************************************)
(* BlocksService.isFinalizedBlock: "when we query by number <= finalized   *)
(* head height, we will always get a block on the finalized, canonical     *)
(* chain".  The hash is resolved before the finalized head is read, and    *)
(* the node may leave the branch in between.                               *)
(***************************************************************************)
ByNumberTagSound ==
  \A r \in Requests :
    /\ Answered(r)
    /\ query[r].route = "block" /\ ~ByHash(query[r])
    /\ block[r].finalized = "true"
    => IsFinal(block[r].hash)
=============================================================================
