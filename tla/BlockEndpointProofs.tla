------------------------- MODULE BlockEndpointProofs -------------------------
(***************************************************************************)
(* The safety properties of BlockEndpoint for any block tree, any number   *)
(* of requests and any cache size.                                         *)
(*                                                                         *)
(* The cache is where the argument could break: a request answers with     *)
(* what another one stored, under other options, when the node was         *)
(* elsewhere.  The invariant therefore says of a block what holds of it    *)
(* for the options it was built with (Sound), and says so of every cache   *)
(* entry.  All of it is kept by a node that only extends finality.         *)
(***************************************************************************)
EXTENDS BlockEndpoint, SequenceTheorems, TLAPS

-----------------------------------------------------------------------------
(* Chains of blocks: they form a tree, of which finality is never taken back. *)

\* The chain of an ancestor is part of the chain.
LEMMA ChainsNest ==
  ASSUME NEW b \in Blocks, NEW c \in Chain[b]
  PROVE  c \in Blocks /\ Chain[c] \subseteq Chain[b]
BY ChainAssumption

\* A chain contains everything of a longer one it shares a higher block with.
LEMMA LowerBlocksAreShared ==
  ASSUME NEW tip \in Blocks, NEW b \in Chain[tip], NEW c \in Chain[tip],
         Height[b] <= Height[c]
  PROVE  b \in Chain[c]
BY ChainAssumption

\* A chain has exactly one block at every height up to its tip.
LEMMA BlockAtHeight ==
  ASSUME NEW tip \in Blocks, NEW n \in Nat, n <= Height[tip]
  PROVE  /\ BlockAt(tip, n) \in Chain[tip]
         /\ Height[BlockAt(tip, n)] = n
         /\ \A c \in Chain[tip] : Height[c] = n => c = BlockAt(tip, n)
<1>1. n \in 0..Height[tip]
  BY ChainAssumption
<1>2. \E c \in Chain[tip] : Height[c] = n
  BY <1>1, ChainAssumption
<1>3. BlockAt(tip, n) \in Chain[tip] /\ Height[BlockAt(tip, n)] = n
  BY <1>2 DEF BlockAt
<1> QED BY <1>3, ChainAssumption

\* No block of a chain is higher than its tip.
LEMMA TipIsHighest ==
  ASSUME NEW b \in Blocks, NEW c \in Chain[b]
  PROVE  Height[c] <= Height[b]
<1>1. b \in Chain[b] /\ Chain[b] = {d \in Chain[b] : Height[d] <= Height[b]}
  BY ChainAssumption
<1> QED BY <1>1

\* Only the genesis block has height 0.
LEMMA OthersHaveParent ==
  ASSUME NEW b \in Blocks, b # Genesis
  PROVE  Height[b] \in Nat /\ Height[b] > 0 /\ Height[b] - 1 \in Nat
<1>1. Height[b] \in Nat /\ Height[Genesis] = 0
  BY ChainAssumption
<1>2. Height[b] # 0
  BY <1>1, ChainAssumption
<1> QED BY <1>1, <1>2

\* A block of the chain is a block of the best chain at the same height.
LEMMA CanonicalBlock ==
  ASSUME NodeTypeOK, NEW b \in Chain[best]
  PROVE  KnowsNumber(Height[b]) /\ GetBlockHash(Height[b]) = b
<1>1. best \in Blocks /\ b \in Blocks /\ Height[b] \in Nat
  BY ChainsNest, ChainAssumption DEF NodeTypeOK
<1>2. Height[b] <= Height[best]
  BY <1>1, TipIsHighest
<1>3. \A c \in Chain[best] : Height[c] = Height[b] => c = BlockAt(best, Height[b])
  BY <1>1, <1>2, BlockAtHeight
<1> QED BY <1>2, <1>3 DEF KnowsNumber, GetBlockHash

\* The parent by number is the parent, on the best chain.
LEMMA ParentByNumber ==
  ASSUME NodeTypeOK, NEW b \in Chain[best], b # Genesis
  PROVE  GetBlockHash(Height[b] - 1) = Parent(b)
<1>1. best \in Blocks /\ b \in Blocks /\ Chain[b] \subseteq Chain[best]
  BY ChainsNest DEF NodeTypeOK
<1>2. Height[b] - 1 \in Nat /\ Height[b] \in Nat /\ Height[best] \in Nat
  BY <1>1, OthersHaveParent, ChainAssumption
<1>3. Height[b] <= Height[best]
  BY <1>1, TipIsHighest
<1>4. Parent(b) \in Chain[best] /\ Height[Parent(b)] = Height[b] - 1
  BY <1>1, <1>2, BlockAtHeight DEF Parent
<1>5. \A c \in Chain[best] : Height[c] = Height[b] - 1 => c = BlockAt(best, Height[b] - 1)
  BY <1>1, <1>2, <1>3, BlockAtHeight
<1> QED BY <1>4, <1>5 DEF GetBlockHash

\* The finalized chain is part of the best chain.
LEMMA FinalIsCanonical ==
  ASSUME NodeTypeOK
  PROVE  /\ finalized \in Blocks
         /\ \A b : IsFinal(b) => b \in Chain[best] /\ b \in Blocks
<1>1. finalized \in Blocks /\ Chain[finalized] \subseteq Chain[best] /\ best \in Blocks
  BY ChainsNest DEF NodeTypeOK
<1> QED BY <1>1, ChainsNest DEF IsFinal

\* A canonical block not above a finalized one is final.
LEMMA CanonicalBelowFinal ==
  ASSUME NodeTypeOK, NEW b \in Chain[best], NEW f, IsFinal(f), Height[b] <= Height[f]
  PROVE  IsFinal(b)
<1>1. f \in Chain[best] /\ finalized \in Blocks /\ best \in Blocks
  BY FinalIsCanonical DEF NodeTypeOK
<1>2. b \in Chain[f]
  BY <1>1, LowerBlocksAreShared
<1> QED BY <1>1, <1>2, ChainsNest DEF IsFinal

\* What the node's steps keep.
LEMMA NodeKeeps ==
  ASSUME NodeTypeOK, NodeNext
  PROVE  NodeTypeOK' /\ \A b : IsFinal(b) => IsFinal(b)'
<1>1. CASE NewBest
  BY <1>1 DEF NewBest, NodeTypeOK, IsFinal
<1>2. CASE Finalize
  <2>1. PICK b \in Blocks : /\ finalized \in Chain[b]
                            /\ finalized' = b
                            /\ best' = IF b \in Chain[best] THEN best ELSE b
    BY <1>2 DEF Finalize
  <2>2. b \in Chain[b]
    BY ChainAssumption
  <2>3. NodeTypeOK'
    BY <2>1, <2>2 DEF NodeTypeOK
  <2>4. Chain[finalized] \subseteq Chain[b]
    BY <2>1, ChainsNest
  <2> QED BY <2>1, <2>3, <2>4 DEF IsFinal
<1> QED BY <1>1, <1>2 DEF NodeNext

-----------------------------------------------------------------------------
(* The invariant. *)

OptionsSet == [checkFinalized : BOOLEAN, queryFinalizedHead : BOOLEAN,
               omitFinalizedTag : BOOLEAN]

\* The options GET /blocks/head has when it asks for the finalized head.
ForFinalizedHead(o) == ~o.checkFinalized /\ ~o.queryFinalizedHead /\ ~o.omitFinalizedTag

\* The options under which finalized: true can be relied on.
Reliable(o) == o.checkFinalized \/ ForFinalizedHead(o)

\* What isFinalizedBlock leaves in a block.
TagSound(o, b) ==
  /\ b.hash \in Blocks
  /\ (b.finalized = "absent") <=> o.omitFinalizedTag
  /\ ForFinalizedHead(o) => b.finalized = "true"
  /\ Reliable(o) /\ b.finalized = "true" => IsFinal(b.hash)

FeesSound(o, b) ==
  Reliable(o) /\ b.finalized = "true" /\ b.hash # Genesis => b.feesAt = Parent(b.hash)

Sound(o, b) == TagSound(o, b) /\ FeesSound(o, b)

EntrySound(e) == e.block.hash = e.key.hash /\ Sound(e.key.options, e.block)

\* The request knows the hash it asks about.
Resolved(r) ==
  /\ block[r].hash \in Blocks
  /\ ByHash(query[r]) => block[r].hash = query[r].id
  /\ query[r].route # "head" /\ ~ByHash(query[r]) => Height[block[r].hash] = query[r].id
  /\ ForFinalizedHead(Options(query[r])) => IsFinal(block[r].hash)

\* The finalized head fetchBlock compares with.
HeadRead(r) ==
  /\ head[r] \in Blocks
  /\ Options(query[r]).queryFinalizedHead => IsFinal(head[r]) /\ Height[since[r]] <= Height[head[r]]
  /\ ~Options(query[r]).queryFinalizedHead => head[r] = block[r].hash

NotStale(r) ==
  fetched[r] /\ block[r].finalized = "false" => block[r].hash \notin Chain[since[r]]

RequestInv(r) ==
  /\ IsFinal(since[r])
  /\ pc[r] \in {"idle", "resolve", "lookup", "fetch", "tag"} => block[r].finalized = "absent"
  /\ pc[r] \in {"idle", "resolve", "lookup"} => ~fetched[r]
  /\ pc[r] \notin {"idle", "resolve", "error"} => Resolved(r)
  /\ pc[r] = "tag" => HeadRead(r) /\ ~Options(query[r]).omitFinalizedTag
  /\ pc[r] \in {"previous", "store", "deliver", "ok"} =>
       TagSound(Options(query[r]), block[r]) /\ NotStale(r)
  /\ pc[r] \in {"store", "deliver", "ok"} => FeesSound(Options(query[r]), block[r])

IInv ==
  /\ TypeOK
  /\ \A i \in DOMAIN store : EntrySound(store[i])
  /\ \A r \in Requests : RequestInv(r)

-----------------------------------------------------------------------------
(* Queries and their options. *)

LEMMA QueryCases ==
  ASSUME NEW q \in Queries
  PROVE  /\ q.route \in {"head", "block", "extrinsic"}
         /\ q.route = "head" => q.finalized \in BOOLEAN
         /\ q.route = "block" => q.finalizedKey \in BOOLEAN
         /\ ByHash(q) => q.id \in Blocks
         /\ q.route # "head" /\ ~ByHash(q) => q.id \in Nat
BY QueriesAssumption DEF Query, HeadQuery, BlockQuery, ExtrinsicQuery, ByHash

LEMMA OptionsType ==
  ASSUME NEW q \in Queries
  PROVE  Options(q) \in OptionsSet
BY QueryCases, FinalizesAssumption, Zenon
   DEF Options, HeadOptions, BlockOptions, ExtrinsicOptions, OptionsSet, ByHash

\* Only the route to the finalized head has its options.
LEMMA OptionsCases ==
  ASSUME NEW q \in Queries
  PROVE  /\ ForFinalizedHead(Options(q)) <=> q.route = "head" /\ Finalizes /\ q.finalized
         /\ ByHash(q) => Options(q).checkFinalized
         /\ Options(q).checkFinalized => \/ Options(q).queryFinalizedHead
                                         \/ Options(q).omitFinalizedTag
BY QueryCases, FinalizesAssumption
   DEF Options, HeadOptions, BlockOptions, ExtrinsicOptions, ForFinalizedHead, ByHash

-----------------------------------------------------------------------------
(* The cache. *)

CacheEntry == [key : Key, block : Block]

\* Every entry of t is an entry of s or e itself.
OnlyAdds(t, s, e) == \A j \in DOMAIN t : t[j] = e \/ \E k \in DOMAIN s : t[j] = s[k]

LEMMA MoveToFrontKeeps ==
  ASSUME NEW S, NEW s \in Seq(S), Len(s) <= CacheMax, NEW i \in DOMAIN s, NEW e \in S
  PROVE  /\ MoveToFront(s, i, e) \in Seq(S)
         /\ Len(MoveToFront(s, i, e)) <= CacheMax
         /\ OnlyAdds(MoveToFront(s, i, e), s, e)
<1> DEFINE n == Len(s)
           t == [j \in 1..n |-> IF j = 1 THEN e ELSE IF j <= i THEN s[j - 1] ELSE s[j]]
<1>1. n \in Nat /\ DOMAIN s = 1..n /\ \A j \in 1..n : s[j] \in S
  OBVIOUS
<1>2. \A j \in 1..n : j # 1 => j - 1 \in 1..n
  BY <1>1
<1>3. \A j \in 1..n : t[j] = e \/ \E k \in 1..n : t[j] = s[k]
  BY <1>1, <1>2
<1>4. t \in Seq(S) /\ Len(t) = n
  <2>1. \A j \in 1..n : t[j] \in S
    BY <1>1, <1>3
  <2>2. t \in [1..n -> S]
    BY <2>1
  <2> QED BY <1>1, <2>2
<1>5. MoveToFront(s, i, e) = t
  BY <1>1 DEF MoveToFront
<1> QED BY <1>1, <1>3, <1>4, <1>5 DEF OnlyAdds

LEMMA PushToFrontKeeps ==
  ASSUME NEW S, NEW s \in Seq(S), Len(s) <= CacheMax, NEW e \in S
  PROVE  /\ PushToFront(s, e) \in Seq(S)
         /\ Len(PushToFront(s, e)) <= CacheMax
         /\ OnlyAdds(PushToFront(s, e), s, e)
<1> DEFINE n == IF Len(s) < CacheMax THEN Len(s) + 1 ELSE CacheMax
           t == [j \in 1..n |-> IF j = 1 THEN e ELSE s[j - 1]]
<1>1. Len(s) \in Nat /\ DOMAIN s = 1..Len(s) /\ \A j \in 1..Len(s) : s[j] \in S
  OBVIOUS
<1>2. n \in Nat /\ n <= CacheMax /\ \A j \in 1..n : j # 1 => j - 1 \in 1..Len(s)
  BY <1>1, CacheAssumption
<1>3. \A j \in 1..n : t[j] = e \/ \E k \in 1..Len(s) : t[j] = s[k]
  BY <1>1, <1>2
<1>4. t \in Seq(S) /\ Len(t) = n
  <2>1. \A j \in 1..n : t[j] \in S
    BY <1>1, <1>3
  <2>2. t \in [1..n -> S]
    BY <2>1
  <2> QED BY <1>2, <2>2
<1>5. PushToFront(s, e) = t
  BY DEF PushToFront
<1> HIDE DEF n, t
<1>6. DOMAIN t = 1..n
  BY <1>2, <1>4
<1> QED BY <1>1, <1>2, <1>3, <1>4, <1>5, <1>6 DEF OnlyAdds

LEMMA PutKeeps ==
  ASSUME NEW s \in Seq(CacheEntry), Len(s) <= CacheMax, NEW e \in CacheEntry
  PROVE  /\ Put(s, e) \in Seq(CacheEntry)
         /\ Len(Put(s, e)) <= CacheMax
         /\ OnlyAdds(Put(s, e), s, e)
<1>1. CASE Position(s, e.key) = {}
  BY <1>1, PushToFrontKeeps DEF Put
<1>2. CASE Position(s, e.key) # {}
  <2> DEFINE i == CHOOSE j \in Position(s, e.key) : TRUE
  <2>1. i \in DOMAIN s
    BY <1>2 DEF Position
  <2>2. Put(s, e) = MoveToFront(s, i, e)
    BY <1>2 DEF Put
  <2> QED BY <2>1, <2>2, MoveToFrontKeeps
<1> QED BY <1>1, <1>2

-----------------------------------------------------------------------------
(* What the steps of the node and of other requests leave alone. *)

\* Sound is kept by a node that does not take finality back.
LEMMA SoundStays ==
  ASSUME NEW o, NEW b, \A c : IsFinal(c) => IsFinal(c)'
  PROVE  /\ TagSound(o, b) => TagSound(o, b)'
         /\ FeesSound(o, b) => FeesSound(o, b)'
         /\ Sound(o, b) => Sound(o, b)'
BY DEF TagSound, FeesSound, Sound

\* A request that does not move keeps its invariant.
LEMMA RequestStays ==
  ASSUME NEW r \in Requests, RequestInv(r), \A c : IsFinal(c) => IsFinal(c)',
         pc'[r] = pc[r], query'[r] = query[r], head'[r] = head[r],
         block'[r] = block[r], fetched'[r] = fetched[r], since'[r] = since[r]
  PROVE  RequestInv(r)'
<1>1. /\ Options(query'[r]) = Options(query[r])
      /\ ByHash(query'[r]) <=> ByHash(query[r])
  BY DEF Options, ByHash
<1>2. /\ IsFinal(since[r]) => IsFinal(since[r])'
      /\ IsFinal(head[r]) => IsFinal(head[r])'
      /\ IsFinal(block[r].hash) => IsFinal(block[r].hash)'
  BY DEF IsFinal
<1>3. Resolved(r) => Resolved(r)'
  BY <1>1, <1>2 DEF Resolved, ForFinalizedHead
<1>4. HeadRead(r) => HeadRead(r)'
  BY <1>1, <1>2 DEF HeadRead
<1>5. NotStale(r) => NotStale(r)'
  BY DEF NotStale
<1>6. /\ TagSound(Options(query[r]), block[r]) => TagSound(Options(query[r]), block[r])'
      /\ FeesSound(Options(query[r]), block[r]) => FeesSound(Options(query[r]), block[r])'
  BY <1>1, <1>2 DEF TagSound, FeesSound
<1> QED BY <1>1, <1>2, <1>3, <1>4, <1>5, <1>6 DEF RequestInv

\* A step of request r need only be shown to keep r's own invariant.
LEMMA OthersStay ==
  ASSUME NEW r \in Requests, IInv, UNCHANGED nodeVars,
         TypeOK', RequestInv(r)',
         \A i \in DOMAIN store' : EntrySound(store'[i]),
         \A q \in Requests \ {r} :
           /\ pc'[q] = pc[q] /\ query'[q] = query[q] /\ head'[q] = head[q]
           /\ block'[q] = block[q] /\ fetched'[q] = fetched[q] /\ since'[q] = since[q]
  PROVE  IInv'
<1>1. \A c : IsFinal(c)' <=> IsFinal(c)
  BY DEF IsFinal, nodeVars
<1>2. \A q \in Requests : RequestInv(q)'
  BY <1>1, RequestStays DEF IInv
<1>3. \A i \in DOMAIN store' : EntrySound(store[i])'
  BY <1>1 DEF EntrySound, Sound, TagSound, FeesSound
<1> QED BY <1>2, <1>3 DEF IInv

-----------------------------------------------------------------------------
(* The steps of a request. *)

LEMMA InitEstablishes == Init => IInv
<1> SUFFICES ASSUME Init PROVE IInv
  OBVIOUS
<1>1. Genesis \in Blocks /\ Genesis \in Chain[Genesis]
  BY ChainAssumption
<1>2. TypeOK
  BY <1>1, CacheAssumption, QueriesAssumption
     DEF Init, NodeInit, TypeOK, NodeTypeOK, NoBlock, Block, Tag, Location
<1>3. \A i \in DOMAIN store : EntrySound(store[i])
  BY DEF Init
<1>4. \A r \in Requests : RequestInv(r)
  BY <1>1 DEF Init, NodeInit, RequestInv, NoBlock, IsFinal
<1> QED BY <1>2, <1>3, <1>4 DEF IInv

LEMMA NodePreserves ==
  ASSUME IInv, Node PROVE IInv'
<1>1. NodeTypeOK' /\ \A c : IsFinal(c) => IsFinal(c)'
  BY NodeKeeps DEF IInv, TypeOK, Node
<1>2. TypeOK'
  BY <1>1 DEF IInv, TypeOK, Node, requestVars
<1>3. \A i \in DOMAIN store' : EntrySound(store[i])'
  BY <1>1, SoundStays DEF IInv, EntrySound, Node
<1>4. \A r \in Requests : RequestInv(r)'
  BY <1>1, RequestStays DEF IInv, Node, requestVars
<1> QED BY <1>2, <1>3, <1>4 DEF IInv

LEMMA ArrivePreserves ==
  ASSUME IInv, NEW r \in Requests, Arrive(r) PROVE IInv'
<1> USE DEF IInv
<1>1. TypeOK'
  <2>1. NodeTypeOK' /\ finalized \in Blocks
    BY FinalIsCanonical DEF TypeOK, Arrive, NodeTypeOK
  <2> QED BY <2>1 DEF TypeOK, Arrive, Goto, Location
<1>2. RequestInv(r)'
  <2>1. finalized \in Chain[finalized]
    BY FinalIsCanonical, ChainAssumption DEF TypeOK
  <2>2. pc'[r] = "resolve" /\ since'[r] = finalized
        /\ block'[r] = block[r] /\ fetched'[r] = fetched[r] /\ finalized' = finalized
    BY DEF Arrive, Goto, TypeOK
  <2>3. pc[r] = "idle"
    BY DEF Arrive, Goto
  <2> QED BY <2>1, <2>2, <2>3 DEF RequestInv, IsFinal
<1> QED BY <1>1, <1>2, OthersStay DEF Arrive, Goto, TypeOK, nodeVars

\* The hash of the answer to getFinalizedHead is final, and getBlockHash
\* answers a block of the height asked for.
LEMMA ResolvePreserves ==
  ASSUME IInv, NEW r \in Requests, Resolve(r) PROVE IInv'
<1> USE DEF IInv
<1> DEFINE q == query[r]
           hash == CASE q.route = "head" -> HeadHash(q)
                     [] ByHash(q) -> q.id
                     [] OTHER -> GetBlockHash(q.id)
<1>1. q \in Queries
  BY DEF TypeOK
<1>2. /\ finalized \in Blocks /\ best \in Blocks /\ IsFinal(finalized)
      /\ \A b \in Chain[best] : b \in Blocks
  BY FinalIsCanonical, ChainsNest, ChainAssumption DEF TypeOK, NodeTypeOK, IsFinal
<1>3. /\ hash \in Blocks
      /\ ByHash(q) => hash = q.id
      /\ q.route # "head" /\ ~ByHash(q) => Height[hash] = q.id
      /\ ForFinalizedHead(Options(q)) => IsFinal(hash)
  <2>1. CASE q.route = "head"
    BY <1>1, <1>2, <2>1, OptionsCases DEF ByHash, HeadHash
  <2>2. CASE ByHash(q)
    BY <1>1, <2>2, QueryCases, OptionsCases DEF ByHash
  <2>3. CASE q.route # "head" /\ ~ByHash(q)
    <3>1. hash = BlockAt(best, q.id) /\ q.id \in Nat /\ q.id <= Height[best]
      BY <1>1, <2>3, QueryCases DEF GetBlockHash, Resolve, KnowsNumber
    <3>2. hash \in Chain[best] /\ Height[hash] = q.id
      BY <1>2, <3>1, BlockAtHeight
    <3> QED BY <1>1, <1>2, <2>3, <3>2, OptionsCases
  <2> QED BY <2>1, <2>2, <2>3
<1>4. /\ pc[r] = "resolve" /\ pc' = [pc EXCEPT ![r] = "lookup"]
      /\ block' = [block EXCEPT ![r].hash = hash]
      /\ UNCHANGED <<best, finalized, store, query, head, fetched, since>>
  BY DEF Resolve, Goto
<1> HIDE DEF hash
<1>5. block'[r] = [block[r] EXCEPT !.hash = hash] /\ block[r] \in Block
  BY <1>4 DEF TypeOK
<1>6. block'[r] \in Block /\ block'[r].hash = hash /\ block'[r].finalized = block[r].finalized
  BY <1>3, <1>5 DEF Block
<1>7. TypeOK'
  BY <1>4, <1>6 DEF TypeOK, NodeTypeOK, Location
<1>8. RequestInv(r)'
  <2>1. pc'[r] = "lookup"
    BY <1>4 DEF TypeOK
  <2>2. Resolved(r)'
    BY <1>3, <1>4, <1>6 DEF Resolved, IsFinal, ByHash, Options, ForFinalizedHead
  <2> QED BY <1>4, <1>6, <2>1, <2>2 DEF RequestInv, IsFinal
<1> QED BY <1>4, <1>7, <1>8, OthersStay DEF TypeOK, nodeVars

\* A request that ends in an error has nothing to keep.
LEMMA ErrorPreserves ==
  ASSUME IInv, NEW r \in Requests, ResolveUnknown(r) \/ Fail(r) PROVE IInv'
<1> USE DEF IInv
<1>1. /\ pc' = [pc EXCEPT ![r] = "error"]
      /\ UNCHANGED <<best, finalized, store, query, head, block, fetched, since>>
  BY DEF ResolveUnknown, Fail, Goto
<1>2. TypeOK'
  BY <1>1 DEF TypeOK, NodeTypeOK, Location
<1>3. RequestInv(r)'
  BY <1>1 DEF RequestInv, IsFinal, TypeOK
<1> QED BY <1>1, <1>2, <1>3, OthersStay DEF TypeOK, nodeVars

\* A hit answers a block that is sound for the options of this request: they
\* are part of the key.
LEMMA LookupPreserves ==
  ASSUME IInv, NEW r \in Requests, Lookup(r) PROVE IInv'
<1> USE DEF IInv
<1> DEFINE key == CacheKey(query[r], block[r].hash)
           found == Position(store, key)
           i == CHOOSE j \in found : TRUE
<1>1. pc[r] = "lookup" /\ UNCHANGED <<best, finalized, query, head, fetched, since>>
  BY DEF Lookup, Goto
<1>2. Resolved(r) /\ ~fetched[r] /\ IsFinal(since[r]) /\ block[r].finalized = "absent"
  BY <1>1 DEF RequestInv
<1>3. CASE found = {}
  <2>1. pc' = [pc EXCEPT ![r] = "fetch"] /\ UNCHANGED <<store, block>>
    BY <1>3 DEF Lookup, Goto
  <2>2. TypeOK'
    BY <1>1, <2>1 DEF TypeOK, NodeTypeOK, Location
  <2>3. RequestInv(r)'
    BY <1>1, <1>2, <2>1
       DEF TypeOK, RequestInv, Resolved, IsFinal, ByHash, Options, ForFinalizedHead
  <2> QED BY <1>1, <2>1, <2>2, <2>3, OthersStay DEF TypeOK, nodeVars
<1>4. CASE found # {}
  <2>1. i \in DOMAIN store /\ store[i].key = key
    BY <1>4 DEF Position
  <2>2. /\ pc' = [pc EXCEPT ![r] = IF query[r].route = "extrinsic" THEN "deliver" ELSE "ok"]
        /\ store' = MoveToFront(store, i, store[i])
        /\ block' = [block EXCEPT ![r] = store[i].block]
    BY <1>4 DEF Lookup, Goto
  <2> HIDE DEF i
  <2>3. store \in Seq(CacheEntry) /\ Len(store) <= CacheMax /\ store[i] \in CacheEntry
    <3>1. store \in Seq(CacheEntry) /\ Len(store) <= CacheMax
      BY DEF TypeOK, CacheEntry
    <3> QED BY <2>1, <3>1
  <2>4. /\ store' \in Seq(CacheEntry) /\ Len(store') <= CacheMax
        /\ OnlyAdds(store', store, store[i])
    BY <2>1, <2>2, <2>3, MoveToFrontKeeps
  <2>5. \A j \in DOMAIN store' : EntrySound(store'[j])
    BY <2>1, <2>4 DEF OnlyAdds
  <2>6. TypeOK'
    BY <1>1, <2>2, <2>3, <2>4 DEF TypeOK, NodeTypeOK, Location, CacheEntry
  <2>7. /\ block'[r].hash = block[r].hash
        /\ Sound(Options(query[r]), block'[r])
    BY <2>1, <2>2 DEF TypeOK, EntrySound, CacheKey
  <2>8. Resolved(r)'
    BY <1>1, <1>2, <2>7 DEF Resolved, IsFinal, ByHash, Options, ForFinalizedHead
  <2>9. Sound(Options(query[r]), block[r])'
    BY <1>1, <2>7 DEF Sound, TagSound, FeesSound, IsFinal, Options, ByHash
  <2>10. NotStale(r)'
    BY <1>1, <1>2 DEF NotStale
  <2>11. RequestInv(r)'
    BY <1>1, <1>2, <2>2, <2>8, <2>9, <2>10 DEF TypeOK, RequestInv, Sound, IsFinal
  <2> QED BY <1>1, <2>2, <2>5, <2>6, <2>11, OthersStay DEF TypeOK, nodeVars
<1> QED BY <1>3, <1>4

\* The finalized head is read once the hash is known, so it is at least as
\* high as it was when the request arrived.
LEMMA FetchPreserves ==
  ASSUME IInv, NEW r \in Requests, Fetch(r) PROVE IInv'
<1> USE DEF IInv
<1> DEFINE o == Options(query[r])
<1>1. /\ pc[r] = "fetch"
      /\ pc' = [pc EXCEPT ![r] = IF o.omitFinalizedTag THEN "previous" ELSE "tag"]
      /\ head' = [head EXCEPT ![r] = IF o.queryFinalizedHead THEN finalized ELSE block[r].hash]
      /\ fetched' = [fetched EXCEPT ![r] = TRUE]
      /\ UNCHANGED <<best, finalized, store, query, block, since>>
  BY DEF Fetch, Goto
<1>2. Resolved(r) /\ block[r].finalized = "absent" /\ IsFinal(since[r])
  BY <1>1 DEF RequestInv
<1>3. finalized \in Blocks /\ IsFinal(finalized) /\ Height[since[r]] <= Height[finalized]
  BY <1>2, FinalIsCanonical, TipIsHighest, ChainAssumption DEF TypeOK, IsFinal
<1>4. TypeOK'
  BY <1>1, <1>2, <1>3 DEF TypeOK, NodeTypeOK, Location, Resolved
<1>5. Options(query[r])' = o /\ o \in OptionsSet
  BY <1>1, OptionsType DEF TypeOK, Options, ByHash
<1>6. Resolved(r)'
  BY <1>1, <1>2, <1>5 DEF Resolved, IsFinal, ByHash, ForFinalizedHead
<1>7. HeadRead(r)'
  BY <1>1, <1>2, <1>3, <1>5 DEF HeadRead, TypeOK, Resolved, IsFinal
<1>8. o.omitFinalizedTag => TagSound(Options(query[r]), block[r])' /\ NotStale(r)'
  BY <1>1, <1>2, <1>5 DEF TagSound, NotStale, Resolved, ForFinalizedHead, OptionsSet
<1>9. RequestInv(r)'
  BY <1>1, <1>2, <1>5, <1>6, <1>7, <1>8 DEF TypeOK, RequestInv, IsFinal
<1> QED BY <1>1, <1>4, <1>9, OthersStay DEF TypeOK, nodeVars

\* isFinalizedBlock: a canonical block not above a finalized one is final;
\* a block that was final when the request arrived is both.
LEMMA TagPreserves ==
  ASSUME IInv, NEW r \in Requests, TagFinalized(r) PROVE IInv'
<1> USE DEF IInv
<1> DEFINE o == Options(query[r])
           hash == block[r].hash
           tag == IF IsFinalizedBlock(r) THEN "true" ELSE "false"
<1>1. /\ pc[r] = "tag" /\ pc' = [pc EXCEPT ![r] = "previous"]
      /\ block' = [block EXCEPT ![r].finalized = tag]
      /\ UNCHANGED <<best, finalized, store, query, head, fetched, since>>
  BY DEF TagFinalized, Goto
<1>2. Resolved(r) /\ HeadRead(r) /\ ~o.omitFinalizedTag /\ IsFinal(since[r])
  BY <1>1 DEF RequestInv
<1>3. /\ NodeTypeOK /\ hash \in Blocks /\ best \in Blocks
      /\ Height[hash] \in Nat /\ Height[head[r]] \in Nat /\ since[r] \in Blocks
  BY <1>2, ChainAssumption DEF TypeOK, NodeTypeOK, Resolved, HeadRead
<1>4. /\ block'[r] \in Block
      /\ block'[r].hash = hash /\ block'[r].finalized = tag
  BY <1>1 DEF TypeOK, Block, Tag
<1>5. TypeOK'
  BY <1>1, <1>4 DEF TypeOK, NodeTypeOK, Location
<1>6. o.checkFinalized /\ tag = "true" => IsFinal(hash)
  <2> SUFFICES ASSUME o.checkFinalized, IsFinalizedBlock(r) PROVE IsFinal(hash)
    OBVIOUS
  <2>1. Canonical(hash) /\ Height[hash] <= Height[head[r]]
    BY DEF IsFinalizedBlock
  <2>2. hash \in Chain[best]
    BY <1>3, <2>1, BlockAtHeight DEF Canonical, KnowsNumber, GetBlockHash
  <2>3. CASE o.queryFinalizedHead
    BY <1>2, <1>3, <2>1, <2>2, <2>3, CanonicalBelowFinal DEF HeadRead
  <2>4. CASE ~o.queryFinalizedHead
    BY <1>2, <2>4, OptionsCases DEF TypeOK
  <2> QED BY <2>3, <2>4
<1>7. ForFinalizedHead(o) => tag = "true" /\ IsFinal(hash)
  <2> SUFFICES ASSUME ForFinalizedHead(o) PROVE IsFinalizedBlock(r) /\ IsFinal(hash)
    OBVIOUS
  <2>1. head[r] = hash /\ ~o.checkFinalized
    BY <1>2 DEF HeadRead, ForFinalizedHead
  <2> QED BY <1>2, <1>3, <2>1 DEF IsFinalizedBlock, Resolved
<1>8. tag = "false" => hash \notin Chain[since[r]]
  <2> SUFFICES ASSUME hash \in Chain[since[r]] PROVE IsFinalizedBlock(r)
    OBVIOUS
  <2>1. hash \in Chain[best] /\ Height[hash] <= Height[since[r]]
    <3>1. finalized \in Blocks /\ since[r] \in Chain[finalized]
      BY <1>2, <1>3, FinalIsCanonical DEF IsFinal
    <3>2. IsFinal(hash)
      BY <3>1, ChainsNest DEF IsFinal
    <3> QED BY <1>3, <3>2, FinalIsCanonical, TipIsHighest
  <2>2. Canonical(hash)
    BY <1>3, <2>1, CanonicalBlock DEF Canonical
  <2>3. Height[hash] <= Height[head[r]]
    BY <1>2, <1>3, <2>1, ChainAssumption DEF HeadRead
  <2> QED BY <2>2, <2>3 DEF IsFinalizedBlock
<1>9. Options(query[r])' = o
  BY <1>1 DEF Options, ByHash
<1>10. TagSound(Options(query[r]), block[r])'
  BY <1>1, <1>2, <1>3, <1>4, <1>6, <1>7, <1>9 DEF TagSound, Reliable, IsFinal
<1>11. NotStale(r)'
  BY <1>1, <1>4, <1>8 DEF NotStale
<1>12. Resolved(r)'
  BY <1>1, <1>2, <1>4, <1>9 DEF Resolved, IsFinal, ByHash
<1>13. RequestInv(r)'
  BY <1>1, <1>2, <1>10, <1>11, <1>12 DEF TypeOK, RequestInv, IsFinal
<1> QED BY <1>1, <1>5, <1>13, OthersStay DEF TypeOK, nodeVars

\* Fees of a final block are computed in its parent's state: the parent is
\* final, so it is what getBlockHash answers for its height.
LEMMA FetchPreviousPreserves ==
  ASSUME IInv, NEW r \in Requests, FetchPrevious(r) PROVE IInv'
<1> USE DEF IInv
<1> DEFINE o == Options(query[r])
           hash == block[r].hash
           at == IF hash = Genesis THEN None ELSE GetBlockHash(Height[hash] - 1)
<1>1. /\ pc[r] = "previous" /\ pc' = [pc EXCEPT ![r] = "store"]
      /\ hash # Genesis => KnowsNumber(Height[hash] - 1)
      /\ block' = [block EXCEPT ![r].feesAt = at]
      /\ UNCHANGED <<best, finalized, store, query, head, fetched, since>>
  BY DEF FetchPrevious, Goto
<1>2. /\ Resolved(r) /\ TagSound(o, block[r]) /\ NotStale(r) /\ IsFinal(since[r])
      /\ hash \in Blocks /\ NodeTypeOK /\ best \in Blocks
  BY <1>1 DEF RequestInv, Resolved, TypeOK, NodeTypeOK
<1>3. at \in Blocks \cup {None}
  <2>1. CASE hash = Genesis
    BY <2>1
  <2>2. CASE hash # Genesis
    <3>1. Height[hash] - 1 \in Nat /\ Height[hash] - 1 <= Height[best]
      BY <1>1, <1>2, <2>2, OthersHaveParent DEF KnowsNumber
    <3> QED BY <1>2, <2>2, <3>1, BlockAtHeight, ChainsNest DEF GetBlockHash
  <2> QED BY <2>1, <2>2
<1> HIDE DEF at
<1>4. /\ block'[r] \in Block /\ block'[r].feesAt = at
      /\ block'[r].hash = hash /\ block'[r].finalized = block[r].finalized
  BY <1>1, <1>3 DEF TypeOK, Block
<1>5. TypeOK'
  BY <1>1, <1>4 DEF TypeOK, NodeTypeOK, Location
<1>6. Options(query[r])' = o
  BY <1>1 DEF Options, ByHash
<1>7. FeesSound(o, block'[r])
  <2> SUFFICES ASSUME Reliable(o), block[r].finalized = "true", hash # Genesis
               PROVE  at = Parent(hash)
    BY <1>4 DEF FeesSound
  <2>1. hash \in Chain[best]
    BY <1>2, FinalIsCanonical DEF TagSound
  <2> QED BY <1>2, <2>1, ParentByNumber DEF at
<1>8. FeesSound(Options(query[r]), block[r])'
  BY <1>6, <1>7 DEF FeesSound
<1>9. TagSound(Options(query[r]), block[r])' /\ NotStale(r)' /\ Resolved(r)'
  BY <1>1, <1>2, <1>4, <1>6 DEF TagSound, NotStale, Resolved, IsFinal, ByHash
<1>10. RequestInv(r)'
  BY <1>1, <1>2, <1>8, <1>9 DEF TypeOK, RequestInv, IsFinal
<1> QED BY <1>1, <1>5, <1>10, OthersStay DEF TypeOK, nodeVars

\* The block is stored under the options it was built with.
LEMMA StorePreserves ==
  ASSUME IInv, NEW r \in Requests, Store(r) PROVE IInv'
<1> USE DEF IInv
<1> DEFINE e == [key |-> CacheKey(query[r], block[r].hash), block |-> block[r]]
<1>1. /\ pc[r] = "store"
      /\ pc' = [pc EXCEPT ![r] = IF query[r].route = "extrinsic" THEN "deliver" ELSE "ok"]
      /\ store' = Put(store, e)
      /\ UNCHANGED <<best, finalized, query, head, block, fetched, since>>
  BY DEF Store, Goto
<1>2. Resolved(r) /\ Sound(Options(query[r]), block[r])
  BY <1>1 DEF RequestInv, Sound
<1>3. e \in CacheEntry /\ EntrySound(e)
  <2>1. Options(query[r]) \in OptionsSet
    BY OptionsType DEF TypeOK
  <2>2. e.key \in Key
    BY <1>2, <2>1 DEF CacheKey, Key, OptionsSet, Resolved
  <2>3. e \in CacheEntry
    BY <2>2 DEF CacheEntry, TypeOK
  <2> QED BY <1>2, <2>3 DEF EntrySound, CacheKey
<1> HIDE DEF e
<1>4. /\ store' \in Seq(CacheEntry) /\ Len(store') <= CacheMax
      /\ OnlyAdds(store', store, e)
  <2>1. store \in Seq(CacheEntry) /\ Len(store) <= CacheMax
    BY DEF TypeOK, CacheEntry
  <2> QED BY <1>1, <1>3, <2>1, PutKeeps
<1>5. \A j \in DOMAIN store' : EntrySound(store'[j])
  BY <1>3, <1>4 DEF OnlyAdds
<1>6. TypeOK'
  BY <1>1, <1>4 DEF TypeOK, NodeTypeOK, Location, CacheEntry
<1>7. RequestInv(r)'
  BY <1>1 DEF TypeOK, RequestInv, Resolved, TagSound, FeesSound, NotStale, IsFinal,
              Options, ByHash, ForFinalizedHead
<1> QED BY <1>1, <1>5, <1>6, <1>7, OthersStay DEF TypeOK, nodeVars

LEMMA DeliverPreserves ==
  ASSUME IInv, NEW r \in Requests, Deliver(r) PROVE IInv'
<1> USE DEF IInv
<1>1. /\ pc[r] = "deliver" /\ pc' = [pc EXCEPT ![r] = "ok"]
      /\ UNCHANGED <<best, finalized, store, query, head, block, fetched, since>>
  BY DEF Deliver, Goto
<1>2. TypeOK'
  BY <1>1 DEF TypeOK, NodeTypeOK, Location
<1>3. RequestInv(r)'
  BY <1>1 DEF TypeOK, RequestInv, Resolved, TagSound, FeesSound, NotStale, IsFinal,
              Options, ByHash, ForFinalizedHead
<1> QED BY <1>1, <1>2, <1>3, OthersStay DEF TypeOK, nodeVars

LEMMA StepPreserves == IInv /\ [Next]_vars => IInv'
<1> SUFFICES ASSUME IInv, [Next]_vars PROVE IInv'
  OBVIOUS
<1>1. CASE UNCHANGED vars
  <2>1. TypeOK'
    BY <1>1 DEF IInv, TypeOK, NodeTypeOK, vars, requestVars
  <2>2. \A c : IsFinal(c)' <=> IsFinal(c)
    BY <1>1 DEF IsFinal, vars
  <2>3. \A i \in DOMAIN store' : EntrySound(store[i])'
    BY <1>1, <2>2, SoundStays DEF IInv, EntrySound, vars
  <2>4. \A r \in Requests : RequestInv(r)'
    BY <1>1, <2>2, RequestStays DEF IInv, vars, requestVars
  <2> QED BY <2>1, <2>3, <2>4 DEF IInv
<1>2. CASE Node
  BY <1>2, NodePreserves
<1>3. ASSUME NEW r \in Requests, Step(r) PROVE IInv'
  BY <1>3, ArrivePreserves, ResolvePreserves, ErrorPreserves, LookupPreserves,
     FetchPreserves, TagPreserves, FetchPreviousPreserves, StorePreserves,
     DeliverPreserves DEF Step
<1> QED BY <1>1, <1>2, <1>3 DEF Next

-----------------------------------------------------------------------------
(* The theorems. *)

\* The inductive invariant of the block routes.
THEOREM BlockInvariant == Spec => []IInv
BY InitEstablishes, StepPreserves, PTL DEF Spec

\* The cache never exceeds its size and no handler mixes up its state.
THEOREM TypeCorrect == Spec => []TypeOK
<1>1. IInv => TypeOK
  BY DEF IInv
<1> QED BY <1>1, BlockInvariant, PTL

\* What GET /blocks/{hash} calls finalized is final, in every block tree.
THEOREM ByHashTagIsSound == Spec => []ByHashTagSound
<1>1. IInv => ByHashTagSound
  BY OptionsCases DEF IInv, TypeOK, RequestInv, TagSound, Reliable, ByHashTagSound, Answered
<1> QED BY <1>1, BlockInvariant, PTL

\* GET /blocks/head answers a final block and says so.
THEOREM HeadIsAlwaysFinal == Spec => []HeadIsFinal
<1>1. IInv => HeadIsFinal
  BY OptionsCases
     DEF IInv, TypeOK, RequestInv, Resolved, TagSound, HeadIsFinal, Answered
<1> QED BY <1>1, BlockInvariant, PTL

\* The fees of a block said to be final are those of its parent's state.
THEOREM FinalFeesAreAtParent == Spec => []FinalFeesAtParent
<1>1. IInv => FinalFeesAtParent
  <2> SUFFICES ASSUME IInv, NEW r \in Requests, Answered(r),
                      block[r].finalized = "true", block[r].hash # Genesis,
                      ByHash(query[r]) \/ (query[r].route = "head" /\ query[r].finalized)
               PROVE  block[r].feesAt = Parent(block[r].hash)
    BY DEF FinalFeesAtParent
  <2>1. /\ query[r] \in Queries
        /\ TagSound(Options(query[r]), block[r]) /\ FeesSound(Options(query[r]), block[r])
    BY DEF IInv, TypeOK, RequestInv, Answered
  <2>2. ~Options(query[r]).omitFinalizedTag
    BY <2>1 DEF TagSound
  <2>3. Reliable(Options(query[r]))
    BY <2>1, <2>2, OptionsCases
       DEF Reliable, ForFinalizedHead, Options, HeadOptions, BlockOptions, ByHash
  <2> QED BY <2>1, <2>3 DEF FeesSound
<1> QED BY <1>1, BlockInvariant, PTL

\* A cached answer is an answer to the same question.
THEOREM AnswersAreToTheQuestion == Spec => []AnswersTheQuestion
<1>1. IInv => AnswersTheQuestion
  BY DEF IInv, RequestInv, Resolved, TagSound, AnswersTheQuestion, Answered
<1> QED BY <1>1, BlockInvariant, PTL

\* A request that builds its block does not miss finality it arrived after.
THEOREM FreshTagIsCurrent == Spec => []FreshTagCurrent
<1>1. IInv => FreshTagCurrent
  BY DEF IInv, RequestInv, NotStale, FreshTagCurrent, Answered
<1> QED BY <1>1, BlockInvariant, PTL
=============================================================================
