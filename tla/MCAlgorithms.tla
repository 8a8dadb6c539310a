----------------------------- MODULE MCAlgorithms -----------------------------
(***************************************************************************)
(* The computations of the services over bounded inputs: a behaviour picks *)
(* one input of one computation.                                            *)
(***************************************************************************)
EXTENDS Algorithms, Rendering

CONSTANTS alice, bob  \* accounts

\* The Asset Hub migrates in blocks 2 to 3, the relay chain in 4 to 5.
MCBoundary == [hubStart |-> 2, hubEnd |-> 4, relayStart |-> 4, relayEnd |-> 6]

Computations == {"vesting", "paras", "staking", "trace", "coretime", "amounts", "blocks",
                 "pallets", "holdings", "rendering", "requests", "listings"}

Init == input \in [kind : {"none"}, of : Computations]

Begin(computation) == Is("none") /\ input.of = computation

-----------------------------------------------------------------------------
(* Vesting: an Asset Hub block whose relay parent is 8 is included once; the  *)
(* search covers the blocks 9 to 13 in batches of two.                        *)

MCSchedules == {<<[locked |-> 6, perBlock |-> 2, startingBlock |-> s]>> : s \in {0, 8, 10}}
                 \cup {<<[locked |-> 6, perBlock |-> 2, startingBlock |-> 0],
                         [locked |-> 5, perBlock |-> 1, startingBlock |-> 9]>>}

PickHubVesting ==
  \E schedules \in MCSchedules, lock \in {4, 11}, number \in {1, 3, 4}, included \in 9..14,
     unread \in SUBSET (9..13), connected \in BOOLEAN, known \in BOOLEAN,
     chain \in {"assetHub", "otherHub"} :
    /\ chain = "otherHub" => unread = {}
    /\ input' = [kind |-> "vesting",
                 request |-> [chain |-> chain, number |-> number, schedules |-> schedules,
                              lock |-> lock, known |-> IF known THEN included ELSE Null,
                              connected |-> connected, parent |-> 8, included |-> {included},
                              unread |-> unread]]

PickChainVesting ==
  \E schedules \in MCSchedules, lock \in {0, 5, 11}, number \in 0..14,
     chain \in {"relay", "other"} :
    input' = [kind |-> "vesting",
              request |-> [chain |-> chain, number |-> number, schedules |-> schedules,
                           lock |-> lock, known |-> Null, connected |-> FALSE, parent |-> 0,
                           included |-> {}, unread |-> {}]]

-----------------------------------------------------------------------------
(* Paras: lease periods of 4 blocks from block 3 on; auctions that end over   *)
(* 6 blocks in samples of 2, with 3 lease periods for a slot.                 *)

PickLeases ==
  \E now \in 0..14, length \in 0..3 : \E leases \in [1..length -> {alice, bob, Null}] :
    input' = [kind |-> "leases", now |-> now, leases |-> leases]

\* Every sample has a bid for each range, the last one made in that sample.
PickAuction ==
  \E now \in 0..14, beginEnd \in 3..6, first \in 0..2 :
    input' = [kind |-> "auction", now |-> now, auction |-> <<first, beginEnd>>,
              winningAt |-> [sample \in 0..2 |-> [k \in 1..6 |-> <<sample, k>>]]]

PickNoAuction ==
  \E now \in 0..14 :
    input' = [kind |-> "auction", now |-> now, auction |-> Null, winningAt |-> <<>>]

-----------------------------------------------------------------------------
(* Staking progress: sessions of 3 slots and eras of 2 sessions; the epochs   *)
(* of four sessions in a row, of which any may have been skipped.             *)

PickProgress ==
  \E epochs \in [1..4 -> 0..6], session \in 0..3, inEpoch \in 0..2, eraStart \in 0..3,
     forceAlways \in BOOLEAN :
    /\ \A s \in 1..3 : epochs[s] < epochs[s + 1]
    /\ eraStart <= session
    /\ input' = [kind |-> "progress", epochs |-> epochs, session |-> session,
                 inEpoch |-> inEpoch, eraStart |-> eraStart, forceAlways |-> forceAlways]

-----------------------------------------------------------------------------
(* Claimed rewards of the eras 2 to 5.  In the history of a validator it has   *)
(* two pages, one that changes with the era, or no exposure at all; its old    *)
(* list ends before the range, in it, or with it.                              *)

MCHistory(pattern) ==
  LET by(f(_)) == [e \in 0..7 |-> f(e)]
  IN  CASE pattern = "pages" ->
             [pages |-> by(LAMBDA e : 2), total |-> by(LAMBDA e : FALSE),
              claimed |-> by(LAMBDA e : IF e < 3 THEN {0, 1} ELSE IF e = 3 THEN {0} ELSE {}),
              page |-> by(LAMBDA e : 1)]
        [] pattern = "mixed" ->
             [pages |-> by(LAMBDA e : IF e = 4 THEN 3 ELSE 0), total |-> by(LAMBDA e : e < 3),
              claimed |-> by(LAMBDA e : IF e = 4 THEN {1} ELSE {0}),
              page |-> by(LAMBDA e : IF e = 4 THEN 1 ELSE Null)]
        [] pattern = "none" ->
             [pages |-> by(LAMBDA e : 0), total |-> by(LAMBDA e : FALSE),
              claimed |-> by(LAMBDA e : {}), page |-> by(LAMBDA e : Null)]

MCLegacies == {<<>>, <<0, 1>>, <<0, 1, 2>>, <<1, 3>>, <<4>>, <<3, 5>>}

MCValidator(pattern, legacy, bonded) ==
  [legacy |-> legacy, bonded |-> bonded] @@ MCHistory(pattern)

PickClaims ==
  \E hub, isValidator \in BOOLEAN, claims \in ClaimsStorages \cup {Null},
     own \in {<<>>, <<0>>, <<1, 4>>, <<0, 1, 2, 3>>},
     pattern1, pattern2 \in {"pages", "mixed", "none"}, legacy1 \in MCLegacies,
     legacy2 \in {<<>>, <<2>>}, bonded \in BOOLEAN, count \in 0..2 :
    /\ isValidator => bonded /\ count = 0 /\ pattern2 = "none" /\ legacy1 = <<>> /\ legacy2 = <<>>
    /\ ~isValidator /\ count < 2 => pattern2 = "none" /\ legacy2 = <<>>
    /\ ~isValidator /\ count = 0 => pattern1 = "none" /\ legacy1 = <<>>
    /\ input' = [kind |-> "claims", request |->
                   [hub |-> hub, claims |-> claims, start |-> 2, depth |-> 4,
                    isValidator |-> isValidator, legacy |-> own,
                    own |-> MCValidator(pattern1, own, TRUE),
                    targets |-> SubSeq(<<MCValidator(pattern1, legacy1, bonded),
                                         MCValidator(pattern2, legacy2, TRUE)>>, 1, count)]]

-----------------------------------------------------------------------------
(* Traces: execute_block, and three spans below it in any tree, of which the  *)
(* children of execute_block are extrinsics or hooks.  Every extrinsic reads  *)
(* its index in its own span, and perhaps in those below, where it may be     *)
(* another; then two accounts are accessed in any spans.                      *)

MCTrees == {p \in [2..4 -> 1..4] : \A id \in 2..4 :
              p[id] # id /\ (p[id] = 1 \/ p[p[id]] = 1 \/ (p[p[id]] # id /\ p[p[p[id]]] = 1))}

MCSpans(parents, extrinsics) ==
  LET span(id) == [id |-> id, parent |-> parents[id],
                   name |-> IF id \in extrinsics THEN "apply_extrinsic" ELSE "on_initialize"]
  IN  <<span(4), [id |-> 1, parent |-> 0, name |-> "execute_block"], span(2), span(3)>>

\* ids: the spans that read an index, each its own or that of the extrinsic.
MCIndexReads(ids, ReadBy(_)) ==
  [i \in 1..Cardinality(ids) |->
     LET id == SetToSortSeq(ids, LAMBDA x, y : x < y)[i]
     IN  [span |-> id, path |-> "index", index |-> ReadBy(id)]]

MCAccess(span, address, free) ==
  [span |-> span, path |-> "account", address |-> address,
   data |-> [f \in Fields |-> IF f = "free" THEN free ELSE IF f = "reserved" THEN -free ELSE 0]]

PickTrace ==
  \E parents \in MCTrees, spans \in [1..3 -> 1..4], access \in {<<alice, 3>>, <<alice, 7>>, <<bob, 7>>},
     reads \in {"above", "all", "mixed"} :
    LET primaries == {id \in 2..4 : parents[id] = 1}
        rootOf(id) == CHOOSE p \in primaries : p \in {id, parents[id]}
                                                \/ (parents[id] # 1 /\ p = parents[parents[id]])
    IN  \E extrinsics \in SUBSET primaries :
          LET below == {id \in 2..4 : rootOf(id) \in extrinsics}
          IN  /\ reads # "above" => below # extrinsics
              /\ input' =
                   [kind |-> "trace", trace |->
                      [spans |-> MCSpans(parents, extrinsics),
                       events |-> MCIndexReads(IF reads = "above" THEN extrinsics ELSE below,
                                               LAMBDA id : IF reads = "all" THEN rootOf(id) ELSE id)
                                    \o <<MCAccess(spans[1], alice, 3),
                                         MCAccess(spans[2], access[1], access[2]),
                                         MCAccess(spans[3], alice, 5)>>]]

-----------------------------------------------------------------------------
(* Coretime *)

MCConfig == [regionLength |-> 6, interludeLength |-> 1]

PickSale ==
  \E length \in 0..7, price \in {0, 1, 7}, start \in 0..2, now \in 0..8, committed \in 0..13 :
    input' = [kind |-> "sale", now |-> now, committed |-> committed, config |-> MCConfig,
              sale |-> [saleStart |-> start, leadinLength |-> length, endPrice |-> price,
                        regionBegin |-> 12]]

Items(tasks) == {[core |-> core, task |-> task] : core \in {1, 2}, task \in tasks}

PickCores ==
  \E w1, w2 \in Items({"2000", "Pool", Null}), plan \in Items({"2000", "Pool"}),
     leased, reserved \in SUBSET {"2000", "Pool"} :
    /\ w1.core # w2.core /\ "Pool" \notin leased
    /\ input' = [kind |-> "cores", workload |-> <<w1, w2>>, workplan |-> <<plan>>,
                 leases |-> [k \in 1..Cardinality(leased) |-> [task |-> "2000", until |-> 9]],
                 reservations |-> [k \in 1..Cardinality(reserved) |->
                                     [task |-> SetToSeq(reserved)[k], mask |-> "ff"]],
                 regions |-> <<[core |-> 2]>>]

MCTasks == {<<"2", "0">>, <<"2", "0", "0">>, <<"7">>}

PickCoreLeases ==
  \E t1, t2 \in MCTasks \cup {<<"I">>, Null}, l1, l2 \in MCTasks, swap, hasBroker \in BOOLEAN :
    /\ l1 # l2
    /\ input' = [kind |-> "coreleases", hasBroker |-> hasBroker,
                 workload |-> IF swap THEN <<[core |-> 2, task |-> t2], [core |-> 1, task |-> t1]>>
                              ELSE <<[core |-> 1, task |-> t1], [core |-> 2, task |-> t2]>>,
                 leases |-> <<[task |-> l1, until |-> 7], [task |-> l2, until |-> 9]>>]

PickRelayCores ==
  \E first, second \in {<<>>, <<"1000">>, <<"1000", "Pool">>, <<"Idle", "2000">>} :
    input' = [kind |-> "relaycores", paras |-> <<"2000", "1000", "3000">>,
              descriptors |-> <<[tasks |-> first], [tasks |-> second]>>]

-----------------------------------------------------------------------------
(* Amounts, with a hundred parts to one. *)

PickPayout ==
  \E payout \in {0, 7, 1000}, points \in {0, 1, 3}, percent \in {0, 3, 50, 100, 101},
     exposures \in [1..3 -> {0, 1, 5, 9}] :
    input' = [kind |-> "payout", era |-> [points |-> 3, payout |-> payout],
              validator |-> [points |-> points, percent |-> percent,
                             total |-> exposures[1] + exposures[2] + exposures[3]],
              exposures |-> exposures]

PickPending ==
  \E class1, class2 \in {"normal", "operational", "mandatory"}, tip1, tip2 \in {0, 1, 4},
     fee1, fee2 \in {Null, 2}, weight \in {0, 3, 10, 12}, length \in {1, 4, 9} :
    LET pending(class, tip, fee) ==
          [class |-> class, tip |-> tip, weight |-> weight, length |-> length,
           inclusionFee |-> fee]
    IN  input' = [kind |-> "pending", first |-> pending(class1, tip1, fee1),
                  second |-> pending(class2, tip2, fee2),
                  limits |-> [weight |-> 10, length |-> 8, multiplier |-> 5]]

-----------------------------------------------------------------------------
(* Blocks of up to two extrinsics and three events, some of an extrinsic that *)
(* the block does not have, under versions on both sides of the comparison.   *)

MCEvent(phase, index, pallet, method, paysFee) ==
  [phase |-> phase, index |-> index, pallet |-> pallet, method |-> method, paysFee |-> paysFee]

MCEvents ==
  {MCEvent("ApplyExtrinsic", i, "system", method, fee) :
     i \in 0..1, method \in Completions, fee \in {<<>>, <<"Yes">>, <<"false", "No">>}}
    \cup {MCEvent("ApplyExtrinsic", i, pallet, "Moved", <<"true">>) :
            i \in {0, 2}, pallet \in {"balances", "multiBlockMigrations"}}
    \cup {MCEvent(hook, 0, "system", "Moved", <<>>) : hook \in {"Initialization", "Finalization"}}

PickEvents ==
  \E version \in {9430, 1002000, 1020000}, extrinsics \in {<<TRUE>>, <<TRUE, FALSE>>},
     count \in 0..3 : \E chosen \in [1..count -> MCEvents] :
    input' = [kind |-> "events", version |-> version, events |-> chosen,
              extrinsics |-> [i \in DOMAIN extrinsics |-> [signed |-> extrinsics[i]]]]

PickNoEvents ==
  \E version \in {9430, 1002000} :
    input' = [kind |-> "events", version |-> version, events |-> Null,
              extrinsics |-> <<[signed |-> TRUE]>>]

\* Messages of up to two instructions; Null cannot be decoded.
MCMessages == {<<>>, <<<<"a">>>>, <<<<"a">>, <<"b", "c">>>>, <<Null>>}

PickRelayMessages ==
  \E paraId \in {Null, 0, 1000, 2000}, first, second \in {1000, 2000},
     upward1, upward2 \in MCMessages, sent1, sent2 \in MCMessages :
    LET candidate(para, upward, sent) ==
          [para |-> para, upward |-> upward,
           horizontal |-> [i \in DOMAIN sent |-> [to |-> 3000, msg |-> sent[i]]]]
    IN  input' = [kind |-> "messages", isRelay |-> TRUE, paraId |-> paraId,
                  inherent |-> <<candidate(first, upward1, sent1),
                                 candidate(second, upward2, sent2)>>]

PickParachainMessages ==
  \E paraId \in {Null, 0, 1000, 2000}, downward, sent1, sent2 \in MCMessages :
    LET from(para, sent) == [i \in DOMAIN sent |-> [from |-> para, msg |-> sent[i]]]
    IN  input' = [kind |-> "messages", isRelay |-> FALSE, paraId |-> paraId,
                  inherent |-> [downward |-> downward,
                                horizontal |-> from(1000, sent1) \o from(2000, sent2)]]

-----------------------------------------------------------------------------
(* Metadata of three pallets, numbered or not, each of which may lack a field; *)
(* the items of the first, with and without a gap in their indices, at the     *)
(* block and at the head.                                                      *)

MCItems(names, indices) == [k \in DOMAIN names |-> [name |-> names[k], index |-> indices[k]]]

MCPallet(name, index, Lacks(_), items) ==
  [name |-> name, index |-> index,
   items |-> [field \in ItemFields |-> IF Lacks(field) THEN Null ELSE items]]

MCIds == {ById(n) : n \in 0..7 \cup {255}}
           \cup {[name |-> name, number |-> Null] : name \in {"system", "balances", "none"}}

PickPallet ==
  \E lacks1, lacks2 \in SUBSET {"storage", "errors", "calls"}, numbered \in BOOLEAN,
     name \in {"system", "balances", "staking", "none"} :
    LET index(n) == IF numbered THEN n ELSE NoIndex
        items == MCItems(<<"a">>, <<0>>)
    IN  input' = [kind |-> "pallet", name |-> name, metadata |->
                    <<MCPallet("system", index(0), LAMBDA f : f \in lacks1, items),
                      MCPallet("balances", index(5), LAMBDA f : f \in lacks2, items),
                      MCPallet("staking", index(7), LAMBDA f : FALSE, items)>>]

MCItemLists == {<<>>, MCItems(<<"a">>, <<0>>), MCItems(<<"a", "b">>, <<0, 1>>),
                MCItems(<<"a", "b">>, <<0, 2>>), MCItems(<<"b", "c">>, <<1, 0>>)}

PickItem ==
  \E items, atHead \in MCItemLists \cup {Null}, id \in MCIds, name \in {"a", "b", "c", "d"},
     exact, removed \in BOOLEAN, field \in ItemFields, first \in {"other", "system"} :
    /\ field # "calls" => atHead = items /\ ~removed
    /\ removed => atHead = Null
    /\ LET pallet(its) == MCPallet("system", 5, LAMBDA f : its = Null, its)
           other == MCPallet("balances", 7, LAMBDA f : FALSE, MCItems(<<"d">>, <<0>>))
           pallets(its) == IF first = "other" THEN <<other, pallet(its)>>
                           ELSE <<pallet(its), other>>
       IN  input' = [kind |-> "item", metadata |-> pallets(items),
                     head |-> IF removed THEN <<other>> ELSE pallets(atHead),
                     palletId |-> id, itemId |-> [name |-> name, exact |-> exact],
                     field |-> field]

-----------------------------------------------------------------------------
(* An account with up to two locks, in runtimes of each shape; assets; and     *)
(* addresses of two accounts in every spelling.                                *)

MCLocks == {<<>>} \cup {<<[amount |-> 4, until |-> u]>> : u \in {Null, 3}}
             \cup {<<[amount |-> 4, until |-> Null], [amount |-> MaxAmount, until |-> u]>> :
                      u \in {Null, 3, 5}}

MCData(shape, free, reserved, frozen) ==
  [free |-> free, reserved |-> reserved] @@
    (IF shape = "old" THEN [miscFrozen |-> frozen, feeFrozen |-> frozen]
     ELSE [frozen |-> frozen])

PickBalance ==
  \E runtime \in {"freeBalance", "withoutAt", "modern"}, shape \in {"old", "new"},
     free \in {0, 4, 5, 12, 240}, reserved \in {0, 3}, frozen \in {0, 4, 9}, locks \in MCLocks,
     head \in {Null, 3, 4}, token \in {"dot", "orml", "none"}, decimals \in {Null, 0, 1, 3},
     unread \in BOOLEAN :
    /\ unread => free = 0 /\ reserved = 0
    /\ runtime = "freeBalance" => shape = "old" /\ frozen = 0
    /\ input' = [kind |-> "balance", head |-> head, token |-> token, at |->
                   [runtime |-> runtime, unread |-> unread, native |-> "dot",
                    data |-> MCData(shape, free, reserved, frozen), locks |-> locks,
                    existentialDeposit |-> 1,
                    decimals |-> IF decimals = Null THEN <<>> ELSE [t \in {"dot"} |-> decimals],
                    tokens |-> [t \in {"orml"} |-> [data |-> MCData("new", 7, 1, frozen),
                                                  locks |-> <<>>]]]]

PickDenomination ==
  \E balance \in {0, 1, 5, 10, 12, 99, 100, 240, 1000}, decimals \in {Null} \cup 0..5 :
    input' = [kind |-> "denomination", balance |-> balance, decimals |-> decimals]

PickAssets ==
  \E count \in 0..3, ids \in {<<>>, <<2>>, <<3, 1>>, <<1, 2, 1>>} :
    \E accounts \in [1..3 -> {Null} \cup [balance : {0, 6}, isSufficient : {FALSE},
                                         isFrozen : {TRUE}, shape : {"status", "bool"}]] :
      input' = [kind |-> "assets", assets |-> [k \in 1..count |-> k], accounts |-> accounts,
                ids |-> ids]

MCAddresses ==
  [kind : {"ss58"}, account : {alice, bob}, long : BOOLEAN, upper : {FALSE}]
    \cup [kind : {"hex"}, account : {alice, bob}, long : BOOLEAN, upper : BOOLEAN]
    \cup [kind : {"ethereum"}, account : {alice, bob}, long : {FALSE}, upper : {FALSE}]
    \cup [kind : {"malformed"}, account : {alice}, long : {FALSE}, upper : {FALSE}]

PickAddresses ==
  \E count \in 1..4 : \E first \in MCAddresses, second \in MCAddresses, rest \in MCAddresses :
    /\ count < 3 => rest = first
    /\ input' = [kind |-> "addresses",
                 addresses |-> SubSeq(<<first, second, rest, first>>, 1, count)]

-----------------------------------------------------------------------------
(* Data of two levels of containers, constants of every type, and calls that   *)
(* make up to two calls, which may be encoded and make one more.               *)

MCLeaves == {JsonNull, Text("1")}
              \cup [kind : {"bool"}, text : {"true"}] \cup [kind : {"number", "int"}, text : {"1", "2"}]
              \cup [kind : {"otherCodec"}, json : {[kind |-> "number", text |-> "3"]}]

MCContainers(first, second) ==
  {[kind |-> kind, of |-> first] : kind \in {"option", "compact", "toJSON"}}
    \cup {[kind |-> "enum", type |-> "a", of |-> first], [kind |-> "option", of |-> Null]}
    \cup {[kind |-> kind, items |-> <<first, second>>] :
             kind \in {"array", "vec", "set", "btreeset"}}
    \cup {[kind |-> kind, pairs |-> <<<<"a", first>>, <<"b", second>>>>] :
             kind \in {"struct", "object", "json"}}
    \cup {[kind |-> "struct", pairs |-> <<<<"a", Null>>, <<"b", second>>>>]}
    \cup {[kind |-> kind, pairs |-> <<<<first, second>>, <<second, first>>>>] :
             kind \in {"map", "codecmap"}}

PickData ==
  \E first, second \in MCLeaves, third \in {Text("1"), [kind |-> "int", text |-> "2"]} :
    \E inner \in MCContainers(first, second) :
      \E data \in {inner} \cup MCContainers(inner, third) :
        input' = [kind |-> "data", data |-> data]

PickConstant ==
  \E key \in {"value", "default"}, kind \in {"bytes", "int"}, type \in {"0", "1", "2"},
     registry \in [{"0", "1", "2"} -> {"uint", "optionUint", "struct"}], none \in BOOLEAN :
    input' = [kind |-> "constant", registry |-> registry, data |->
               [kind |-> "struct", pairs |->
                 <<<<"type", [kind |-> "int", text |-> type]>>,
                   <<key, [kind |-> kind, text |-> "0x07", asUint |-> "7",
                           asOption |-> IF none THEN JsonNull ELSE Text("7")]>>>>]]

MCCall(method, args) == [kind |-> "call", pallet |-> "p", method |-> method, args |-> args]

MCArguments(calls) ==
  {[kind |-> "int", text |-> "1"]} \cup calls
    \cup {[kind |-> "vec", items |-> items] :
             items \in {<<>>} \cup {<<call>> : call \in calls}
                         \cup {<<call, [kind |-> "int", text |-> "1"], call>> : call \in calls}}
    \cup [kind : {"opaque"}, text : {"0x00"}, of : calls \cup {Null}]

PickCall ==
  LET leaf == MCCall("transfer", <<<<"value", [kind |-> "int", text |-> "1"]>>>>)
      inner == {leaf} \cup {MCCall("wrap", <<<<name, argument>>>>) :
                              name \in {"call", "other"}, argument \in MCArguments({leaf})}
  IN  \E names \in {<<"call", "other">>, <<"calls", "call">>} :
        \E first \in MCArguments(inner), second \in MCArguments({leaf}) :
          input' = [kind |-> "call", call |-> MCCall("outer", <<<<names[1], first>>,
                                                                <<names[2], second>>>>)]

-----------------------------------------------------------------------------
(* Requests.  The best block is 2 or a call fails, and grows by up to 2.       *)

MCErrors ==
  {Http(400), Http(500), OtherError, TxError, MissingTx, ErrorForAddr(TRUE), ErrorForAddr(FALSE)}

PickError ==
  \E err \in MCErrors, headersSent \in BOOLEAN :
    input' = [kind |-> "error", err |-> err, headersSent |-> headersSent]

MCBlockIds == [kind : {"number"}, number : 0..5]
           \cup [kind : {"hash", "hex", "malformed", "none", "list"}, number : {0}]

MCNodes ==
  {[best |-> b, later |-> l, takes |-> takes, lost |-> lost] :
     b \in {2, Null}, l \in {2, 4, Null}, takes \in BOOLEAN, lost \in BOOLEAN}

PickBlockId ==
  \E id \in MCBlockIds, node \in MCNodes : input' = [kind |-> "blockid", id |-> id, node |-> node]

PickRcQuery ==
  \E useRcBlock \in {Null, "true", "false", "other", "list"},
     format \in {Null, "array", "object", "other", "list"}, isAssetHub \in BOOLEAN,
     relays \in SUBSET {"relay"} :
    input' = [kind |-> "rcquery", query |-> [useRcBlock |-> useRcBlock, useRcBlockFormat |-> format],
              server |-> [isAssetHub |-> isAssetHub, relays |-> relays]]

PickTx ==
  \E tx, parses, sender, dryRun, xcmParam \in BOOLEAN, version \in {Null, 0, 3},
     tellsSafe \in BOOLEAN, safe \in {Null, 5}, at \in {i \in MCBlockIds : i.number \in {0, 3}}, node \in MCNodes :
    /\ node.later # 4 \/ at.number = 3
    /\ safe # Null => tellsSafe
    /\ input' = [kind |-> "tx", node |-> node,
                 body |-> [tx |-> tx, parses |-> parses, sender |-> sender,
                           xcmVersion |-> version, at |-> at],
                 runtime |-> [dryRun |-> dryRun, xcmParam |-> xcmParam,
                              tellsSafe |-> tellsSafe, safeXcmVersion |-> safe]]

MCOffers == {Null, {14}, {14, 15}}

PickVersion ==
  \E number \in {Null, 0, 14, 15}, inForm, hasAt \in BOOLEAN, block, head \in MCOffers :
    input' = [kind |-> "version", path |-> [number |-> number, inForm |-> inForm],
              hasAt |-> hasAt, block |-> block, head |-> head]

PickBlob ==
  \E tx, callData, inExtrinsic, inSignedData \in BOOLEAN, block \in MCOffers, at \in MCBlockIds,
     node \in {n \in MCNodes : n.takes /\ ~n.lost} :
    input' = [kind |-> "blob", block |-> block, node |-> node,
              body |-> [tx |-> tx, callData |-> callData, inExtrinsic |-> inExtrinsic,
                        inSignedData |-> inSignedData, at |-> at]]

-----------------------------------------------------------------------------
(* Listings.  Two validators in two eras; up to three events; two assets, of    *)
(* which the second may go or come, and change its metadata, between two reads.  *)

MCOrders == {<<>>, <<alice>>, <<bob>>, <<alice, bob>>, <<bob, alice>>}

PickValidators ==
  \E hasStaking, isBad, paged \in BOOLEAN, registered, first, second \in MCOrders,
     activeEra, currentEra \in {Null, 1, 2} :
    /\ activeEra # Null => currentEra # Null /\ currentEra >= activeEra
    /\ input' = [kind |-> "validators", state |->
                   [hasStaking |-> hasStaking, isBad |-> isBad, paged |-> paged,
                    registered |-> registered, activeEra |-> activeEra,
                    currentEra |-> currentEra, overview |-> <<first, second>>,
                    session |-> first]]

PickInclusions ==
  \E count \in 0..3, paraId \in 0..2 :
    \E methods \in [1..count -> {"CandidateIncluded", "CandidateBacked"}],
       ids \in [1..count -> 0..2] :
      input' = [kind |-> "inclusions", paraId |-> paraId, events |->
                 [k \in 1..count |-> [method |-> methods[k], paraId |-> ids[k], block |-> k]]]

MCHeads ==
  {[assets |-> assets, metadata |-> metadata] :
     assets \in {<<[asset |-> "a", isHex |-> hex]>> : hex \in BOOLEAN}
                  \cup {<<[asset |-> "a", isHex |-> FALSE], [asset |-> "b", isHex |-> FALSE]>>},
     metadata \in [{"a", "b"} -> {Null, "x", "y"}]}

PickForeignAssets ==
  \E first, second, third \in MCHeads :
    /\ second.assets = first.assets
    /\ input' = [kind |-> "foreignassets", heads |-> <<first, second, third>>]

MCBounds == {Null} \cup [start : {Null, 2}, end : {Null, 4}]

PickMigration ==
  \E hub, relay \in MCBounds, connected, known \in BOOLEAN :
    input' = [kind |-> "migration", connected |-> connected, pair |->
               [hub |-> hub, relay |-> relay, table |->
                  IF known THEN [relay |-> [start |-> 1, end |-> 3],
                                 assetHub |-> [start |-> 2, end |-> 4]] ELSE Null]]

-----------------------------------------------------------------------------

Next == \/ Begin("vesting") /\ (PickHubVesting \/ PickChainVesting)
        \/ Begin("paras") /\ (PickLeases \/ PickAuction \/ PickNoAuction)
        \/ Begin("staking") /\ (PickProgress \/ PickClaims)
        \/ Begin("trace") /\ PickTrace
        \/ Begin("coretime") /\ (PickSale \/ PickCores \/ PickCoreLeases \/ PickRelayCores)
        \/ Begin("amounts") /\ (PickPayout \/ PickPending)
        \/ Begin("blocks") /\ (PickEvents \/ PickNoEvents
                                \/ PickRelayMessages \/ PickParachainMessages)
        \/ Begin("pallets") /\ (PickPallet \/ PickItem)
        \/ Begin("holdings") /\ (PickBalance \/ PickDenomination
                                  \/ PickAssets \/ PickAddresses)
        \/ Begin("rendering") /\ (PickData \/ PickConstant \/ PickCall)
        \/ Begin("requests") /\ (PickError \/ PickBlockId \/ PickRcQuery \/ PickTx
                                  \/ PickVersion \/ PickBlob)
        \/ Begin("listings") /\ (PickValidators \/ PickInclusions \/ PickForeignAssets
                                  \/ PickMigration)

Spec == Init /\ [][Next]_input

\* No value is lost, moved or left a number on its way into an answer, and every
\* call that an extrinsic makes is named (sanitizeNumbers, parseGenericCall).
RenderingExact ==
  /\ Is("data") => NumbersTold(input.data)
  /\ Is("constant") => ConstantsTold(input.data, input.registry)
  /\ Is("call") => CallsTold(input.call)
=============================================================================
