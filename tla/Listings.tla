------------------------------- MODULE Listings -------------------------------
(***************************************************************************)
(* Routes that put an answer together from several reads: the validators,   *)
(* the inclusions of a relay block, the foreign assets, and the blocks in    *)
(* which staking moved to the Asset Hub.                                    *)
(***************************************************************************)
EXTENDS Answer, Sequences, FiniteSets, SequencesExt

-----------------------------------------------------------------------------
(* Validators.  The state of a block is [hasStaking, isBad, registered, paged, *)
(* activeEra, currentEra, overview, session]: the validators that registered,   *)
(* those of each era, and those of the session in runtimes without pages.       *)

\* Null if no era is known.
ActiveValidators(state) ==
  LET era == IF state.activeEra # Null THEN state.activeEra ELSE state.currentEra
  IN  IF ~state.paged THEN state.session
      ELSE IF era = Null THEN Null ELSE state.overview[era]

Validator(address, status) == [address |-> address, status |-> status]

\* Faulty: whoever is active without being registered is only said to be chilled.
StakingValidatorsRegistered(state) ==
  LET active == ActiveValidators(state)
      status(v) == IF v \in ToSet(active) THEN "active" ELSE "waiting"
      chilled == Kept(active, {k \in DOMAIN active : active[k] \notin ToSet(state.registered)})
      told(vs) == [k \in DOMAIN vs |-> Validator(vs[k], status(vs[k]))]
  IN  IF ~state.hasStaking \/ state.isBad \/ active = Null THEN Error
      ELSE [validators |-> told(state.registered), validatorsToBeChilled |-> told(chilled)]

StakingValidators(state) ==
  LET active == ActiveValidators(state)
      status(v) == IF v \in ToSet(active) THEN "active" ELSE "waiting"
      chilled == Kept(active, {k \in DOMAIN active : active[k] \notin ToSet(state.registered)})
      told(vs) == [k \in DOMAIN vs |-> Validator(vs[k], status(vs[k]))]
  IN  IF ~state.hasStaking \/ state.isBad \/ active = Null THEN Error
      ELSE [validators |-> told(state.registered \o chilled),
            validatorsToBeChilled |-> told(chilled)]

-----------------------------------------------------------------------------
(* Inclusions.  An event is [method, paraId, block]; a para may have several    *)
(* blocks included at once, which keep their order.                             *)

Included(events) == Kept(events, {k \in DOMAIN events : events[k].method = "CandidateIncluded"})

OfPara(inclusions, id) == Kept(inclusions, {k \in DOMAIN inclusions : inclusions[k].paraId = id})

SortByPara(inclusions) == Sorted(inclusions, [k \in DOMAIN inclusions |-> inclusions[k].paraId])

ParaInclusions(events, paraIdFilter) ==
  IF Included(events) = <<>> THEN Error
  ELSE [inclusions |->
          SortByPara(IF paraIdFilter = Null THEN Included(events)
                     ELSE OfPara(Included(events), paraIdFilter))]

-----------------------------------------------------------------------------
(* Reads of the head.  heads are the states that one read after another finds; *)
(* assets are in the order of their keys, each [asset, isHex], and metadata     *)
(* tells of each what it is, Null if it has none.                               *)

\* A key that is given in hex is not looked up.
ForeignAssets(heads) ==
  LET listed == heads[1].assets
      metadata(k) == IF listed[k].isHex THEN Null ELSE heads[k + 1].metadata[listed[k].asset]
  IN  [k \in DOMAIN listed |-> [asset |-> listed[k].asset, metadata |-> metadata(k)]]

-----------------------------------------------------------------------------
(* AhmInfoService.  Bounds are [start, end], each a block or Null.  A pair of   *)
(* chains is [table, hub, relay]: the bounds of both as the table of known       *)
(* chains has them, or Null, and as the chains' migrators have them, Null for a  *)
(* runtime without a migrator.                                                  *)

NoBounds == [start |-> Null, end |-> Null]

\* On the Asset Hub.  The relay chain's migrator is read as if it had one.
HandleFromAh(pair, connected) ==
  IF pair.table # Null THEN pair.table
  ELSE IF pair.hub = Null THEN [relay |-> NoBounds, assetHub |-> NoBounds]
  ELSE IF ~connected THEN [relay |-> NoBounds, assetHub |-> pair.hub]
  ELSE IF pair.relay = Null THEN Error
  ELSE [relay |-> pair.relay, assetHub |-> pair.hub]

\* On the relay chain.  A relay chain that is known has an Asset Hub in the table;
\* others are refused.
HandleFromRelay(pair) == IF pair.table = Null THEN Error ELSE pair.table

FetchAhmInfo(isAssetHub, pair, connected) ==
  IF isAssetHub THEN HandleFromAh(pair, connected) ELSE HandleFromRelay(pair)

-----------------------------------------------------------------------------
(* Properties. *)

\* Every validator that registered or is active is told once, as active if and
\* only if it is; to be chilled are those that are active but no longer
\* registered.
ValidatorsTold(state) ==
  LET answer == StakingValidators(state)
      active == ToSet(ActiveValidators(state))
      everyone == ToSet(state.registered) \cup active
  IN  answer # Error =>
        /\ Len(answer.validators) = Cardinality(everyone)
        /\ {v.address : v \in ToSet(answer.validators)} = everyone
        /\ \A v \in ToSet(answer.validators) : v.status = "active" <=> v.address \in active
        /\ ToSet(answer.validatorsToBeChilled) =
             {Validator(a, "active") : a \in active \ ToSet(state.registered)}

\* The inclusions of one para are those of all that are its, in the order of the
\* block; a para that has none in a block with others is told so, not refused.
InclusionsTold(events, paraId) ==
  LET all == ParaInclusions(events, Null)
      own == ParaInclusions(events, paraId)
  IN  /\ all = Error <=> own = Error
      /\ all # Error => /\ own.inclusions = OfPara(all.inclusions, paraId)
                        /\ own.inclusions = OfPara(Included(events), paraId)
                        /\ \A j, k \in DOMAIN all.inclusions :
                             j < k => all.inclusions[j].paraId <= all.inclusions[k].paraId

\* While the head moves between the reads, every foreign asset of the first is
\* told, with metadata that it has had since, and none with another's.
ForeignAssetsPaired(heads) ==
  LET answer == ForeignAssets(heads)
  IN  \A k \in DOMAIN heads[1].assets :
        LET asset == heads[1].assets[k].asset
        IN  /\ answer[k].asset = asset
            /\ answer[k].metadata \in {head.metadata[asset] : head \in ToSet(heads)} \cup {Null}

\* The two chains of a pair never tell different blocks of the migration, and
\* both tell all there is of a pair in the table.
MigrationTold(pair, connected) ==
  LET hub == FetchAhmInfo(TRUE, pair, connected)
      relay == FetchAhmInfo(FALSE, pair, connected)
  IN  /\ hub # Error /\ relay # Error => hub = relay
      /\ hub = Error => pair.table = Null /\ connected
      /\ hub # Error /\ pair.table = Null => hub.assetHub \in {pair.hub, NoBounds}
=============================================================================
