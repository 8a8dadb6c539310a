------------------------------ MODULE Algorithms ------------------------------
(***************************************************************************)
(* What the computations of the services promise of one input: input.kind  *)
(* says of which computation it is one, and each property speaks of the    *)
(* inputs of its computations.                                             *)
(***************************************************************************)
EXTENDS Vesting, Paras, StakingProgress, StakingClaims, Trace, Coretime, Amounts,
        BlockContents, PalletItems, AccountHoldings, Requests, Listings

VARIABLE input

Is(kind) == input.kind = kind

-----------------------------------------------------------------------------

\* Whatever relay blocks fail to be read, the vesting route promises no more
\* than the chain unlocks (calculateVestingAmounts), and the batched search
\* finds an inclusion in reach that can be read (searchForInclusionBlock).
VestingSound ==
  Is("vesting") => NeverOverstated(input.request) /\ ExactWhenRead(input.request)

\* The lease and auction routes answer the lease periods and samples that the
\* block lies in (ParasService).
ParasExact ==
  /\ Is("leases") => LeasePeriodsExact(input.now, input.leases)
  /\ Is("auction") => WinningExact(input.now, input.auction, input.winningAt)

\* The session derived from time agrees with the relay chain's, and the
\* estimates lie ahead in order (PalletsStakingProgressService).
ProgressExact ==
  Is("progress") =>
    /\ SessionExact(input.epochs, input.session, input.inEpoch, input.eraStart)
    /\ EstimatesAhead(10, input.session, input.inEpoch, input.eraStart, input.forceAlways)

\* What the staking-info route tells of a validator's and of a nominator's eras,
\* and that its loop over them ends if no old list of claims sets it back
\* (AccountsStakingInfoService).
ClaimsExact ==
  Is("claims") => ValidatorClaimsExact(input.request) /\ NominatorClaimsExact(input.request)

\* Operations add up to the change of each balance and are attributed to the
\* extrinsic or hook they happened in (Trace.actionsAndOps).
OperationsExact ==
  Is("trace") => OperationsConserve(input.trace) /\ OperationsAttributed(input.trace)

\* Prices fall, phases follow each other, and every core is answered with what
\* is its own (CoretimeService).
CoretimeExact ==
  /\ Is("sale") => /\ CorePriceFalls(input.sale)
                   /\ PhasesOrdered(input.now, input.config, input.sale, input.committed)
  /\ Is("cores") => CoresExact(input.workload, input.workplan, input.leases,
                               input.reservations, input.regions)
  /\ Is("coreleases") => LeasesTold(input.hasBroker, input.workload, input.leases)
  /\ Is("relaycores") => RelayCoresTold(input.paras, input.descriptors)

\* Payouts share out what the era pays, and priorities are ordered (calc_payout,
\* computeExtPriority).
AmountsExact ==
  /\ Is("payout") => PayoutShares(input.era, input.validator, input.exposures)
  /\ Is("pending") => PriorityOrdered(input.first, input.second, input.limits)

\* A block tells every event where it happened and no more of an extrinsic than
\* its completion says, and every message where it comes from (BlocksService,
\* XcmDecoder).
ContentsExact ==
  /\ Is("events") => /\ EventsAttributed(input.version, input.extrinsics, input.events)
                     /\ EventsKept(input.version, input.extrinsics, input.events)
  /\ Is("messages") => MessagesOfPara(input.isRelay, input.inherent, input.paraId)

\* The routes of the metadata agree with each other on pallets and items, and no
\* validator, inclusion or asset is told twice, wrongly or not at all
\* (AbstractPalletsService, PalletsStakingValidators-, BlocksParaInclusions-,
\* PalletsForeignAssets- and AhmInfoService).
ListingsExact ==
  /\ Is("pallet") => PalletLookupsAgree(input.metadata, input.name)
  /\ Is("item") => ItemsAgree(input.metadata, input.head, input.palletId, input.itemId,
                              input.field)
  /\ Is("validators") => ValidatorsTold(input.state)
  /\ Is("inclusions") => InclusionsTold(input.events, input.paraId)
  /\ Is("foreignassets") => ForeignAssetsPaired(input.heads)
  /\ Is("migration") => MigrationTold(input.pair, input.connected)

\* Balances keep their amount in denominated units and leave what is frozen,
\* assets are answered in full, and addresses are told apart (AccountsBalanceInfo-,
\* AccountsAssets- and AccountsCompareService).
HoldingsExact ==
  /\ Is("balance") => /\ TransferableSound(input.at, input.head)
                      /\ TokenExact(input.at, input.head, input.token)
  /\ Is("denomination") => DenominationExact(input.balance, input.decimals)
  /\ Is("assets") => AssetsComplete(input.assets, input.accounts, input.ids)
  /\ Is("addresses") => ComparedSoundly(input.addresses)

\* Errors, block identifiers, query parameters, transactions and versions of the
\* metadata are answered for what they are (the post-middleware of main(),
\* AbstractController, validateUseRcBlockMiddleware, the /transaction and
\* /runtime/metadata routes).
RequestsAnswered ==
  /\ Is("error") => ErrorsAnswered(input.err, input.headersSent)
  /\ Is("blockid") => BlockIdResolved(input.id, input.node)
  /\ Is("rcquery") => RcBlockGuarded(input.query, input.server)
  /\ Is("tx") => /\ SubmittedOnce(input.body, input.node)
                 /\ DryRunVersion(input.body, input.runtime, input.node)
  /\ Is("version") => VersionOffered(input.path, input.hasAt, input.block, input.head)
  /\ Is("blob") => BlobComplete(input.body, input.block, input.node)
=============================================================================
