---------------------------- MODULE StakingPayouts ----------------------------
(***************************************************************************)
(* GET /accounts/{account}/staking-payouts on a chain with staking: the    *)
(* controller settles the era and the depth, the service reads each era of *)
(* the range in the state of one block, then the commission and the ledger *)
(* of every validator the account nominated, all lookups at once over one  *)
(* ledger cache, and derives the payouts.  On a chain whose staking has    *)
(* moved to the Asset Hub the range is split: the eras up to the last one  *)
(* of the relay chain are read there, in the state of the block before the *)
(* migration, the others from the Asset Hub.                               *)
(*                                                                         *)
(* What is read is the state of fixed blocks, so it is chosen once: World. *)
(***************************************************************************)
EXTENDS Integers, Sequences, FiniteSets, SequencesExt, TLC

CONSTANTS Account,      \* the address that is asked for
          Validators,   \* stashes with exposure, Account may be one
          Worlds,       \* the chain states the request may meet
          Requests,     \* the requests the client may send
          LastEra,      \* bound: the eras are 0..LastEra
          ModernEra,    \* 518: the first era of Kusama with era storage
          MaxNominations,  \* bound: the nominations of the account in an era
          Absent        \* a query parameter that is not given

Eras == 0..LastEra
Chains == {"relay", "own"}

\* A page is a value of erasStakersPaged, or the whole exposure of a validator
\* where the chain does not page; own is what a validator has staked itself.
Page == [validator : Validators, others : Seq([who : {Account} \cup {"other"}, value : Nat])]

\* reward: erasValidatorReward is there; points, claimed: reward points and
\* number of claimed pages of a validator.
EraInfo == [pages : Seq(Page), own : [Validators -> Nat], reward : BOOLEAN,
            points : [Validators -> Nat], claimed : [Validators -> Nat]]

\* current, active: the eras at the block asked for; last, first: the
\* migration's boundaries (relayChainLastEra, assetHubFirstEra); bad: a block
\* of badStakingBlocks; bonded, ledgers: the validators whose controller and
\* whose ledger a chain has.
World == [current : Nat, active : Nat, historyDepth : Nat, last : Nat, first : Nat,
          bad : BOOLEAN, bonded : [Chains -> SUBSET Validators],
          ledgers : [Chains -> SUBSET Validators],
          state : [Chains -> [Eras -> EraInfo]]]

Request == [kusama : BOOLEAN, migrated : BOOLEAN, unclaimedOnly : BOOLEAN,
            depth : Nat \cup {Absent}, era : Nat \cup {Absent}]

ASSUME WorldsAssumption == Worlds \subseteq World /\ Worlds # {}
\* An era's reward is recorded when the era ends: the block before the
\* migration has none of the relay chain's last era, and the Asset Hub goes on
\* with that era or a later one.
ASSUME StakingAssumption ==
  \A w \in Worlds :
    /\ w.last > 0 /\ w.first >= w.last /\ w.active <= LastEra + 1
    /\ w.active \in {w.current, w.current - 1}
    /\ \A c \in Chains : w.ledgers[c] \subseteq w.bonded[c]
    /\ \A e \in Eras : /\ e >= w.last => ~w.state["relay"][e].reward
                       /\ e >= w.active => ~w.state["own"][e].reward
\* A stash that is elected nominates nobody, and a nominator is on one page of
\* a validator.
ASSUME NominatorsAssumption ==
  \A w \in Worlds : \A c \in Chains, e \in Eras :
    LET pages == w.state[c][e].pages
        mentioned(i) == \E k \in DOMAIN pages[i].others : pages[i].others[k].who = Account
    IN  /\ ~ \E i, j \in DOMAIN pages : pages[i].validator = Account /\ mentioned(j)
        /\ \A i, j \in DOMAIN pages :
             pages[i].validator = pages[j].validator /\ mentioned(i) /\ mentioned(j) => i = j
ASSUME RequestsAssumption ==
  /\ Requests \subseteq Request /\ Requests # {}
  /\ \A r \in Requests : ~(r.kusama /\ r.migrated)
ASSUME NumbersAssumption ==
  LastEra \in Nat /\ ModernEra \in Nat /\ MaxNominations \in Nat /\ Absent \notin Nat

VARIABLES pc,       \* the await the request is suspended at
          world,    \* what the blocks it reads hold
          request,  \* what the client asks
          range,    \* startEra and era, after the controller and the checks
          chain,    \* the chain whose eras are being fetched
          lookup,   \* lookup[t]: the await fetchCommissionAndLedger is at
          ledger,   \* ledger[t]: the lookup found a ledger
          cache,    \* validatorLedgerCache
          payouts   \* allEraPayouts

vars == <<pc, world, request, range, chain, lookup, ledger, cache, payouts>>

Lesser(a, b) == IF a <= b THEN a ELSE b
Greater(a, b) == IF a >= b THEN a ELSE b

\* Numbers in the order of the loops that go through them.
Ascending(numbers) ==
  CHOOSE s \in [1..Cardinality(numbers) -> numbers] : \A j, k \in DOMAIN s : j < k => s[j] < s[k]

\* The entries of s at some positions, in their order.
At(s, positions) == LET order == Ascending(positions) IN [k \in DOMAIN order |-> s[order[k]]]

-----------------------------------------------------------------------------
(* The controller and the service's checks. *)

\* sanitizeDepth throws.
ParametersDisabled ==
  /\ request.kusama /\ world.current <= ModernEra + 1
  /\ request.depth # Absent \/ request.era # Absent

SanitizedDepth ==
  IF request.depth = Absent \/ (request.kusama /\ world.current <= ModernEra + 1) THEN 1
  ELSE IF request.kusama THEN Lesser(request.depth, world.current - ModernEra)
  ELSE request.depth

\* getEraAndHash throws.
EraTooLarge == request.era # Absent /\ request.era > world.active - 1

EraArg == IF request.era = Absent THEN world.active - 1 ELSE request.era

\* Faulty: reads below the eras the chain keeps.
InHistoryOfActive(era, depth) ==
  \/ world.historyDepth = 0
  \/ /\ depth <= world.historyDepth
     /\ era >= world.current - world.historyDepth

InHistory(era, depth) ==
  \/ world.historyDepth = 0
  \/ /\ depth <= world.historyDepth
     /\ era - (depth - 1) >= world.current - world.historyDepth

\* The list of bad blocks is asked on the route of a chain of its own only.
Refused ==
  \/ EraTooLarge \/ ParametersDisabled
  \/ world.bad /\ ~request.migrated
  \/ ~InHistory(EraArg, SanitizedDepth)

FirstAsked == Greater(0, Greater(0, EraArg) - (SanitizedDepth - 1))
LastAsked == Greater(0, EraArg)

\* The eras asked of chain c.
Part(c) ==
  IF ~request.migrated THEN IF c = "own" THEN range[1]..range[2] ELSE {}
  ELSE IF c = "relay" THEN range[1]..Lesser(range[2], world.last)
  ELSE Greater(range[1], world.first)..range[2]

-----------------------------------------------------------------------------
(* One era. *)

Info(c, e) == world.state[c][e]

\* deriveEraExposure: a later page of a validator replaces an earlier one in
\* validators, while nominators gets an entry for each.
StoredPage(info, v) ==
  LET of == {i \in DOMAIN info.pages : info.pages[i].validator = v}
  IN  info.pages[CHOOSE i \in of : \A j \in of : j <= i]

HasExposure(info, v) == \E i \in DOMAIN info.pages : info.pages[i].validator = v

\* The entries of a page that are the account's.
Mentions(page) == {k \in DOMAIN page.others : page.others[k].who = Account}

\* nominators[address]: a validator for each mention, and Account itself when
\* it is one.
NominatedExposures(info) ==
  LET mentioned(p) == [k \in 1..Cardinality(Mentions(p)) |-> p.validator]
  IN  FlattenSeq([i \in DOMAIN info.pages |-> mentioned(info.pages[i])])
        \o IF Account \in Validators /\ HasExposure(info, Account)
           THEN <<Account>> ELSE <<>>

\* No world has more nominations than the bound.
ASSUME NominationsAssumption ==
  \A w \in Worlds : \A c \in Chains, e \in Eras :
    DOMAIN NominatedExposures(w.state[c][e]) \subseteq 1..MaxNominations

\* Faulty: every nomination on a validator is answered with the first.
NominatorIndexOfFirst(nominated, i) == 0

\* The position among the nominations of one validator, from 0.
NominatorIndex(nominated, i) ==
  Cardinality({j \in 1..(i - 1) : nominated[j] = nominated[i]})

\* extractExposure: what the account has on the validator, or Absent.
NominatorExposure(info, nominated, i) ==
  LET v == nominated[i]
      page == StoredPage(info, v)
      instances == At(page.others, Mentions(page))
  IN  IF v = Account THEN info.own[v]
      ELSE IF Len(instances) > 1 THEN instances[NominatorIndex(nominated, i) + 1].value
      ELSE IF Len(instances) = 1 THEN instances[1].value
      ELSE Absent

Claimed(info, v) ==
  /\ info.claimed[v] > 0
  /\ info.claimed[v] >= Cardinality({i \in DOMAIN info.pages : info.pages[i].validator = v})

\* The iterations of deriveEraPayouts that do not continue.
Paid(c, e, i) ==
  LET info == Info(c, e)
      nominated == NominatedExposures(info)
      v == nominated[i]
  IN  /\ info.points[v] > 0
      /\ NominatorExposure(info, nominated, i) # Absent
      /\ ledger[<<e, i>>]
      /\ ~(request.unclaimedOnly /\ Claimed(info, v))

\* The payouts of an era, without the amount, which CalcPayout computes.
Payments(c, e) ==
  LET info == Info(c, e)
      nominated == NominatedExposures(info)
      one(i) == [validator |-> nominated[i],
                 exposure |-> NominatorExposure(info, nominated, i),
                 claimed |-> Claimed(info, nominated[i])]
      kept == Ascending({i \in DOMAIN nominated : Paid(c, e, i)})
  IN  [k \in DOMAIN kept |-> one(kept[k])]

\* The era has a message instead of payouts.
NoReward(c, e) == ~Info(c, e).reward /\ e # 0

\* deriveEraPayouts.
EraPayouts(c, e) == [era |-> e, message |-> NoReward(c, e),
                     payouts |-> IF NoReward(c, e) THEN <<>> ELSE Payments(c, e)]

-----------------------------------------------------------------------------
(* The request. *)

Tasks == Eras \X (1..MaxNominations)

\* The lookups that fetching the eras of c starts.
Lookups(c) == {t \in Tasks : /\ t[1] \in Part(c)
                             /\ t[2] \in DOMAIN NominatedExposures(Info(c, t[1]))}

Validator(t) == NominatedExposures(Info(chain, t[1]))[t[2]]

Init == /\ pc = "idle"
        /\ world \in Worlds
        /\ request \in Requests
        /\ range = <<0, 0>>
        /\ chain = "relay"
        /\ lookup = [t \in Tasks |-> "none"]
        /\ ledger = [t \in Tasks |-> FALSE]
        /\ cache = {}
        /\ payouts = <<>>

\* Faulty: one ledger cache for the whole request.
GoToKeepingCache(c) ==
  /\ chain' = c
  /\ pc' = "general"
  /\ UNCHANGED cache

\* A chain that no era of the range is asked of is passed over.
GoTo(c) ==
  /\ chain' = c
  /\ cache' = {}
  /\ pc' = "general"

Check ==
  /\ pc = "idle"
  /\ IF Refused
     THEN pc' = "refused" /\ UNCHANGED <<range, chain, cache>>
     ELSE /\ range' = <<FirstAsked, LastAsked>>
          /\ IF request.migrated /\ FirstAsked <= world.last THEN GoTo("relay")
             ELSE GoTo("own")
  /\ UNCHANGED <<world, request, lookup, ledger, payouts>>

\* fetchAllErasGeneral has answered; fetchAllErasCommissions starts every
\* lookup before any of them has an answer.
FetchCommissions ==
  /\ pc = "general"
  /\ pc' = "lookups"
  /\ lookup' = [t \in Tasks |->
        IF t \notin Lookups(chain) THEN "none"
        ELSE IF Validator(t) \in cache THEN "prefs" ELSE "bonded"]
  /\ ledger' = [t \in Tasks |-> FALSE]
  /\ UNCHANGED <<world, request, range, chain, cache, payouts>>

\* Faulty: without a controller the lookup is left as it is.
PrefsAnsweredIfBonded(t) ==
  /\ lookup[t] \in {"prefs", "bonded"}
  /\ Validator(t) \in world.bonded[chain]
  /\ lookup' = [lookup EXCEPT ![t] = "ledger"]
  /\ UNCHANGED <<pc, world, request, range, chain, ledger, cache, payouts>>

\* fetchCommissionAndLedger: the commission, with the controller unless the
\* validator's ledger was in the cache.
PrefsAnswered(t) ==
  /\ lookup[t] \in {"prefs", "bonded"}
  /\ IF lookup[t] = "bonded" /\ Validator(t) \in world.bonded[chain]
     THEN lookup' = [lookup EXCEPT ![t] = "ledger"] /\ UNCHANGED ledger
     ELSE /\ lookup' = [lookup EXCEPT ![t] = "done"]
          /\ ledger' = [ledger EXCEPT ![t] = lookup[t] = "prefs"]
  /\ UNCHANGED <<pc, world, request, range, chain, cache, payouts>>

LedgerAnswered(t) ==
  /\ lookup[t] = "ledger"
  /\ lookup' = [lookup EXCEPT ![t] = "done"]
  /\ IF Validator(t) \in world.ledgers[chain]
     THEN /\ ledger' = [ledger EXCEPT ![t] = TRUE]
          /\ cache' = cache \cup {Validator(t)}
     ELSE UNCHANGED <<ledger, cache>>
  /\ UNCHANGED <<pc, world, request, range, chain, payouts>>

\* A read fails: Promise.all rejects, the lookups that are left run on.
ReadFails ==
  /\ pc \in {"general", "lookups"}
  /\ \/ pc = "general" /\ UNCHANGED lookup
     \/ \E t \in Tasks : /\ lookup[t] \in {"prefs", "bonded", "ledger"}
                         /\ lookup' = [lookup EXCEPT ![t] = "failed"]
  /\ pc' = "refused"
  /\ UNCHANGED <<world, request, range, chain, ledger, cache, payouts>>

\* The eras of a chain that its part of the answer tells of: the split routes
\* drop those that only have a message.
Told(c) == {e \in Part(c) : request.migrated => ~NoReward(c, e)}

\* What deriveEraPayouts answers for the eras of a chain.
Derived(c) == LET eras == Ascending(Told(c)) IN [k \in DOMAIN eras |-> EraPayouts(c, eras[k])]

\* allEraPayouts.sort by era; a stable sort.
SortedByEra(s) ==
  LET rank(i) == Cardinality({j \in DOMAIN s :
                   \/ s[j].era < s[i].era
                   \/ s[j].era = s[i].era /\ j <= i})
  IN  [k \in DOMAIN s |-> s[CHOOSE i \in DOMAIN s : rank(i) = k]]

LookupsIn == pc = "lookups" /\ \A t \in Lookups(chain) : lookup[t] = "done"

\* The lookups of a chain are in; allEraPayouts is sorted before it is sent.
Deliver(more) ==
  /\ LookupsIn
  /\ \E all \in {payouts \o more} :
       IF chain = "relay" /\ Part("own") # {}
       THEN GoTo("own") /\ payouts' = all
       ELSE /\ pc' = "answered"
            /\ payouts' = SortedByEra(all)
            /\ UNCHANGED <<chain, cache>>
  /\ UNCHANGED <<world, request, range, lookup, ledger>>

\* Faulty: the messages stay in.
DerivePayoutsKeepingMessages ==
  LET eras == Ascending(Part(chain))
  IN  Deliver([k \in DOMAIN eras |-> EraPayouts(chain, eras[k])])

DerivePayouts == Deliver(Derived(chain))

Done == pc \in {"answered", "refused"} /\ UNCHANGED vars

Next == \/ Check \/ FetchCommissions \/ DerivePayouts \/ ReadFails \/ Done
        \/ \E t \in Tasks : PrefsAnswered(t) \/ LedgerAnswered(t)

\* The node answers every call and the event loop runs every callback; no
\* call needs to fail.  A step that leaves the lookups without a failure is one
\* of DerivePayouts, which is enabled when they are in.
Fairness == /\ WF_vars(Check) /\ WF_vars(FetchCommissions)
            /\ WF_pc(LookupsIn /\ pc' \in {"general", "answered"})
            /\ \A t \in Tasks : WF_vars(PrefsAnswered(t)) /\ WF_vars(LedgerAnswered(t))

Spec == Init /\ [][Next]_vars /\ Fairness

-----------------------------------------------------------------------------
(* Properties. *)

\* Every lookup finds the ledger that its own chain has in the block that is
\* read, and no other, in whatever order the lookups of all eras are answered:
\* the cache they share is checked before and filled after their awaits, and a
\* validator may have a ledger on one chain and none on the other.
LookupsExact ==
  pc = "lookups" =>
    \A t \in Lookups(chain) :
      lookup[t] = "done" => (ledger[t] <=> Validator(t) \in world.ledgers[chain])

Answered == pc = "answered"

\* The chain that recorded what era e paid out.
Recorder(e) == IF request.migrated /\ e < world.last THEN "relay" ELSE "own"

\* An answer has no era twice, though the last era of the relay chain and the
\* first of the Asset Hub are one era, and none out of order; an era of the
\* range whose reward was recorded is answered from the chain that recorded it.
WholeHistory ==
  Answered =>
    /\ \A i, j \in DOMAIN payouts : i < j => payouts[i].era < payouts[j].era
    /\ \A e \in range[1]..range[2] :
         /\ Info(Recorder(e), e).reward
         /\ request.migrated /\ e >= world.last => e >= world.first
         => \E i \in DOMAIN payouts :
              payouts[i].era = e /\ ~payouts[i].message

\* What the account has at stake on a validator in an era, entry by entry, on
\* the page that is looked into: of a validator's pages deriveEraExposure keeps
\* the last.
Stakes(info, v) ==
  LET pages == {k \in DOMAIN info.pages : info.pages[k].validator = v}
      page == info.pages[Max(pages)]
      own == At(page.others, Mentions(page))
  IN  IF pages = {} THEN <<>>
      ELSE IF v = Account THEN <<info.own[v]>> ELSE [k \in DOMAIN own |-> own[k].value]

\* What an answered era pays on a validator: the exposure of each payout.
ExposuresPaid(answer, v) ==
  LET on == At(answer.payouts, {k \in DOMAIN answer.payouts : answer.payouts[k].validator = v})
  IN  [k \in DOMAIN on |-> on[k].exposure]

\* The account is paid for what it has on v: v has points and a ledger, and not
\* all is claimed if only the unclaimed is asked for.
Due(c, e, v) ==
  LET info == Info(c, e)
  IN  /\ info.points[v] > 0 /\ v \in world.ledgers[c]
      /\ request.unclaimedOnly =>
           info.claimed[v] < Cardinality({k \in DOMAIN info.pages : info.pages[k].validator = v})

\* Each era that is answered pays every nomination of the account once and
\* with its own exposure: on each validator with points and a ledger the
\* payouts are for the stakes that the account has on the validator's last
\* page, one by one, unless all is claimed and only the unclaimed is asked for.
\* The lookups run at once over a shared cache, several nominations may be on
\* one validator, and a stake on an earlier page is passed over without an
\* error.
NominationsPaid ==
  Answered =>
    \A i \in DOMAIN payouts :
      LET e == payouts[i].era
          c == Recorder(e)
      IN  ~payouts[i].message =>
            \A v \in Validators :
              ExposuresPaid(payouts[i], v)
                = IF Due(c, e, v) THEN Stakes(Info(c, e), v) ELSE <<>>

\* No era is read from the chain that is asked after the chain has pruned it,
\* or before its payout is known.
ReadsKept ==
  pc \in {"general", "lookups", "answered"} /\ chain = "own" =>
    \A e \in Part("own") :
      /\ world.historyDepth # 0 => e >= world.current - world.historyDepth
      /\ e # 0 => e < world.active

\* Every request is answered or refused, also when a lookup fails.
RequestSettles == pc = "idle" ~> pc \in {"answered", "refused"}
=============================================================================
