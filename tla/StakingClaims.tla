---------------------------- MODULE StakingClaims ----------------------------
(***************************************************************************)
(* GET /accounts/{account}/staking-info with includeClaimedRewards: for    *)
(* each era of the history, whether its reward was claimed.  Claims were   *)
(* once kept as a list in the ledger and are now kept by page; the loop    *)
(* over the eras starts behind a validator's list.  A nominator is told of *)
(* by the validators it nominates.                                         *)
(*                                                                         *)
(* All reads are of one block.  Runtimes so old that a ledger has          *)
(* lastReward keep no claims by page: for them the loop ends at once, with *)
(* that one era; they are left out.                                        *)
(***************************************************************************)
EXTENDS Answer, Sequences, FiniteSets, SequencesExt

\* A request is [hub, claims, start, depth, isValidator, legacy, own, targets]:
\* hub, the Asset Hub's handler; claims, the storage that holds claims by page,
\* "claimedRewards", "erasClaimedRewards" or Null; start, currentEra - depth or 0;
\* legacy, the list of the account's ledger; own, the account as a validator; and
\* the nominated validators.  A validator is [bonded, legacy, pages, total,
\* claimed, page]: by era, the pages of its overview (0: none), whether erasStakers
\* has a total, its claimed pages, and the page the account is on (Null: none).

ClaimsStorages == {"claimedRewards", "erasClaimedRewards"}
ASSUME StorageAssumption == Null \notin ClaimsStorages

Claim(era, status) == [era |-> era, status |-> status]

LegacyClaims(eras) == [i \in DOMAIN eras |-> Claim(eras[i], "claimed")]

InRange(r, era) == era < r.start + r.depth

-----------------------------------------------------------------------------
(* isOldCallsChecked: a list that reaches into the range replaces the answer  *)
(* and moves the loop behind it; an older one is kept only if it is as long   *)
(* as the range.  Eras in a ledger are in order, so that its third branch,    *)
(* where the first of them starts the range, is part of the first.            *)

AfterLegacy(r, eras, era, rewards) ==
  IF eras = <<>> THEN [era |-> era, rewards |-> rewards]
  ELSE IF r.start <= Last(eras) THEN [era |-> Last(eras) + 1, rewards |-> LegacyClaims(eras)]
  ELSE [era |-> era, rewards |-> IF Len(eras) = r.depth THEN LegacyClaims(eras) ELSE <<>>]

-----------------------------------------------------------------------------
(* The status of one era of one validator *)

\* fetchErasStatusForValidator and -AssetHub; Null if the era has no exposure.
ValidatorStatus(r, v, era) ==
  LET count == Cardinality(v.claimed[era])
  IN  IF v.pages[era] > 0
      THEN IF count = 0 THEN "unclaimed"
           ELSE IF count = v.pages[era] THEN "claimed" ELSE "partially claimed"
      ELSE IF ~r.hub /\ v.total[era] THEN IF count = 1 THEN "claimed" ELSE "unclaimed"
      ELSE Null

\* ErasStatusNominatorForValPartiallyClaimed
PageStatus(v, era) ==
  IF v.page[era] = Null THEN "undefined"
  ELSE IF v.page[era] \in v.claimed[era] THEN "claimed" ELSE "unclaimed"

\* The nominator's handler has no Asset Hub variant: erasStakers counts there too.
NominatorStatus(v, era) ==
  LET status == ValidatorStatus([hub |-> FALSE], v, era)
  IN  IF status = "partially claimed" THEN PageStatus(v, era) ELSE status

-----------------------------------------------------------------------------
(* fetchErasStatusForNominator *)

\* The validator's old list, consulted as long as the answer is empty.  What it
\* leaves is a new array (shared: FALSE) unless the list is empty.
Consult(r, st, v) ==
  LET after == AfterLegacy(r, v.legacy, st.era, st.rewards)
  IN  IF r.hub \/ st.rewards # <<>> \/ v.legacy = <<>> THEN st
      ELSE [st EXCEPT !.era = after.era, !.rewards = after.rewards, !.shared = FALSE]

\* Faulty: the loop over the nominated validators goes on after an answer.
AskTargetAlways(r, st, i) ==
  LET v == r.targets[i]
      asked == Consult(r, st, v)
      status == NominatorStatus(v, asked.era)
  IN  IF ~r.hub /\ st.rewards = <<>> /\ ~v.bonded THEN st
      ELSE IF r.claims # "claimedRewards" THEN asked
      ELSE IF status = Null THEN asked
      ELSE [asked EXCEPT !.rewards = Append(@, Claim(asked.era, status))]

\* One round of the loop over the nominated validators.
AskTarget(r, st, i) ==
  LET v == r.targets[i]
      asked == Consult(r, st, v)
      status == NominatorStatus(v, asked.era)
      answer(s) == [asked EXCEPT !.rewards = Append(@, Claim(asked.era, s)), !.found = TRUE]
  IN  IF st.found \/ (~r.hub /\ st.rewards = <<>> /\ ~v.bonded) THEN st
      ELSE IF r.claims # "claimedRewards" THEN asked
      ELSE IF status # Null THEN answer(status)
      ELSE IF i = Len(r.targets) THEN answer("undefined")
      ELSE asked

\* rewards: claimedRewardsNom; the loop's e comes back changed.
AskTargets(r, era, rewards) ==
  FoldLeft(LAMBDA st, i : AskTarget(r, st, i),
           [era |-> era, rewards |-> rewards, shared |-> TRUE, found |-> FALSE],
           [i \in DOMAIN r.targets |-> i])

-----------------------------------------------------------------------------
(* fetchAccountStakingInfo and -AssetHub: the loop over the eras.  l is       *)
(* [era, checked, rewards, nom, stopped]; rewards is claimedRewards.          *)

FirstRound(r) == [era |-> r.start, checked |-> r.hub, rewards |-> <<>>, nom |-> <<>>, stopped |-> FALSE]

Ended(r, l) == l.stopped \/ ~InRange(r, l.era)

OldCalls(r, l) ==
  LET after == AfterLegacy(r, r.legacy, l.era, l.rewards)
  IN  IF l.checked THEN l
      ELSE [l EXCEPT !.checked = TRUE, !.era = after.era, !.rewards = after.rewards]

Answerable(r) == IF r.hub THEN r.claims # Null ELSE r.claims = "claimedRewards"

ValidatorRound(r, l) ==
  LET status == ValidatorStatus(r, r.own, l.era)
  IN  [l EXCEPT !.era = @ + 1,
                !.rewards = IF status = Null THEN @ ELSE Append(@, Claim(l.era, status))]

\* claimedRewardsNom is set to claimedRewards in each round of the relay chain's
\* handler: they are one array, which grows, until a validator's old list puts
\* another in place of the first and leaves claimedRewards as it was.
NominatorRound(r, l) ==
  LET asked == AskTargets(r, l.era, IF r.hub THEN l.nom ELSE l.rewards)
  IN  [l EXCEPT !.era = asked.era + 1, !.nom = asked.rewards,
                !.rewards = IF asked.shared /\ ~r.hub THEN asked.rewards ELSE @]

Round(r, l) ==
  LET checked == OldCalls(r, l)
  IN  IF Ended(r, l) THEN l
      ELSE IF ~Answerable(r) THEN [checked EXCEPT !.nom = checked.rewards, !.stopped = TRUE]
      ELSE IF r.isValidator THEN ValidatorRound(r, checked)
      ELSE IF r.targets = <<>> THEN [checked EXCEPT !.era = @ + 1, !.nom = checked.rewards]
      ELSE NominatorRound(r, checked)

\* A round for each era, if the era moves on in each.
Rounds(r) == FoldLeft(LAMBDA l, n : Round(r, l), FirstRound(r), [n \in 1..r.depth |-> n])

ClaimedRewards(r) == IF r.isValidator THEN Rounds(r).rewards ELSE Rounds(r).nom

-----------------------------------------------------------------------------
(* Properties. *)

ErasOf(claims) == {claims[i].era : i \in DOMAIN claims}

Once(claims) == Cardinality(ErasOf(claims)) = Len(claims)

\* A validator is told of every era at most once; of every era of the range
\* that its old list does not reach and in which it was exposed, with the pages
\* claimed there; and of no era after the current one.
ValidatorClaimsExact(r) ==
  LET claims == ClaimedRewards(r)
      told(e) == \E i \in DOMAIN claims : claims[i] = Claim(e, ValidatorStatus(r, r.own, e))
  IN  r.isValidator /\ Answerable(r) =>
        /\ Ended(r, Rounds(r)) /\ Once(claims)
        /\ ErasOf(claims) \subseteq ToSet(r.legacy) \cup r.start..(r.start + r.depth)
        /\ \A e \in r.start..(r.start + r.depth - 1) :
             (r.legacy = <<>> \/ r.hub \/ Last(r.legacy) < e) /\ ValidatorStatus(r, r.own, e) # Null
               => told(e)

\* The old list of v ends two eras or more before the range does.
Rewinds(r, v) == v.legacy # <<>> /\ Last(v.legacy) \in r.start..(r.start + r.depth - 3)

\* A nominator whose validators have no old list is told of each era once, by
\* the first validator that was exposed; and unless an old list ends two eras or
\* more before the range does, the loop over the eras comes to its end.  Of the
\* lists that do, nothing is said here: that the loop ends with them too is
\* promised by the guide, see DocumentedAnswers.
NominatorClaimsExact(r) ==
  LET claims == ClaimedRewards(r)
      first(e) == {i \in DOMAIN r.targets :
                     /\ NominatorStatus(r.targets[i], e) # Null
                     /\ \A j \in 1..(i - 1) : NominatorStatus(r.targets[j], e) = Null}
      rewinds == {i \in DOMAIN r.targets : Rewinds(r, r.targets[i])}
  IN  ~r.isValidator /\ r.claims = "claimedRewards" /\ r.targets # <<>>
        /\ (\A i \in DOMAIN r.targets : r.targets[i].bonded)
        /\ (r.hub \/ r.legacy = <<>>) =>
        /\ r.hub \/ rewinds = {} => Ended(r, Rounds(r))
        /\ (r.hub \/ \A i \in DOMAIN r.targets : r.targets[i].legacy = <<>>) =>
             /\ Once(claims) /\ ErasOf(claims) = r.start..(r.start + r.depth - 1)
             /\ \A i \in DOMAIN claims : \A k \in first(claims[i].era) :
                  claims[i].status = NominatorStatus(r.targets[k], claims[i].era)
=============================================================================
