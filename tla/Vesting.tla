------------------------------- MODULE Vesting -------------------------------
(***************************************************************************)
(* GET /accounts/{account}/vesting-info with includeClaimable.  What has   *)
(* vested depends on a block number: the chain's own on a relay chain, and *)
(* on an Asset Hub after the migration that of the relay chain block the   *)
(* Asset Hub block was included in, which is searched for in batches after *)
(* the relay parent.  A relay block that cannot be read, or does not exist *)
(* yet, counts as one without the inclusion.                               *)
(*                                                                         *)
(* Everything is read in the state of one block, so the answer is a        *)
(* function of the request and of what the reads find.                     *)
(***************************************************************************)
EXTENDS Answer, Sequences, FiniteSets, SequencesExt

CONSTANTS Depth,      \* DEFAULT_SEARCH_DEPTH
          BatchSize,  \* BATCH_SIZE
          Boundary    \* IMigrationBoundaries of the chains that have some

ASSUME SearchAssumption == Depth \in Nat \ {0} /\ BatchSize \in Nat \ {0}
ASSUME BoundaryAssumption ==
  /\ Boundary \in [hubStart : Nat, hubEnd : Nat, relayStart : Nat, relayEnd : Nat]
  /\ Boundary.hubStart <= Boundary.hubEnd /\ Boundary.relayStart <= Boundary.relayEnd

Schedule == [locked : Nat, perBlock : Nat, startingBlock : Nat]

\* chain: the kind of the chain asked; known: the relay block of useRcBlock;
\* parent: relayParentNumber; included: the relay blocks with the inclusion;
\* unread: those whose events cannot be read.
Request == [chain : {"assetHub", "otherHub", "relay", "other"}, number : Nat,
            schedules : Seq(Schedule), lock : Nat, known : Nat \cup {Null},
            connected : BOOLEAN, parent : Nat, included : SUBSET Nat, unread : SUBSET Nat]

-----------------------------------------------------------------------------
(* vestingCalculations *)

Vested(now, s) ==
  LET amount == (now - s.startingBlock) * s.perBlock
  IN  IF now <= s.startingBlock THEN 0 ELSE IF amount <= s.locked THEN amount ELSE s.locked

TotalVested(now, schedules) == Sum([k \in DOMAIN schedules |-> Vested(now, schedules[k])])

VestingTotal(schedules) == Sum([k \in DOMAIN schedules |-> schedules[k].locked])

VestedClaimable(lock, total, vested) ==
  LET claimable == lock - (total - vested)
  IN  IF claimable >= 0 THEN claimable ELSE 0

-----------------------------------------------------------------------------
(* searchForInclusionBlock *)

\* The offsets of the for loop.
Batches == {k * BatchSize : k \in 0..((Depth - 1) \div BatchSize)}

Batch(parent, offset) ==
  {parent + offset + i : i \in 1..(IF Depth - offset < BatchSize THEN Depth - offset
                                   ELSE BatchSize)}

\* The blocks of a batch whose search promise resolves with their number.
Hits(r, offset) == Batch(r.parent, offset) \cap (r.included \ r.unread)

Least(S) == CHOOSE n \in S : \A m \in S : n <= m

InclusionBlock(r) ==
  LET hit == {offset \in Batches : Hits(r, offset) # {}}
  IN  IF hit = {} THEN Null ELSE Least(Hits(r, Least(hit)))

-----------------------------------------------------------------------------
(* AccountsVestingInfoService *)

HubState(number) ==
  IF number < Boundary.hubStart THEN "pre-migration"
  ELSE IF number >= Boundary.hubEnd THEN "post-migration"
  ELSE "during-migration"

RelayState(number) ==
  IF number < Boundary.relayStart THEN "pre-migration"
  ELSE IF number >= Boundary.relayEnd THEN "post-migration"
  ELSE "during-migration"

\* performCalculation
Calculation(r, now, source) ==
  LET vested == TotalVested(now, r.schedules)
      total == VestingTotal(r.schedules)
  IN  [vested |-> vested, total |-> total, at |-> now, source |-> source,
       claimable |-> VestedClaimable(r.lock, total, vested)]

\* createZeroClaimableResult
ZeroClaimable(r) ==
  [vested |-> 0, total |-> VestingTotal(r.schedules), at |-> r.number, source |-> "self",
   claimable |-> 0]

\* Faulty: without the inclusion the last block that was searched is taken.
RelayBlockLate(r) ==
  IF r.known # Null THEN r.known
  ELSE IF InclusionBlock(r) # Null THEN InclusionBlock(r)
  ELSE r.parent + Depth

\* The relay block an Asset Hub block is calculated at: the one useRcBlock
\* named, the inclusion, or else the relay parent.
RelayBlock(r) ==
  IF r.known # Null THEN r.known
  ELSE IF InclusionBlock(r) # Null THEN InclusionBlock(r)
  ELSE r.parent

\* calculateForAssetHub; Null leaves the schedules without a calculation.
ForAssetHub(r) ==
  IF r.chain = "otherHub" THEN Null
  ELSE CASE HubState(r.number) = "during-migration" -> ZeroClaimable(r)
         [] HubState(r.number) = "pre-migration" -> Null
         [] HubState(r.number) = "post-migration" ->
              IF r.known = Null /\ ~r.connected THEN Error
              ELSE Calculation(r, RelayBlock(r), "relay")

\* calculateForRelayChain
ForRelayChain(r) ==
  IF r.chain = "relay" /\ RelayState(r.number) # "pre-migration"
  THEN ZeroClaimable(r)
  ELSE Calculation(r, r.number, "self")

\* calculateVestingAmounts
VestingAmounts(r) ==
  IF r.chain \in {"assetHub", "otherHub"} THEN ForAssetHub(r) ELSE ForRelayChain(r)

-----------------------------------------------------------------------------
(* Properties. *)

IsCalculated(answer) == answer # Null /\ "claimable" \in DOMAIN answer

\* The block that decides what has vested when r's block is executed.
TrueBlock(r) ==
  IF r.chain # "assetHub" THEN r.number
  ELSE IF r.known # Null THEN r.known
  ELSE Least(r.included)

\* What a schedule still holds then: all but what its blocks have unlocked.
Held(now, s) ==
  s.locked - (IF now <= s.startingBlock THEN 0
              ELSE CHOOSE v \in 0..s.locked :
                     LET unlocked == (now - s.startingBlock) * s.perBlock
                     IN  \/ v = s.locked /\ s.locked <= unlocked
                         \/ v < s.locked /\ v = unlocked)

\* An answer never promises more than the chain unlocks: whatever reads fail,
\* the claimable amount is at most the lock less what the schedules still hold
\* at the true block, and no more has vested than was locked.
NeverOverstated(r) ==
  LET answer == VestingAmounts(r)
      held == Sum([k \in DOMAIN r.schedules |-> Held(TrueBlock(r), r.schedules[k])])
  IN  IsCalculated(answer) =>
        /\ answer.vested <= answer.total
        /\ answer.claimable <= r.lock
        /\ answer.claimable > 0 => answer.claimable <= r.lock - held

\* When the blocks up to the inclusion can be read and it is within Depth, the
\* amounts are those of the inclusion block itself, in whichever batch it is.
ExactWhenRead(r) ==
  /\ r.chain = "assetHub" /\ r.known = Null /\ r.connected
  /\ HubState(r.number) = "post-migration"
  /\ Least(r.included) <= r.parent + Depth
  /\ Least(r.included) \notin r.unread
  => VestingAmounts(r).at = Least(r.included)
=============================================================================
