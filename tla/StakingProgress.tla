--------------------------- MODULE StakingProgress ---------------------------
(***************************************************************************)
(* GET /pallets/staking/progress: where the session and the era stand and  *)
(* when the next ones are expected.  On an Asset Hub the epoch is computed *)
(* from the timestamp of the block and the session from the epoch and the  *)
(* skipped epochs of the relay chain.                                      *)
(***************************************************************************)
EXTENDS Answer, Sequences, FiniteSets

CONSTANTS EpochDuration,   \* slots in an epoch
          GenesisSlot,     \* slot of the first block
          SessionsPerEra   \* consts.staking.sessionsPerEra

ASSUME BabeAssumption ==
  /\ EpochDuration \in Nat \ {0} /\ GenesisSlot \in Nat
  /\ SessionsPerEra \in Nat \ {0}

-----------------------------------------------------------------------------
(* The session and the era *)

\* skipped: a set of pairs <<epoch, session>> of babe.skippedEpochs.
\* Faulty: the latest skip is taken, also one that is still to come.
SessionIndexOfLast(epoch, skipped) ==
  IF skipped = {} THEN epoch
  ELSE LET last == CHOOSE p \in skipped : \A q \in skipped : q[1] <= p[1]
       IN  epoch - (last[1] - last[2])

\* calculateSessionIndexFromSkippedEpochs
SessionIndex(epoch, skipped) ==
  LET before == {p \in skipped : p[1] <= epoch}
      closest == CHOOSE p \in before : \A q \in before : q[1] <= p[1]
  IN  IF before = {} THEN epoch ELSE epoch - (closest[1] - closest[2])

EraLength == SessionsPerEra * EpochDuration

\* What both derivations compute of the slot, the epoch, the session and the
\* first session of the active era.
Progress(slot, epoch, session, eraStart) ==
  LET inSession == slot - (epoch * EpochDuration + GenesisSlot)
  IN  [sessionProgress |-> inSession,
       eraProgress |-> (session - eraStart) * EpochDuration + inSession]

\* deriveSessionAndEraProgress: the pallets say which epoch and session it is.
ProgressOnChain(slot, epoch, session, eraStart) ==
  Progress(slot, epoch, session, eraStart)

\* deriveSessionAndEraProgressAssetHub
ProgressOnAssetHub(slot, skipped, eraStart) ==
  LET epoch == (slot - GenesisSlot) \div EpochDuration
  IN  Progress(slot, epoch, SessionIndex(epoch, skipped), eraStart)

-----------------------------------------------------------------------------
(* derivePalletStakingProgress *)

NextSession(now, p) == EpochDuration - p.sessionProgress + now

NextActiveEra(now, p, forceAlways) ==
  IF forceAlways THEN NextSession(now, p) ELSE EraLength - p.eraProgress + now

\* The current era changes a session before the active era does.
NextCurrentEra(now, p, forceAlways) ==
  LET next == NextActiveEra(now, p, forceAlways)
  IN  IF next - now - EpochDuration > 0 THEN next - EpochDuration
      ELSE next + EraLength - EpochDuration

\* toggleEstimate: Null where no election window is told.
Toggle(now, p, forceAlways, lookAhead, isClose) ==
  IF lookAhead = 0 THEN Null
  ELSE IF isClose THEN NextCurrentEra(now, p, forceAlways) - lookAhead
  ELSE NextCurrentEra(now, p, forceAlways)

-----------------------------------------------------------------------------
(* Properties. *)

\* epochs[s + 1]: the epoch session s was in; an epoch passes without a session
\* when the relay chain makes no block in it.
Skipped(epochs) ==
  {<<epochs[s], s - 1>> : s \in {i \in DOMAIN epochs :
                                  epochs[i] # IF i = 1 THEN 0 ELSE epochs[i - 1] + 1}}

\* The session that the Asset Hub derives from the time alone is the one the
\* relay chain is in, however many epochs it skipped and whether or not it has
\* recorded a later skip since; so both derivations agree.
SessionExact(epochs, s, inEpoch, eraStart) ==
  LET slot == GenesisSlot + epochs[s + 1] * EpochDuration + inEpoch
  IN  ProgressOnAssetHub(slot, Skipped(epochs), eraStart)
        = ProgressOnChain(slot, epochs[s + 1], s, eraStart)

\* The estimates are ahead of the block and in order: the next session within
\* one session, the next active era at the end of a session and, while the era
\* is within its sessions, no sooner than the next session; the next current
\* era at most one era ahead and never one that has already been.
EstimatesAhead(now, s, inEpoch, eraStart, forceAlways) ==
  s - eraStart \in 0..(SessionsPerEra - 1) =>
    LET p == Progress(GenesisSlot + s * EpochDuration + inEpoch, s, s, eraStart)
        session == NextSession(now, p)
        active == NextActiveEra(now, p, forceAlways)
        current == NextCurrentEra(now, p, forceAlways)
    IN  /\ now < session /\ session <= now + EpochDuration
        /\ session <= active /\ (active - session) % EpochDuration = 0
        /\ now < current /\ current <= now + EraLength
=============================================================================
