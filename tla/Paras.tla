-------------------------------- MODULE Paras --------------------------------
(***************************************************************************)
(* Lease periods, crowdloans and auctions of parachains: what the /paras   *)
(* routes compute from the state of one relay chain block.                 *)
(***************************************************************************)
EXTENDS Answer, Sequences, FiniteSets, SequencesExt

CONSTANTS LeasePeriod, LeaseOffset,      \* consts.slots
          EndingPeriod, SampleLength,    \* consts.auctions
          LeasePeriodsPerSlot

ASSUME ConstsAssumption ==
  /\ LeasePeriod \in Nat \ {0} /\ LeaseOffset \in Nat
  /\ SampleLength \in Nat \ {0} /\ EndingPeriod \in Nat \ {0}
  /\ EndingPeriod % SampleLength = 0
  /\ LeasePeriodsPerSlot \in Nat \ {0}

-----------------------------------------------------------------------------
(* Leases *)

\* Faulty: forgets the offset of the first lease period.
LeasePeriodIndexNoOffset(now) == now \div LeasePeriod

LeasePeriodIndexAt(now) ==
  IF now < LeaseOffset THEN Null ELSE (now - LeaseOffset) \div LeasePeriod

\* endOfLeasePeriod of leasesCurrent
EndOfLeasePeriod(now) ==
  IF LeasePeriodIndexAt(now) = Null THEN Null
  ELSE LeasePeriodIndexAt(now) * LeasePeriod + LeasePeriod + LeaseOffset

\* leases[i]: the holder in the i-th period from now on, or Null.  leaseInfo
\* answers those that are held.
LeasesFormatted(now, leases) ==
  LET held == Kept([i \in DOMAIN leases |-> i], {i \in DOMAIN leases : leases[i] # Null})
  IN  IF leases = <<>> THEN Null
      ELSE [k \in DOMAIN held |->
              [leasePeriodIndex |-> IF LeasePeriodIndexAt(now) = Null THEN Null
                                    ELSE LeasePeriodIndexAt(now) + held[k] - 1,
               account |-> leases[held[k]]]]

\* currentLeaseHolders of leasesCurrent, leasesOf by paraId.
CurrentLeaseHolders(leasesOf) ==
  {p \in DOMAIN leasesOf : leasesOf[p] # <<>> /\ leasesOf[p][1] # Null}

\* leasePeriods of crowdloansInfo
CrowdloanPeriods(firstPeriod, lastPeriod) ==
  [i \in 1..(lastPeriod - firstPeriod + 1) |-> firstPeriod + i - 1]

-----------------------------------------------------------------------------
(* Auctions *)

Phase(now, beginEnd) ==
  IF beginEnd + EndingPeriod <= now THEN "vrfDelay"
  ELSE IF beginEnd > now THEN "startPeriod" ELSE "endPeriod"

\* No offset is answered in the startPeriod: the early return comes first.
EndingOffset(now, beginEnd, phase) ==
  IF now <= beginEnd THEN Null
  ELSE IF phase = "startPeriod" THEN 0
  ELSE IF phase = "endPeriod" THEN (now - beginEnd) \div SampleLength
  ELSE Null

\* The lease sets of one start, shortest first.
LeaseSetsFrom(first, start) ==
  [n \in 1..(LeasePeriodsPerSlot - start) |-> [i \in 1..n |-> first + start + i - 1]]

\* enumerateLeaseSets: the three loops.
LeaseSets(first) ==
  FlattenSeq([s \in 1..LeasePeriodsPerSlot |-> LeaseSetsFrom(first, s - 1)])

\* auctionsCurrent.  auction is <<first lease period, beginEnd>> or Null;
\* winningAt[k]: the bids at sample k, in the order of the pallet's SlotRange.
AuctionsCurrent(now, auction, winningAt) ==
  IF auction = Null THEN [phase |-> Null, leasePeriods |-> Null, winning |-> Null]
  ELSE LET phase == Phase(now, auction[2])
           offset == EndingOffset(now, auction[2], phase)
           sets == LeaseSets(auction[1])
       IN  [phase |-> phase,
            leasePeriods |-> [i \in 1..LeasePeriodsPerSlot |-> auction[1] + i - 1],
            winning |-> IF offset = Null THEN Null
                        ELSE [k \in DOMAIN winningAt[offset] |->
                                [bid |-> winningAt[offset][k], leaseSet |-> sets[k]]]]

-----------------------------------------------------------------------------
(* Properties. *)

\* What the lease routes say of one block fits together: it lies in the period
\* that is answered, that period ends where it is said to, and the k-th lease
\* of a para is held in the k-th period from that one.
LeasePeriodsExact(now, leases) ==
  now >= LeaseOffset =>
    LET index == LeasePeriodIndexAt(now)
        end == EndOfLeasePeriod(now)
        formatted == LeasesFormatted(now, leases)
    IN  /\ now < end /\ end - LeasePeriod <= now
        /\ end = LeaseOffset + (index + 1) * LeasePeriod
        /\ \A k \in DOMAIN leases : leases[k] # Null =>
             \E j \in DOMAIN formatted :
               formatted[j] = [leasePeriodIndex |->
                                 LeasePeriodIndexAt(now + (k - 1) * LeasePeriod),
                               account |-> leases[k]]

\* The ranges of lease periods that bids are made for, and those before one:
\* ranges are ordered by their first period and then by their last.
SlotRanges ==
  {r \in (0..(LeasePeriodsPerSlot - 1)) \X (0..(LeasePeriodsPerSlot - 1)) : r[1] <= r[2]}

RangesBefore(r) ==
  {q \in SlotRanges : q[1] < r[1] \/ (q[1] = r[1] /\ q[2] < r[2])}

\* The range that the pallet's SlotRange k stands for.
SlotRange(k) == CHOOSE r \in SlotRanges : Cardinality(RangesBefore(r)) = k - 1

\* From the second block of an auction's ending period on every winning bid is
\* answered, of the sample the block lies in and with the lease periods it was
\* made for, and the sample is one the pallet keeps; once the period is over none
\* is.  The blocks up to beginEnd are left to DocumentedAnswers.
WinningExact(now, auction, winningAt) ==
  auction # Null /\ auction[2] < now =>
    LET answer == AuctionsCurrent(now, auction, winningAt)
        sample == (now - auction[2]) \div SampleLength
        leaseSet(r) == [i \in 1..(r[2] - r[1] + 1) |-> auction[1] + r[1] + i - 1]
    IN  IF now < auction[2] + EndingPeriod
        THEN /\ sample \in 0..(EndingPeriod \div SampleLength - 1)
             /\ answer.winning = [k \in DOMAIN winningAt[sample] |->
                                    [bid |-> winningAt[sample][k],
                                     leaseSet |-> leaseSet(SlotRange(k))]]
        ELSE answer.winning = Null
=============================================================================
