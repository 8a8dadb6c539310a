------------------------------ MODULE Coretime ------------------------------
(***************************************************************************)
(* The /coretime routes: the price of a core and the phase of the sale at  *)
(* a block, the cores with what runs on them, and the leases.              *)
(* Everything is read in the state of one block.                           *)
(***************************************************************************)
EXTENDS Answer, Sequences, FiniteSets, SequencesExt, FiniteSetsExt

Scale == 10000

\* BN.div rounds towards zero.
Div(a, b) == IF a >= 0 THEN a \div b ELSE -((-a) \div b)

-----------------------------------------------------------------------------
(* Prices and phases *)

\* Faulty: the slope of the first half is kept for the second.
LeadinFactorSteep(when) == Scale * 100 - when * 180

LeadinFactorAt(when) ==
  IF when <= Scale \div 2 THEN Scale * 100 - when * 180 ELSE Scale * 19 - when * 18

\* sale: [saleStart, leadinLength, endPrice, regionBegin].  Nothing keeps the
\* elapsed time from being negative.  leadinLength # 0: the division throws.
CorePriceAt(now, sale) ==
  LET elapsed == now - sale.saleStart
      capped == IF elapsed < sale.leadinLength THEN elapsed ELSE sale.leadinLength
  IN  Div(LeadinFactorAt(Div(capped * Scale, sale.leadinLength)) * sale.endPrice, Scale)

\* The renewals branch is overwritten by the one that follows it.
PhaseConfiguration(regionStart, config, leadinLength, lastCommitted) ==
  LET renewalsEnd == regionStart + config.interludeLength
      discoveryEnd == renewalsEnd + leadinLength
  IN  [config |-> <<[phaseName |-> "renewals", lastTimeslice |-> renewalsEnd],
                    [phaseName |-> "priceDiscovery", lastTimeslice |-> discoveryEnd],
                    [phaseName |-> "fixedPrice",
                     lastTimeslice |-> discoveryEnd + config.regionLength
                                         - config.interludeLength - leadinLength]>>,
       currentPhaseName |->
         IF lastCommitted - regionStart < config.interludeLength + leadinLength
         THEN "priceDiscovery" ELSE "fixedPrice"]

\* getCoretimeInfo on a coretime chain.  getCorePriceAt takes a missing sale
\* apart, which throws, although every other field is prepared for it.
CoretimeInfo(now, config, sale, lastCommitted) ==
  IF sale = Null THEN Error
  ELSE IF sale.leadinLength = 0 THEN Error
  ELSE LET start == sale.regionBegin - config.regionLength
       IN  [currentRegion |-> [start |-> start, end |-> sale.regionBegin],
            currentCorePrice |-> CorePriceAt(now, sale),
            phase |-> PhaseConfiguration(start, config, sale.leadinLength, lastCommitted)]

-----------------------------------------------------------------------------
(* Cores: a core's task is that of the first item of its workload, and Null if  *)
(* the workload has no items.                                                  *)

SortByCore(entries) == Sorted(entries, [k \in DOMAIN entries |-> entries[k].core])

OfCore(entries, core) == Kept(entries, {k \in DOMAIN entries : entries[k].core = core})

\* The first that has a task, 0 if none has.
TaskAt(task, s) == SelectInSeq(s, LAMBDA t : t.task = task)

\* The condition of a core, in the order of the nested conditionals.
CoreType(task, leases, reservations) ==
  IF \E r \in ToSet(reservations) : r.task = task
  THEN IF task = "Pool" THEN "ondemand" ELSE "reservation"
  ELSE IF \E l \in ToSet(leases) : l.task = task THEN "lease" ELSE "bulk"

CoreDetails(task, leases, reservations) ==
  LET type == CoreType(task, leases, reservations)
  IN  IF type = "reservation"
      THEN reservations[TaskAt(task, reservations)].mask
      ELSE IF type = "lease" THEN leases[TaskAt(task, leases)].until
      ELSE Null

\* getCoretimeCores on a coretime chain: the task of a missing item throws, and
\* one core without items takes the answer of the others with it.
CoretimeCores(workload, workplan, leases, reservations, regions) ==
  LET sorted == SortByCore(workload)
  IN  IF \E w \in ToSet(workload) : w.task = Null THEN Error
      ELSE [i \in DOMAIN sorted |->
              [coreId |-> sorted[i].core,
               type |-> CoreType(sorted[i].task, leases, reservations),
               details |-> CoreDetails(sorted[i].task, leases, reservations),
               workplan |-> OfCore(SortByCore(workplan), sorted[i].core),
               regions |-> OfCore(regions, sorted[i].core)]]

-----------------------------------------------------------------------------
(* Leases, and the cores of a relay chain.  Here a task that is not Null is the *)
(* sequence of its characters.                                                 *)

Includes(text, part) ==
  \E k \in 0..Len(text) - Len(part) : SubSeq(text, k + 1, k + Len(part)) = part

\* The entry of the workload that a lease is taken to run on.
EntryOf(workload, lease) ==
  SelectInSeq(workload, LAMBDA w : w.task = Null \/ Includes(w.task, lease.task))

\* hasBroker is false on a relay chain as well, where the route throws.  A
\* comparison with an undefined core is not a number, so that what follows of the
\* order is left open: such leases stay where they are.
CoretimeLeases(hasBroker, workload, leases) ==
  LET sorted == SortByCore(workload)
      entry(lease) == EntryOf(sorted, lease)
      withCore == [k \in DOMAIN leases |->
                     [task |-> leases[k].task, until |-> leases[k].until,
                      core |-> IF entry(leases[k]) = 0 THEN Null ELSE sorted[entry(leases[k])].core]]
  IN  IF ~hasBroker \/ \E l \in ToSet(leases) : entry(l) # 0 /\ sorted[entry(l)].task = Null
      THEN Error
      ELSE IF \E l \in ToSet(withCore) : l.core = Null THEN withCore ELSE SortByCore(withCore)

CoreRunning(para, descriptors) == SelectInSeq(descriptors, LAMBDA d : para \in ToSet(d.tasks))

\* Of a para that has several cores the first is told, of one that has none nothing.
RelayCores(paras, descriptors) ==
  LET coreOf(para) == CoreRunning(para, descriptors)
      withCore == Kept(paras, {k \in DOMAIN paras : coreOf(paras[k]) # 0})
  IN  [k \in DOMAIN withCore |-> [para |-> withCore[k],
                                 tasks |-> descriptors[coreOf(withCore[k])].tasks]]

-----------------------------------------------------------------------------
(* Properties. *)

\* From the start of the sale the price falls with every block from a hundred
\* times the end price down to it, has a tenth of its first height half way,
\* and stays at the end price.
CorePriceFalls(sale) ==
  LET price(n) == CorePriceAt(sale.saleStart + n, sale)
      length == sale.leadinLength
  IN  length > 0 =>
        /\ price(0) = 100 * sale.endPrice /\ price(length) = sale.endPrice
        /\ length % 2 = 0 => price(length \div 2) = 10 * sale.endPrice
        /\ \A n \in 0..length : price(n + 1) <= price(n) /\ sale.endPrice <= price(n)

\* The phases follow each other up to the end of the region, and the fixed
\* price is said to have begun exactly when its boundary has been committed.
PhasesOrdered(now, config, sale, lastCommitted) ==
  LET info == CoretimeInfo(now, config, sale, lastCommitted)
      last(k) == info.phase.config[k].lastTimeslice
  IN  info # Error /\ config.interludeLength + sale.leadinLength <= config.regionLength =>
        /\ info.currentRegion.start <= last(1) /\ last(1) <= last(2) /\ last(2) <= last(3)
        /\ last(3) = info.currentRegion.end
        /\ info.phase.currentPhaseName = "fixedPrice" <=> last(2) <= lastCommitted

\* Whatever the order of the storage entries, every core with a workload is, if
\* the route answers at all, answered once, in the order of the cores, with its own plans and regions,
\* each plan kept; the term of a lease is told of a core only if the lease is
\* of the task that runs there and no reservation is.
CoresExact(workload, workplan, leases, reservations, regions) ==
  LET cores == CoretimeCores(workload, workplan, leases, reservations, regions)
  IN  cores # Error =>
        /\ \A i \in DOMAIN cores, j \in DOMAIN cores : i < j => cores[i].coreId < cores[j].coreId
        /\ {cores[i].coreId : i \in DOMAIN cores} = {w.core : w \in ToSet(workload)}
        /\ \A p \in ToSet(workplan), w \in ToSet(workload) : p.core = w.core =>
             \E i \in DOMAIN cores : cores[i].coreId = w.core /\ p \in ToSet(cores[i].workplan)
        /\ \A i \in DOMAIN cores : cores[i].type = "lease" =>
             \E w \in ToSet(workload), l \in ToSet(leases) :
               /\ w.core = cores[i].coreId /\ w.task = l.task /\ cores[i].details = l.until
               /\ \A r \in ToSet(reservations) : r.task # w.task

\* Every lease is told once, with its term, in the order of the cores; and unless
\* the number of one task is a part of another's, with the first core its task
\* runs on, and with none only if it runs on none.
LeasesTold(hasBroker, workload, leases) ==
  LET told == CoretimeLeases(hasBroker, workload, leases)
      coresOf(task) == {w.core : w \in {v \in ToSet(workload) : v.task = task}}
      apart == \A l \in ToSet(leases), w \in ToSet(workload) :
                 Includes(w.task, l.task) => w.task = l.task
  IN  told # Error =>
        /\ Len(told) = Len(leases)
        /\ {[task |-> l.task, until |-> l.until] : l \in ToSet(told)} = ToSet(leases)
        /\ \A k, m \in DOMAIN told :
             k < m /\ Null \notin {l.core : l \in ToSet(told)} => told[k].core <= told[m].core
        /\ Null \notin {w.task : w \in ToSet(workload)} /\ apart =>
             \A l \in ToSet(told) :
               l.core = IF coresOf(l.task) = {} THEN Null ELSE Min(coresOf(l.task))

\* A para is told exactly if a core runs it, once, in order, and with work of its.
RelayCoresTold(paras, descriptors) ==
  LET told == RelayCores(paras, descriptors)
  IN  /\ [k \in DOMAIN told |-> told[k].para] =
           Kept(paras, {k \in DOMAIN paras : \E d \in ToSet(descriptors) : paras[k] \in ToSet(d.tasks)})
      /\ \A t \in ToSet(told) : t.para \in ToSet(t.tasks)
=============================================================================
