---------------------------- MODULE ServiceProofs ----------------------------
(***************************************************************************)
(* The services that walk through what a block or the state holds: the     *)
(* cores of the coretime routes, the events and messages of a block, the   *)
(* eras of a staker and the spans of a trace.                              *)
(*                                                                         *)
(* For every input of such a computation: what Algorithms promises of it.  *)
(* Each loop is a function of the number of its rounds, and what is told   *)
(* after each round is proved by induction on that number.                 *)
(***************************************************************************)
EXTENDS ServerProofs

-----------------------------------------------------------------------------
(* Coretime *)

\* Sales of a coretime chain and its configuration.
Sales == [saleStart : Int, leadinLength : Nat, endPrice : Nat, regionBegin : Int]
Lengths == [interludeLength : Nat, regionLength : Nat]

\* A quotient grows with what is divided.
LEMMA QuotientGrows ==
  ASSUME NEW a \in Nat, NEW b \in Nat, NEW d \in Nat \ {0}, a <= b
  PROVE  a \div d <= b \div d
<1> DEFINE x == a \div d
           y == b \div d
<1>1. x \in Nat /\ y \in Nat /\ x * d <= a /\ b < y * d + d
  BY Division
<1> HIDE DEF x, y
<1>2. CASE x <= y
  BY <1>2 DEF x, y
<1>3. CASE ~(x <= y)
  <2>1. x >= y + 1
    BY <1>1, <1>3
  <2>2. x * d >= (y + 1) * d
    BY <1>1, <2>1
  <2>3. (y + 1) * d = y * d + d
    BY <1>1
  <2> QED BY <1>1, <2>2, <2>3
<1> QED BY <1>2, <1>3

\* The share of the leadin that has passed, from none to all of it.
LEMMA ShareOfLeadin ==
  ASSUME NEW length \in Nat \ {0}, NEW n \in 0..length
  PROVE  /\ Div(n * Scale, length) = (n * Scale) \div length
         /\ (n * Scale) \div length \in 0..Scale
<1>1. n * Scale \in Nat /\ n * Scale <= length * Scale /\ Scale \in Nat
  BY DEF Scale
<1>2. (length * Scale) \div length = Scale
  <2>1. (Scale * length + 0) \div length = Scale
    BY <1>1, QuotientOf
  <2>2. Scale * length + 0 = length * Scale
    BY <1>1
  <2> QED BY <2>1, <2>2
<1>3. (n * Scale) \div length <= (length * Scale) \div length
  BY <1>1, QuotientGrows
<1>4. (n * Scale) \div length \in Nat
  BY <1>1, Division
<1> QED BY <1>1, <1>2, <1>3, <1>4 DEF Div

LEMMA FactorIsLarge ==
  ASSUME NEW w \in 0..Scale
  PROVE  LeadinFactorAt(w) \in Nat /\ Scale <= LeadinFactorAt(w)
BY DEF LeadinFactorAt, Scale

LEMMA FactorFalls ==
  ASSUME NEW v \in 0..Scale, NEW w \in 0..Scale, v <= w
  PROVE  /\ LeadinFactorAt(v) \in Nat /\ LeadinFactorAt(w) \in Nat
         /\ LeadinFactorAt(w) <= LeadinFactorAt(v) /\ Scale <= LeadinFactorAt(w)
BY DEF LeadinFactorAt, Scale

PriceOf(factor, price) == Div(factor * price, Scale)

Capped(elapsed, length) == IF elapsed < length THEN elapsed ELSE length
PriceAfter(n, length, price) == PriceOf(LeadinFactorAt(Div(n * Scale, length)), price)

LEMMA PriceUnfolds ==
  ASSUME NEW now, NEW sale
  PROVE  CorePriceAt(now, sale) = PriceAfter(Capped(now - sale.saleStart, sale.leadinLength),
                                             sale.leadinLength, sale.endPrice)
BY DEF CorePriceAt, PriceOf, Capped, PriceAfter

LEMMA PriceIs ==
  ASSUME NEW factor \in Nat, NEW price \in Nat
  PROVE  PriceOf(factor, price) = (factor * price) \div Scale
<1>1. factor * price \in Nat
  OBVIOUS
<1> QED BY <1>1 DEF PriceOf, Div

LEMMA PriceGrows ==
  ASSUME NEW f \in Nat, NEW g \in Nat, NEW price \in Nat, f <= g
  PROVE  PriceOf(f, price) <= PriceOf(g, price)
<1>1. f * price \in Nat /\ g * price \in Nat /\ f * price <= g * price
  OBVIOUS
<1>2. Scale \in Nat \ {0}
  BY DEF Scale
<1> HIDE DEF Scale
<1>3. (f * price) \div Scale <= (g * price) \div Scale
  BY <1>1, <1>2, QuotientGrows
<1> QED BY <1>3, PriceIs

\* A price of a multiple of the scale is that multiple of the end price.
LEMMA WholePrice ==
  ASSUME NEW m \in Nat, NEW price \in Nat
  PROVE  PriceOf(m * Scale, price) = m * price
<1>1. Scale \in Nat \ {0} /\ m * price \in Nat /\ m * Scale \in Nat
  BY DEF Scale
<1>2. ((m * price) * Scale + 0) \div Scale = m * price
  BY <1>1, QuotientOf
<1>3. (m * Scale) * price = (m * price) * Scale + 0
  BY <1>1
<1> QED BY <1>1, <1>2, <1>3, PriceIs

\* The price of a core, for any sale.
LEMMA EveryPriceFalls ==
  ASSUME NEW sale \in Sales
  PROVE  CorePriceFalls(sale)
<1> DEFINE length == sale.leadinLength
           end == sale.endPrice
           price(n) == CorePriceAt(sale.saleStart + n, sale)
           share(n) == (n * Scale) \div length
           factor(n) == LeadinFactorAt(share(n))
<1> SUFFICES ASSUME length > 0
             PROVE  /\ price(0) = 100 * end /\ price(length) = end
                    /\ length % 2 = 0 => price(length \div 2) = 10 * end
                    /\ \A n \in 0..length : price(n + 1) <= price(n) /\ end <= price(n)
  BY DEF CorePriceFalls
<1>1. length \in Nat \ {0} /\ end \in Nat /\ sale.saleStart \in Int
  BY DEF Sales
<1>0. ASSUME NEW n \in Int PROVE price(n) = PriceAfter(Capped(n, length), length, end)
  <2>1. price(n) = PriceAfter(Capped((sale.saleStart + n) - sale.saleStart, length), length, end)
    BY PriceUnfolds
  <2>2. (sale.saleStart + n) - sale.saleStart = n
    BY <1>1
  <2> HIDE DEF price
  <2> QED BY <2>1, <2>2
<1>2. ASSUME NEW n \in 0..length
      PROVE  /\ share(n) \in 0..Scale
             /\ price(n) = PriceOf(factor(n), end)
  <2>1. n \in Int /\ Capped(n, length) = n
    BY <1>1 DEF Capped
  <2>3. price(n) = PriceOf(LeadinFactorAt(Div(n * Scale, length)), end)
    <3> HIDE DEF price
    <3> QED BY <1>0, <2>1 DEF PriceAfter
  <2>4. Div(n * Scale, length) = share(n) /\ share(n) \in 0..Scale
    BY <1>1, ShareOfLeadin
  <2> QED BY <2>3, <2>4
<1>3. price(length + 1) = price(length)
  <2>1. /\ length \in Int /\ length + 1 \in Int
        /\ Capped(length + 1, length) = length /\ Capped(length, length) = length
    BY <1>1 DEF Capped
  <2> HIDE DEF price
  <2> QED BY <1>0, <2>1
<1>4. price(0) = 100 * end
  <2>1. share(0) = 0
    <3>1. (0 * length + 0) \div length = 0
      BY <1>1, QuotientOf
    <3>2. 0 * length + 0 = 0 * Scale
      BY <1>1 DEF Scale
    <3> QED BY <3>1, <3>2
  <2>2. factor(0) = 100 * Scale
    <3> HIDE DEF share
    <3> QED BY <2>1 DEF LeadinFactorAt, Scale
  <2>3. 0 \in 0..length
    BY <1>1
  <2> HIDE DEF price, factor
  <2> QED BY <1>1, <1>2, <2>2, <2>3, WholePrice
<1>5. price(length) = end
  <2>1. share(length) = Scale
    <3>1. (Scale * length + 0) \div length = Scale
      BY <1>1, QuotientOf DEF Scale
    <3>2. Scale * length + 0 = length * Scale
      BY <1>1 DEF Scale
    <3> QED BY <3>1, <3>2
  <2>2. factor(length) = 1 * Scale
    <3> HIDE DEF share
    <3> QED BY <2>1 DEF LeadinFactorAt, Scale
  <2>3. length \in 0..length /\ 1 * end = end
    BY <1>1
  <2> HIDE DEF price, factor, length, end
  <2> QED BY <1>1, <1>2, <2>2, <2>3, WholePrice
<1>6. ASSUME length % 2 = 0 PROVE price(length \div 2) = 10 * end
  <2> DEFINE half == length \div 2
  <2>1. half \in 0..length /\ length = 2 * half
    BY <1>1, <1>6
  <2> HIDE DEF half
  <2>2. share(half) = 5000
    <3>1. (5000 * length + 0) \div length = 5000
      BY <1>1, QuotientOf
    <3>2. 5000 * length + 0 = half * Scale
      BY <1>1, <2>1 DEF Scale
    <3> QED BY <3>1, <3>2
  <2>3. factor(half) = 10 * Scale
    <3>1. 5000 <= Scale \div 2 /\ Scale * 100 - 5000 * 180 = 10 * Scale
      BY DEF Scale
    <3> HIDE DEF share
    <3> QED BY <2>2, <3>1 DEF LeadinFactorAt
  <2>4. price(half) = PriceOf(factor(half), end)
    BY <1>2, <2>1
  <2> HIDE DEF price, factor, end
  <2>5. price(half) = 10 * end
    BY <1>1, <2>3, <2>4, WholePrice
  <2> QED BY <2>5 DEF half
<1>7. ASSUME NEW n \in 0..length PROVE price(n + 1) <= price(n) /\ end <= price(n)
  <2>1. factor(n) \in Nat /\ Scale <= factor(n)
    <3>1. share(n) \in 0..Scale
      BY <1>2
    <3> HIDE DEF share
    <3> QED BY <3>1, FactorIsLarge
  <2>2. end <= price(n)
    <3>1. PriceOf(1 * Scale, end) <= PriceOf(factor(n), end)
      <4>1. 1 * Scale \in Nat /\ 1 * Scale <= factor(n)
        BY <2>1 DEF Scale
      <4> HIDE DEF factor, end
      <4> QED BY <1>1, <2>1, <4>1, PriceGrows
    <3>2. PriceOf(1 * Scale, end) = 1 * end
      BY <1>1, WholePrice
    <3>3. price(n) = PriceOf(factor(n), end)
      BY <1>2
    <3> HIDE DEF price, factor, end
    <3> QED BY <1>1, <3>1, <3>2, <3>3
  <2>3. price(n + 1) <= price(n)
    <3>1. CASE n = length
      <4>1. price(n) = PriceOf(factor(n), end)
        BY <1>2
      <4>2. PriceOf(factor(n), end) <= PriceOf(factor(n), end)
        <5> HIDE DEF factor, end
        <5> QED BY <1>1, <2>1, PriceGrows
      <4>3. price(n + 1) = price(n)
        BY <1>3, <3>1
      <4> HIDE DEF price, factor, end
      <4> QED BY <4>1, <4>2, <4>3
    <3>2. CASE n # length
      <4>1. n + 1 \in 0..length
        BY <1>1, <3>2
      <4>2. share(n) <= share(n + 1)
        <5>1. n * Scale \in Nat /\ (n + 1) * Scale \in Nat /\ n * Scale <= (n + 1) * Scale
          BY <1>1 DEF Scale
        <5> QED BY <1>1, <5>1, QuotientGrows
      <4>3. share(n) \in 0..Scale /\ share(n + 1) \in 0..Scale
        BY <1>2, <4>1
      <4>4. factor(n + 1) \in Nat /\ factor(n + 1) <= factor(n)
        <5> HIDE DEF share
        <5> QED BY <4>2, <4>3, FactorFalls
      <4>5. price(n) = PriceOf(factor(n), end) /\ price(n + 1) = PriceOf(factor(n + 1), end)
        BY <1>2, <4>1
      <4> HIDE DEF price, factor, end
      <4> QED BY <1>1, <2>1, <4>4, <4>5, PriceGrows
    <3> QED BY <3>1, <3>2
  <2> QED BY <2>2, <2>3
<1> QED BY <1>4, <1>5, <1>6, <1>7

\* The phases of any sale.
LEMMA EveryPhaseOrdered ==
  ASSUME NEW now, NEW terms \in Lengths, NEW sale \in Sales \cup {Null}, NEW lastCommitted \in Int
  PROVE  PhasesOrdered(now, terms, sale, lastCommitted)
<1> DEFINE info == CoretimeInfo(now, terms, sale, lastCommitted)
           start == sale.regionBegin - terms.regionLength
           wait == terms.interludeLength
           leadin == sale.leadinLength
           phase == PhaseConfiguration(start, terms, leadin, lastCommitted)
<1>1. CASE sale = Null \/ sale.leadinLength = 0
  <2>1. info = Error
    BY <1>1 DEF CoretimeInfo
  <2> QED BY <2>1 DEF PhasesOrdered
<1>2. CASE sale # Null /\ sale.leadinLength # 0
  <2>1. /\ sale.regionBegin \in Int /\ leadin \in Nat /\ wait \in Nat
        /\ terms.regionLength \in Nat
    BY <1>2 DEF Sales, Lengths
  <2>2. info.currentRegion = [start |-> start, end |-> sale.regionBegin] /\ info.phase = phase
    BY <1>2 DEF CoretimeInfo
  <2>3. /\ phase.config[1].lastTimeslice = start + wait
        /\ phase.config[2].lastTimeslice = start + wait + leadin
        /\ phase.config[3].lastTimeslice
             = start + wait + leadin + terms.regionLength - wait - leadin
        /\ phase.currentPhaseName = IF lastCommitted - start < wait + leadin
                                    THEN "priceDiscovery" ELSE "fixedPrice"
    BY DEF PhaseConfiguration
  <2>4. info.currentRegion.start = start /\ info.currentRegion.end = sale.regionBegin
    BY <2>2
  <2> DEFINE last(k) == info.phase.config[k].lastTimeslice
  <2>5. last(1) = start + wait /\ last(2) = start + wait + leadin
        /\ last(3) = start + wait + leadin + terms.regionLength - wait - leadin
    BY <2>2, <2>3
  <2>6. info.phase.currentPhaseName = "fixedPrice" <=> ~(lastCommitted - start < wait + leadin)
    BY <2>2, <2>3
  <2> HIDE DEF info, last
  <2> SUFFICES ASSUME wait + leadin <= terms.regionLength
               PROVE  /\ start <= last(1) /\ last(1) <= last(2) /\ last(2) <= last(3)
                      /\ last(3) = sale.regionBegin
                      /\ ~(lastCommitted - start < wait + leadin) <=> last(2) <= lastCommitted
    BY <2>4, <2>6 DEF PhasesOrdered, info, last
  <2> QED BY <2>1, <2>5
<1> QED BY <1>1, <1>2

\* A sequence in the order of the cores.
InCoreOrder(t, s) ==
  /\ Len(t) = Len(s) /\ DOMAIN t = 1..Len(s) /\ ToSet(t) = ToSet(s)
  /\ \A j, k \in 1..Len(s) : j < k => t[j].core <= t[k].core
  /\ (\A j, k \in 1..Len(s) : s[j].core = s[k].core => j = k) =>
       \A j, k \in 1..Len(s) : j < k => t[j].core < t[k].core

LEMMA SortedByCore ==
  ASSUME NEW T, NEW s \in Seq(T), \A k \in 1..Len(s) : s[k].core \in Int
  PROVE  SortByCore(s) \in Seq(T) /\ InCoreOrder(SortByCore(s), s)
<1> DEFINE n == Len(s)
           key == [k \in DOMAIN s |-> s[k].core]
           t == SortByCore(s)
<1>1. n \in Nat /\ DOMAIN s = 1..n /\ \A k \in 1..n : s[k] \in T
  OBVIOUS
<1>2. key \in [1..n -> Int] /\ \A k \in 1..n : key[k] = s[k].core
  BY <1>1
<1>3. PICK at : Orders(at, n, key) /\ t = [k \in 1..n |-> s[at[k]]]
  <2> HIDE DEF key
  <2>1. t = Sorted(s, key)
    BY DEF SortByCore, key
  <2> HIDE DEF t
  <2>2. SortsBy(t, s, key)
    BY <1>2, <2>1, SortOrders
  <2> QED BY <2>2 DEF SortsBy
<1>4. /\ \A k \in 1..n : at[k] \in 1..n
      /\ \A i \in 1..n : \E k \in 1..n : at[k] = i
      /\ \A j, k \in 1..n :
           j < k => key[at[j]] < key[at[k]] \/ (key[at[j]] = key[at[k]] /\ at[j] < at[k])
  BY <1>3 DEF Orders
<1> HIDE DEF t, key, n
<1>5. t \in [1..n -> T] /\ \A k \in 1..n : t[k] = s[at[k]] /\ t[k].core = key[at[k]]
  BY <1>1, <1>2, <1>3, <1>4
<1>6. t \in Seq(T) /\ Len(t) = n /\ DOMAIN t = 1..n
  BY <1>1, <1>5
<1>7. ToSet(t) = ToSet(s)
  <2>1. \A k \in 1..n : t[k] \in ToSet(s)
    BY <1>1, <1>4, <1>5 DEF ToSet
  <2>2. \A i \in 1..n : s[i] \in ToSet(t)
    <3> TAKE i \in 1..n
    <3>1. PICK k \in 1..n : at[k] = i
      BY <1>4
    <3> QED BY <1>5, <1>6, <3>1 DEF ToSet
  <2> QED BY <1>1, <1>6, <2>1, <2>2 DEF ToSet
<1>8. ASSUME NEW j \in 1..n, NEW k \in 1..n, j < k
      PROVE  /\ t[j].core <= t[k].core
             /\ (\A p, q \in 1..n : s[p].core = s[q].core => p = q) => t[j].core < t[k].core
  <2>1. /\ key[at[j]] < key[at[k]] \/ (key[at[j]] = key[at[k]] /\ at[j] < at[k])
        /\ at[j] \in 1..n /\ at[k] \in 1..n
    BY <1>4, <1>8
  <2>2. t[j].core \in Int /\ t[k].core \in Int /\ t[j].core = key[at[j]] /\ t[k].core = key[at[k]]
    BY <1>2, <1>5, <2>1
  <2>3. (\A p, q \in 1..n : s[p].core = s[q].core => p = q) => ~(key[at[j]] = key[at[k]] /\ at[j] < at[k])
    <3> SUFFICES ASSUME \A p, q \in 1..n : s[p].core = s[q].core => p = q,
                        key[at[j]] = key[at[k]]
                 PROVE  ~(at[j] < at[k])
      OBVIOUS
    <3>1. at[j] = at[k]
      BY <1>2, <2>1
    <3> QED BY <2>1, <3>1
  <2> QED BY <2>1, <2>2, <2>3
<1>9. InCoreOrder(t, s)
  BY <1>6, <1>7, <1>8 DEF InCoreOrder, n
<1> QED BY <1>6, <1>9 DEF t

\* What is kept is what was there at the places.
LEMMA KeptAre ==
  ASSUME NEW T, NEW s \in Seq(T), NEW places
  PROVE  /\ Kept(s, places) \in Seq(T)
         /\ ToSet(Kept(s, places)) = {s[k] : k \in (1..Len(s)) \cap places}
<1> DEFINE r == Kept(s, places)
           K == (1..Len(s)) \cap places
<1>1. r \in Seq(T) /\ IsListed(r, s, places)
  BY KeptHasList
<1> HIDE DEF r
<1>2. PICK at : /\ Lists(at, Len(r), places, Len(s))
                /\ \A i \in 1..Len(r) : r[i] = s[at[i]]
  BY <1>1 DEF IsListed
<1>3. /\ \A i \in 1..Len(r) : at[i] \in K
      /\ \A k \in K : \E i \in 1..Len(r) : at[i] = k
  BY <1>2 DEF Lists
<1>4. DOMAIN r = 1..Len(r)
  BY <1>1
<1> HIDE DEF K
<1>5. ToSet(r) = {s[k] : k \in K}
  BY <1>2, <1>3, <1>4 DEF ToSet
<1> QED BY <1>1, <1>5 DEF r, K

LEMMA TaskIsFirst ==
  ASSUME NEW T, NEW s \in Seq(T), NEW task
  PROVE  FirstOf(TaskAt(task, s), {k \in 1..Len(s) : s[k].task = task})
<1> DEFINE K == {k \in 1..Len(s) : s[k].task = task}
<1>1. TaskAt(task, s) = IF K # {} THEN Min(K) ELSE 0
  BY DEF TaskAt, SelectInSeq
<1>2. Len(s) \in Nat /\ K \in SUBSET (1..Len(s))
  OBVIOUS
<1> HIDE DEF K
<1>3. FirstOf(IF K # {} THEN Min(K) ELSE 0, K)
  BY <1>2, SelectsFirst
<1> QED BY <1>1, <1>3 DEF K

\* What the broker stores of cores, leases and reservations.
Works(tasks) == [core : Nat, task : tasks]
Workloads(tasks) ==
  {w \in Seq(Works(tasks)) : \A j, k \in 1..Len(w) : w[j].core = w[k].core => j = k}
Leases(tasks) == [task : tasks, until : Nat]
Reservations(tasks, masks) == [task : tasks, mask : masks]

\* The cores, for any storage; a workload may have no items.
LEMMA EveryCoreExact ==
  ASSUME NEW tasks, NEW masks, NEW workload \in Workloads(tasks \cup {Null}),
         NEW workplan \in Seq(Works(tasks)), NEW leases \in Seq(Leases(tasks)),
         NEW reservations \in Seq(Reservations(tasks, masks)), NEW regions
  PROVE  CoresExact(workload, workplan, leases, reservations, regions)
<1> DEFINE sorted == SortByCore(workload)
           plans == SortByCore(workplan)
           n == Len(workload)
           type(i) == CoreType(sorted[i].task, leases, reservations)
           details(i) == CoreDetails(sorted[i].task, leases, reservations)
           cores == CoretimeCores(workload, workplan, leases, reservations, regions)
<1> SUFFICES ASSUME cores # Error
             PROVE  /\ \A i \in DOMAIN cores, j \in DOMAIN cores :
                         i < j => cores[i].coreId < cores[j].coreId
                    /\ {cores[i].coreId : i \in DOMAIN cores} = {w.core : w \in ToSet(workload)}
                    /\ \A p \in ToSet(workplan), w \in ToSet(workload) : p.core = w.core =>
                         \E i \in DOMAIN cores : cores[i].coreId = w.core /\ p \in ToSet(cores[i].workplan)
                    /\ \A i \in DOMAIN cores : cores[i].type = "lease" =>
                         \E w \in ToSet(workload), l \in ToSet(leases) :
                           /\ w.core = cores[i].coreId /\ w.task = l.task /\ cores[i].details = l.until
                           /\ \A r \in ToSet(reservations) : r.task # w.task
  BY DEF CoresExact
<1>1. cores = [i \in DOMAIN sorted |->
                 [coreId |-> sorted[i].core, type |-> type(i), details |-> details(i),
                  workplan |-> OfCore(plans, sorted[i].core),
                  regions |-> OfCore(regions, sorted[i].core)]]
  BY DEF CoretimeCores
<1>2. ASSUME NEW T, NEW s \in Seq(Works(T)) PROVE \A k \in 1..Len(s) : s[k].core \in Int
  <2> TAKE k \in 1..Len(s)
  <2>1. s[k] \in Works(T)
    OBVIOUS
  <2> QED BY <2>1 DEF Works
<1>3. workload \in Seq(Works(tasks \cup {Null})) /\ \A j, k \in 1..n : workload[j].core = workload[k].core => j = k
  BY DEF Workloads
<1>4. sorted \in Seq(Works(tasks \cup {Null})) /\ InCoreOrder(sorted, workload)
  BY <1>2, <1>3, SortedByCore
<1>5. plans \in Seq(Works(tasks)) /\ InCoreOrder(plans, workplan)
  BY <1>2, SortedByCore
<1> HIDE DEF sorted, plans, type, details, cores
<1>6. /\ DOMAIN sorted = 1..n /\ ToSet(sorted) = ToSet(workload)
      /\ \A j, k \in 1..n : j < k => sorted[j].core < sorted[k].core
  BY <1>3, <1>4 DEF InCoreOrder
<1>7. /\ DOMAIN cores = 1..n
      /\ \A i \in 1..n : /\ cores[i].coreId = sorted[i].core /\ cores[i].type = type(i)
                         /\ cores[i].details = details(i)
                         /\ cores[i].workplan = OfCore(plans, sorted[i].core)
                         /\ sorted[i] \in ToSet(workload)
  BY <1>1, <1>6 DEF ToSet
<1>8. \A w \in ToSet(workload) : \E i \in 1..n : sorted[i] = w
  BY <1>6 DEF ToSet
<1>9. \A i \in DOMAIN cores, j \in DOMAIN cores : i < j => cores[i].coreId < cores[j].coreId
  BY <1>6, <1>7
<1>10. {cores[i].coreId : i \in DOMAIN cores} = {w.core : w \in ToSet(workload)}
  <2>1. \A i \in DOMAIN cores : \E w \in ToSet(workload) : cores[i].coreId = w.core
    BY <1>7
  <2>2. \A w \in ToSet(workload) : \E i \in DOMAIN cores : cores[i].coreId = w.core
    <3> TAKE w \in ToSet(workload)
    <3>1. PICK i \in 1..n : sorted[i] = w
      BY <1>8
    <3>2. i \in DOMAIN cores /\ cores[i].coreId = sorted[i].core
      BY <1>7, <3>1
    <3> QED BY <3>1, <3>2
  <2> HIDE DEF n
  <2> QED BY <2>1, <2>2
<1>11. ASSUME NEW p \in ToSet(workplan), NEW w \in ToSet(workload), p.core = w.core
       PROVE  \E i \in DOMAIN cores : cores[i].coreId = w.core /\ p \in ToSet(cores[i].workplan)
  <2>1. PICK i \in 1..n : sorted[i] = w
    BY <1>8
  <2>2. p \in ToSet(plans)
    BY <1>5 DEF InCoreOrder
  <2>3. PICK k \in DOMAIN plans : p = plans[k]
    BY <2>2 DEF ToSet
  <2> DEFINE places == {j \in DOMAIN plans : plans[j].core = w.core}
  <2>4. k \in (1..Len(plans)) \cap places
    BY <1>5, <1>11, <2>3
  <2> HIDE DEF places
  <2>5. p \in ToSet(Kept(plans, places))
    BY <1>5, <2>3, <2>4, KeptAre
  <2>6. p \in ToSet(OfCore(plans, w.core))
    BY <2>5 DEF OfCore, places
  <2> QED BY <1>7, <2>1, <2>6
<1>12. ASSUME NEW i \in DOMAIN cores, cores[i].type = "lease"
       PROVE  \E w \in ToSet(workload), l \in ToSet(leases) :
                /\ w.core = cores[i].coreId /\ w.task = l.task /\ cores[i].details = l.until
                /\ \A r \in ToSet(reservations) : r.task # w.task
  <2> DEFINE w == sorted[i]
             K == {k \in 1..Len(leases) : leases[k].task = w.task}
             k == TaskAt(w.task, leases)
  <2>1. w \in ToSet(workload) /\ w.core = cores[i].coreId /\ type(i) = "lease"
        /\ cores[i].details = details(i)
    BY <1>7, <1>12
  <2>2. (\A r \in ToSet(reservations) : r.task # w.task) /\ \E l \in ToSet(leases) : l.task = w.task
    BY <2>1 DEF type, CoreType
  <2>3. details(i) = leases[k].until
    BY <2>1 DEF details, type, CoreDetails
  <2>4. FirstOf(k, K)
    BY TaskIsFirst
  <2>5. K # {} /\ DOMAIN leases = 1..Len(leases)
    BY <2>2 DEF ToSet
  <2> HIDE DEF k
  <2>6. k \in K
    BY <2>4, <2>5 DEF FirstOf
  <2>7. leases[k] \in ToSet(leases) /\ leases[k].task = w.task
    BY <2>5, <2>6 DEF ToSet
  <2> QED BY <2>1, <2>2, <2>3, <2>7
<1> QED BY <1>9, <1>10, <1>11, <1>12

\* Work of a task that is known by the characters of its number, or of none.
Tasks(characters) == Seq(characters)
AnyWork(characters) == Works(Tasks(characters) \cup {Null})

LEMMA IncludesItself ==
  ASSUME NEW T, NEW s \in Seq(T)
  PROVE  Includes(s, s)
<1>1. Len(s) \in Nat /\ 0 \in 0..(Len(s) - Len(s)) /\ 0 + 1 = 1 /\ 0 + Len(s) = Len(s)
  OBVIOUS
<1>2. SubSeq(s, 1, Len(s)) = s
  OBVIOUS
<1> QED BY <1>1, <1>2 DEF Includes

LEMMA EntryIsFirst ==
  ASSUME NEW T, NEW s \in Seq(T), NEW lease
  PROVE  FirstOf(EntryOf(s, lease),
                 {k \in 1..Len(s) : s[k].task = Null \/ Includes(s[k].task, lease.task)})
<1> DEFINE K == {k \in 1..Len(s) : s[k].task = Null \/ Includes(s[k].task, lease.task)}
<1>1. EntryOf(s, lease) = IF K # {} THEN Min(K) ELSE 0
  BY DEF EntryOf, SelectInSeq
<1>2. Len(s) \in Nat /\ K \in SUBSET (1..Len(s))
  OBVIOUS
<1> HIDE DEF K
<1>3. FirstOf(IF K # {} THEN Min(K) ELSE 0, K)
  BY <1>2, SelectsFirst
<1> QED BY <1>1, <1>3 DEF K

\* The leases of any workload.
LEMMA EveryCoreLeaseTold ==
  ASSUME NEW characters, NEW hasBroker, NEW workload \in Seq(AnyWork(characters)),
         NEW leases \in Seq(Leases(Tasks(characters)))
  PROVE  LeasesTold(hasBroker, workload, leases)
<1> DEFINE sorted == SortByCore(workload)
           n == Len(workload)
           m == Len(leases)
           entry(l) == EntryOf(sorted, l)
           coreOf(l) == IF entry(l) = 0 THEN Null ELSE sorted[entry(l)].core
           withCore == [k \in DOMAIN leases |-> [task |-> leases[k].task, until |-> leases[k].until,
                                                 core |-> coreOf(leases[k])]]
           told == CoretimeLeases(hasBroker, workload, leases)
           coresOf(task) == {w.core : w \in {v \in ToSet(workload) : v.task = task}}
           apart == \A l \in ToSet(leases), w \in ToSet(workload) :
                      Includes(w.task, l.task) => w.task = l.task
           T == [task : Tasks(characters), until : Nat, core : Nat \cup {Null}]
           unknown == Null \in {l.core : l \in ToSet(withCore)}
<1>1. \A k \in 1..n : workload[k].core \in Int
  <2> TAKE k \in 1..n
  <2>1. workload[k] \in AnyWork(characters)
    OBVIOUS
  <2> QED BY <2>1 DEF AnyWork, Works
<1>2. sorted \in Seq(AnyWork(characters)) /\ InCoreOrder(sorted, workload)
  BY <1>1, SortedByCore
<1>3. told # Error => told = IF unknown THEN withCore ELSE SortByCore(withCore)
  BY DEF CoretimeLeases
<1> HIDE DEF sorted, told
<1>4. /\ DOMAIN sorted = 1..n /\ Len(sorted) = n /\ ToSet(sorted) = ToSet(workload) /\ n \in Nat
      /\ \A j, k \in 1..n : j < k => sorted[j].core <= sorted[k].core
      /\ \A k \in 1..n : sorted[k] \in AnyWork(characters)
  BY <1>2 DEF InCoreOrder
<1>5. \A k \in 1..n : sorted[k].core \in Nat /\ sorted[k] \in ToSet(workload)
  <2> TAKE k \in 1..n
  <2>1. sorted[k] \in AnyWork(characters)
    BY <1>4
  <2> QED BY <1>4, <2>1 DEF AnyWork, Works, ToSet
<1>6. ASSUME NEW l PROVE FirstOf(entry(l), {k \in 1..n : sorted[k].task = Null \/ Includes(sorted[k].task, l.task)})
  BY <1>2, <1>4, EntryIsFirst
<1> HIDE DEF entry
<1>7. ASSUME NEW l PROVE entry(l) = 0 \/ entry(l) \in 1..n
  BY <1>6 DEF FirstOf
<1>8. ASSUME NEW l PROVE coreOf(l) \in Nat \cup {Null}
  BY <1>5, <1>7
<1>9. m \in Nat /\ DOMAIN leases = 1..m /\ \A k \in 1..m : leases[k] \in Leases(Tasks(characters))
  OBVIOUS
<1> HIDE DEF coreOf, m
<1>10. /\ withCore \in Seq(T) /\ Len(withCore) = m /\ DOMAIN withCore = 1..m
       /\ \A k \in 1..m : /\ withCore[k].task = leases[k].task
                          /\ withCore[k].until = leases[k].until
                          /\ withCore[k].core = coreOf(leases[k])
  <2>1. \A k \in 1..m : leases[k].task \in Tasks(characters) /\ leases[k].until \in Nat
    BY <1>9 DEF Leases
  <2>2. withCore \in [1..m -> T]
    BY <1>8, <1>9, <2>1
  <2>3. withCore \in Seq(T) /\ Len(withCore) = m /\ DOMAIN withCore = 1..m
    <3> HIDE DEF withCore, T
    <3> QED BY <1>9, <2>2
  <2> QED BY <1>9, <2>3
<1> HIDE DEF withCore, T
<1>11. ASSUME ~unknown
       PROVE  SortByCore(withCore) \in Seq(T) /\ InCoreOrder(SortByCore(withCore), withCore)
  <2>1. \A k \in 1..m : withCore[k].core \in Int
    <3> TAKE k \in 1..m
    <3>1. withCore[k] \in ToSet(withCore)
      BY <1>10 DEF ToSet
    <3>2. withCore[k].core # Null /\ withCore[k].core \in Nat \cup {Null}
      BY <1>8, <1>10, <1>11, <3>1
    <3> QED BY <3>2
  <2> QED BY <1>10, <2>1, SortedByCore
<1>12. ASSUME told # Error
       PROVE  /\ Len(told) = m /\ DOMAIN told = 1..m /\ ToSet(told) = ToSet(withCore)
              /\ ~unknown => \A j, k \in 1..m : j < k => told[j].core <= told[k].core
  <2>1. CASE unknown
    BY <1>3, <1>10, <1>12, <2>1
  <2>2. CASE ~unknown
    <3>1. told = SortByCore(withCore)
      BY <1>3, <1>12, <2>2
    <3> HIDE DEF unknown
    <3> QED BY <1>10, <1>11, <2>2, <3>1 DEF InCoreOrder
  <2> QED BY <2>1, <2>2
<1>13. {[task |-> l.task, until |-> l.until] : l \in ToSet(withCore)} = ToSet(leases)
  <2>1. \A k \in 1..m : [task |-> withCore[k].task, until |-> withCore[k].until] = leases[k]
    <3> TAKE k \in 1..m
    <3>1. leases[k] = [task |-> leases[k].task, until |-> leases[k].until]
      BY <1>9 DEF Leases
    <3> QED BY <1>10, <3>1
  <2>2. ToSet(withCore) = {withCore[k] : k \in 1..m} /\ ToSet(leases) = {leases[k] : k \in 1..m}
    BY <1>9, <1>10 DEF ToSet
  <2> DEFINE lease(l) == [task |-> l.task, until |-> l.until]
  <2>3. \A k \in 1..m : lease(withCore[k]) = leases[k]
    BY <2>1
  <2> HIDE DEF lease
  <2>4. {lease(l) : l \in ToSet(withCore)} = ToSet(leases)
    BY <2>2, <2>3
  <2> QED BY <2>4 DEF lease
<1>14. ASSUME Null \notin {w.task : w \in ToSet(workload)}, apart, NEW l \in ToSet(withCore)
       PROVE  l.core = IF coresOf(l.task) = {} THEN Null ELSE Min(coresOf(l.task))
  <2>1. PICK k \in 1..m : l = withCore[k]
    BY <1>10 DEF ToSet
  <2> DEFINE lease == leases[k]
             e == entry(lease)
             K == {j \in 1..n : sorted[j].task = lease.task}
             C == coresOf(lease.task)
  <2>2. l.task = lease.task /\ l.core = coreOf(lease) /\ lease \in ToSet(leases)
    BY <1>9, <1>10, <2>1 DEF ToSet
  <2>3. \A j \in 1..n : (sorted[j].task = Null \/ Includes(sorted[j].task, lease.task))
                           <=> sorted[j].task = lease.task
    <3> TAKE j \in 1..n
    <3>1. sorted[j] \in ToSet(workload) /\ sorted[j].task # Null
      BY <1>5, <1>14
    <3>2. sorted[j].task \in Tasks(characters)
      <4>1. sorted[j] \in AnyWork(characters)
        BY <1>4
      <4> QED BY <3>1, <4>1 DEF AnyWork, Works
    <3>3. Includes(sorted[j].task, sorted[j].task)
      BY <3>2, IncludesItself DEF Tasks
    <3>4. Includes(sorted[j].task, lease.task) => sorted[j].task = lease.task
      BY <1>14, <2>2, <3>1
    <3> HIDE DEF lease
    <3> QED BY <3>1, <3>3, <3>4
  <2>4. FirstOf(e, K)
    <3>1. {j \in 1..n : sorted[j].task = Null \/ Includes(sorted[j].task, lease.task)} = K
      BY <2>3
    <3> QED BY <1>6, <3>1
  <2> HIDE DEF lease, e
  <2>5. C \in SUBSET Nat /\ C = {sorted[j].core : j \in K}
    <3>1. ToSet(workload) = {sorted[j] : j \in 1..n}
      BY <1>4 DEF ToSet
    <3>2. C = {sorted[j].core : j \in K}
      BY <3>1
    <3> HIDE DEF C
    <3> QED BY <1>5, <3>2
  <2> HIDE DEF C
  <2>6. CASE K = {}
    <3>1. C = {} /\ e = 0
      BY <2>4, <2>5, <2>6 DEF FirstOf
    <3> QED BY <2>2, <3>1 DEF C, coreOf, e
  <2>7. CASE K # {}
    <3>1. e \in K /\ \A j \in K : e <= j
      BY <2>4, <2>7 DEF FirstOf
    <3>2. sorted[e].core \in C /\ \A j \in K : sorted[e].core <= sorted[j].core
      <4>1. \A j \in K : e < j \/ e = j
        BY <3>1
      <4>2. sorted[e].core <= sorted[e].core
        BY <1>5, <3>1
      <4> QED BY <1>4, <2>5, <3>1, <4>1, <4>2
    <3>3. \A c \in C : sorted[e].core <= c
      BY <2>5, <3>2
    <3>4. Min(C) = sorted[e].core /\ C # {}
      BY <2>5, <3>2, <3>3, LeastIsMin
    <3>5. e # 0
      BY <3>1
    <3> QED BY <2>2, <3>4, <3>5 DEF C, coreOf, e
  <2> QED BY <2>6, <2>7
<1> HIDE DEF unknown, coresOf, apart
<1>15. ASSUME told # Error
       PROVE  /\ Len(told) = m
              /\ {[task |-> l.task, until |-> l.until] : l \in ToSet(told)} = ToSet(leases)
              /\ \A k, j \in DOMAIN told :
                   k < j /\ Null \notin {l.core : l \in ToSet(told)} => told[k].core <= told[j].core
              /\ Null \notin {w.task : w \in ToSet(workload)} /\ apart =>
                   \A l \in ToSet(told) :
                     l.core = IF coresOf(l.task) = {} THEN Null ELSE Min(coresOf(l.task))
  <2>1. ToSet(told) = ToSet(withCore) /\ Len(told) = m /\ DOMAIN told = 1..m
    BY <1>12, <1>15
  <2>2. unknown <=> Null \in {l.core : l \in ToSet(told)}
    BY <2>1 DEF unknown
  <2> QED BY <1>12, <1>13, <1>14, <1>15, <2>1, <2>2
<1> QED BY <1>15 DEF LeasesTold, told, coresOf, apart, m

\* The cores of a relay chain.
LEMMA CoreIsFirst ==
  ASSUME NEW T, NEW s \in Seq(T), NEW para
  PROVE  FirstOf(CoreRunning(para, s), {k \in 1..Len(s) : para \in ToSet(s[k].tasks)})
<1> DEFINE K == {k \in 1..Len(s) : para \in ToSet(s[k].tasks)}
<1>1. CoreRunning(para, s) = IF K # {} THEN Min(K) ELSE 0
  BY DEF CoreRunning, SelectInSeq
<1>2. Len(s) \in Nat /\ K \in SUBSET (1..Len(s))
  OBVIOUS
<1> HIDE DEF K
<1>3. FirstOf(IF K # {} THEN Min(K) ELSE 0, K)
  BY <1>2, SelectsFirst
<1> QED BY <1>1, <1>3 DEF K

LEMMA EveryRelayCoreTold ==
  ASSUME NEW ids, NEW paras \in Seq(ids), NEW tasks, NEW descriptors \in Seq([tasks : tasks])
  PROVE  RelayCoresTold(paras, descriptors)
<1> DEFINE coreOf(para) == CoreRunning(para, descriptors)
           places == {k \in DOMAIN paras : coreOf(paras[k]) # 0}
           running == {k \in DOMAIN paras : \E d \in ToSet(descriptors) : paras[k] \in ToSet(d.tasks)}
           withCore == Kept(paras, places)
           told == RelayCores(paras, descriptors)
<1>1. ASSUME NEW para
      PROVE  /\ coreOf(para) = 0 <=> ~\E d \in ToSet(descriptors) : para \in ToSet(d.tasks)
             /\ coreOf(para) # 0 => para \in ToSet(descriptors[coreOf(para)].tasks)
  <2> DEFINE K == {k \in 1..Len(descriptors) : para \in ToSet(descriptors[k].tasks)}
  <2>1. FirstOf(coreOf(para), K)
    BY CoreIsFirst
  <2>2. DOMAIN descriptors = 1..Len(descriptors)
    OBVIOUS
  <2>3. K = {} <=> ~\E d \in ToSet(descriptors) : para \in ToSet(d.tasks)
    BY <2>2 DEF ToSet
  <2>4. 0 \notin K
    OBVIOUS
  <2> HIDE DEF coreOf
  <2>5. coreOf(para) = 0 <=> K = {}
    BY <2>1, <2>4 DEF FirstOf
  <2>6. K # {} => coreOf(para) \in K
    BY <2>1 DEF FirstOf
  <2> QED BY <2>3, <2>5, <2>6
<1>2. places = running
  BY <1>1
<1>3. told = [k \in DOMAIN withCore |-> [para |-> withCore[k],
                                        tasks |-> descriptors[coreOf(withCore[k])].tasks]]
  BY DEF RelayCores
<1>4. withCore \in Seq(ids) /\ ToSet(withCore) = {paras[k] : k \in (1..Len(paras)) \cap places}
  BY KeptAre
<1> HIDE DEF coreOf
<1>5. \A p \in ToSet(withCore) : coreOf(p) # 0
  <2> HIDE DEF withCore
  <2> QED BY <1>4
<1> HIDE DEF withCore, told
<1>6. [k \in DOMAIN told |-> told[k].para] = withCore
  <2>1. DOMAIN told = DOMAIN withCore /\ \A k \in DOMAIN withCore : told[k].para = withCore[k]
    BY <1>3
  <2>2. withCore = [k \in DOMAIN withCore |-> withCore[k]]
    BY <1>4
  <2> QED BY <2>1, <2>2
<1>7. ASSUME NEW t \in ToSet(told) PROVE t.para \in ToSet(t.tasks)
  <2>1. PICK k \in DOMAIN withCore : t = told[k]
    BY <1>3, <1>7 DEF ToSet
  <2>2. t.para = withCore[k] /\ t.tasks = descriptors[coreOf(withCore[k])].tasks
    BY <1>3, <2>1
  <2>3. withCore[k] \in ToSet(withCore)
    BY <2>1 DEF ToSet
  <2> QED BY <1>1, <1>5, <2>2, <2>3
<1>8. withCore = Kept(paras, running)
  BY <1>2 DEF withCore
<1> QED BY <1>6, <1>7, <1>8 DEF RelayCoresTold, told

\* What the coretime routes may have to read.
CoretimeInputs(tasks, masks, regions, characters, ids) ==
  [kind : {"sale"}, now : Int, committed : Int, config : Lengths, sale : Sales]
  \cup [kind : {"cores"}, workload : Workloads(tasks \cup {Null}), workplan : Seq(Works(tasks)),
        leases : Seq(Leases(tasks)), reservations : Seq(Reservations(tasks, masks)),
        regions : Seq(regions)]
  \cup [kind : {"coreleases"}, hasBroker : BOOLEAN, workload : Seq(AnyWork(characters)),
        leases : Seq(Leases(Tasks(characters)))]
  \cup [kind : {"relaycores"}, paras : Seq(ids), descriptors : Seq([tasks : Seq(ids)])]

\* The coretime routes, for any sale and any storage of the broker: prices fall
\* from a hundredfold to the end price, and cores, leases and paras are told once,
\* in order, with what is theirs.
THEOREM EveryCoretimeExact ==
  ASSUME NEW tasks, NEW masks, NEW regions, NEW characters, NEW ids,
         input \in CoretimeInputs(tasks, masks, regions, characters, ids)
  PROVE  CoretimeExact
<1>1. ASSUME Is("sale")
      PROVE  /\ CorePriceFalls(input.sale)
             /\ PhasesOrdered(input.now, input.config, input.sale, input.committed)
  <2>1. input.sale \in Sales /\ input.config \in Lengths /\ input.committed \in Int
    BY <1>1 DEF CoretimeInputs, Is
  <2> QED BY <2>1, EveryPriceFalls, EveryPhaseOrdered
<1>2. ASSUME Is("cores")
      PROVE  CoresExact(input.workload, input.workplan, input.leases, input.reservations,
                        input.regions)
  <2>1. /\ input.workload \in Workloads(tasks \cup {Null}) /\ input.workplan \in Seq(Works(tasks))
        /\ input.leases \in Seq(Leases(tasks))
        /\ input.reservations \in Seq(Reservations(tasks, masks))
    BY <1>2 DEF CoretimeInputs, Is
  <2> QED BY <2>1, EveryCoreExact
<1>3. ASSUME Is("coreleases")
      PROVE  LeasesTold(input.hasBroker, input.workload, input.leases)
  <2>1. /\ input.workload \in Seq(AnyWork(characters))
        /\ input.leases \in Seq(Leases(Tasks(characters)))
    BY <1>3 DEF CoretimeInputs, Is
  <2> QED BY <2>1, EveryCoreLeaseTold
<1>4. ASSUME Is("relaycores") PROVE RelayCoresTold(input.paras, input.descriptors)
  <2>1. input.paras \in Seq(ids) /\ input.descriptors \in Seq([tasks : Seq(ids)])
    BY <1>4 DEF CoretimeInputs, Is
  <2> QED BY <2>1, EveryRelayCoreTold
<1> QED BY <1>1, <1>2, <1>3, <1>4 DEF CoretimeExact

-----------------------------------------------------------------------------
(* Contents of blocks *)

\* The versions before 1020000 as a string are those from 1000000 on and below,
\* among others.
LEMMA DigitsOfMillions ==
  ASSUME NEW v \in Nat, (((v \div 10) \div 10) \div 10) \div 10 \in 100..102
  PROVE  LET d == Digits(v)
         IN  /\ 3 \in DOMAIN d /\ d[1] = 1 /\ d[2] = 0
             /\ d[3] = ((((v \div 10) \div 10) \div 10) \div 10) % 10
<1> DEFINE v1 == v \div 10
           v2 == v1 \div 10
           v3 == v2 \div 10
           v4 == v3 \div 10
           v5 == v4 \div 10
           v6 == v5 \div 10
<1>1. PICK f : DividesOut(f, v) /\ Digits(v) = f[v]
  BY DigitsStepwise
<1>2. /\ v1 \in Nat /\ v2 \in Nat /\ v3 \in Nat /\ v4 \in 100..102 /\ v5 = 10 /\ v6 = 1
      /\ v1 <= v /\ v2 <= v /\ v3 <= v /\ v >= 10 /\ v1 >= 10 /\ v2 >= 10 /\ v3 >= 10
  OBVIOUS
<1>3. v4 % 10 \in Nat /\ v3 % 10 \in Nat /\ v2 % 10 \in Nat /\ v1 % 10 \in Nat /\ v % 10 \in Nat
  BY <1>2
<1>4. /\ f[v] = Append(f[v1], v % 10) /\ f[v1] = Append(f[v2], v1 % 10)
      /\ f[v2] = Append(f[v3], v2 % 10) /\ f[v3] = Append(f[v4], v3 % 10)
  <2>1. /\ v \in 0..v /\ v1 \in 0..v /\ v2 \in 0..v /\ v3 \in 0..v
        /\ ~(v < 10) /\ ~(v1 < 10) /\ ~(v2 < 10) /\ ~(v3 < 10)
    BY <1>2
  <2> HIDE DEF v1, v2, v3, v4
  <2>2. \A m \in 0..v : ~(m < 10) => f[m] = Append(f[m \div 10], m % 10)
    BY <1>1 DEF DividesOut
  <2> QED BY <2>1, <2>2 DEF v1, v2, v3, v4
<1>5. f[v4] = Append(f[v5], v4 % 10) /\ f[v5] = Append(f[v6], 0) /\ f[v6] = <<1>>
  <2>1. \A m \in 0..v : ~(m < 10) => f[m] = Append(f[m \div 10], m % 10)
    BY <1>1 DEF DividesOut
  <2>2. \A m \in 0..v : m < 10 => f[m] = <<m>>
    BY <1>1 DEF DividesOut
  <2>3. v4 \in 0..v /\ ~(v4 < 10) /\ v5 \in 0..v /\ ~(v5 < 10) /\ v5 % 10 = 0
        /\ v6 \in 0..v /\ v6 < 10 /\ v6 = 1
    BY <1>2
  <2> HIDE DEF v4
  <2>4. f[v4] = Append(f[v5], v4 % 10)
    BY <2>1, <2>3 DEF v5
  <2> HIDE DEF v5
  <2>5. f[v5] = Append(f[v6], 0)
    BY <2>1, <2>3 DEF v6
  <2> HIDE DEF v6
  <2>6. f[v6] = <<1>>
    BY <2>2, <2>3
  <2> QED BY <2>4, <2>5, <2>6
<1> HIDE DEF v1, v2, v3, v4
<1> DEFINE Begins(d) == d \in Seq(Nat) /\ Len(d) >= 3 /\ d[1] = 1 /\ d[2] = 0 /\ d[3] = v4 % 10
<1>6. ASSUME NEW d, NEW x \in Nat, Begins(d) PROVE Begins(Append(d, x))
  <2>1. d \in Seq(Nat) /\ Len(d) \in Nat /\ 1 \in 1..Len(d) /\ 2 \in 1..Len(d) /\ 3 \in 1..Len(d)
    BY <1>6
  <2>2. Append(d, x) \in Seq(Nat) /\ Len(Append(d, x)) = Len(d) + 1
        /\ \A k \in 1..Len(d) : Append(d, x)[k] = d[k]
    BY <2>1
  <2> QED BY <1>6, <2>1, <2>2
<1>7. Begins(f[v4])
  <2>1. ASSUME NEW d \in Seq(Nat), NEW x \in Nat, NEW n, Len(d) = n
        PROVE  /\ Append(d, x) \in Seq(Nat) /\ Len(Append(d, x)) = n + 1
               /\ \A k \in 1..n : Append(d, x)[k] = d[k]
               /\ Append(d, x)[n + 1] = x
    BY <2>1
  <2> DEFINE a == f[v6]
             b == f[v5]
             c == f[v4]
  <2>2. a \in Seq(Nat) /\ Len(a) = 1 /\ a[1] = 1
    BY <1>5
  <2> HIDE DEF a
  <2>3. b = Append(a, 0)
    BY <1>5 DEF a
  <2>4. b \in Seq(Nat) /\ Len(b) = 1 + 1 /\ b[1] = a[1] /\ b[1 + 1] = 0
    BY <2>1, <2>2, <2>3
  <2> HIDE DEF b
  <2>5. c = Append(b, v4 % 10)
    BY <1>5 DEF b
  <2>6. /\ c \in Seq(Nat) /\ Len(c) = 1 + 1 + 1 /\ c[1 + 1 + 1] = v4 % 10
        /\ c[1] = b[1] /\ c[1 + 1] = b[1 + 1]
    <3>1. 1 \in 1..(1 + 1) /\ 1 + 1 \in 1..(1 + 1)
      OBVIOUS
    <3> DEFINE x == v4 % 10
               n == 1 + 1
    <3>2. b \in Seq(Nat) /\ Len(b) = n /\ x \in Nat
      BY <1>3, <2>4
    <3>3. 1 \in 1..n /\ n \in 1..n
      BY <3>1
    <3>4. c = Append(b, x)
      BY <2>5
    <3> HIDE DEF x, n
    <3>5. /\ Append(b, x) \in Seq(Nat) /\ Len(Append(b, x)) = n + 1
          /\ \A k \in 1..n : Append(b, x)[k] = b[k]
          /\ Append(b, x)[n + 1] = x
      BY <2>1, <3>2
    <3>6. /\ c \in Seq(Nat) /\ Len(c) = n + 1 /\ c[n + 1] = x /\ c[1] = b[1] /\ c[n] = b[n]
      BY <3>3, <3>4, <3>5
    <3> QED BY <3>6 DEF x, n
  <2> HIDE DEF c
  <2>7. Begins(c)
    BY <2>2, <2>4, <2>6
  <2> QED BY <2>7 DEF c
<1>8. Begins(f[v])
  <2> HIDE DEF Begins
  <2> QED BY <1>3, <1>4, <1>6, <1>7
<1>9. 3 \in DOMAIN f[v]
  BY <1>8
<1> QED BY <1>1, <1>8, <1>9 DEF v1, v2, v3, v4

StrictVersion(version) == version \in 1000000..1019999
ComesBefore(version) == StringBefore(version, 1020000)

LEMMA StrictVersions ==
  ASSUME NEW version, StrictVersion(version)
  PROVE  ComesBefore(version)
<1> DEFINE tenths(v) == (((v \div 10) \div 10) \div 10) \div 10
           Strict(v, w) == /\ v \in Nat /\ tenths(v) \in 100..101
                           /\ w \in Nat /\ tenths(w) = 102
           Plausible(v) == v \in Nat /\ 1000000 <= v /\ v <= 1019999
<1>0. Plausible(version)
  BY SMT DEF StrictVersion
<1>1. Strict(version, 1020000)
  BY <1>0, SMT
<1>2. ASSUME NEW v, NEW w, Strict(v, w) PROVE StringBefore(v, w)
  <2> DEFINE x == Digits(v)
             y == Digits(w)
  <2>1. 3 \in DOMAIN x /\ x[1] = 1 /\ x[2] = 0 /\ x[3] = tenths(v) % 10
    <3>1. tenths(v) \in 100..102
      BY <1>2
    <3> QED BY <1>2, <3>1, DigitsOfMillions
  <2>2. 3 \in DOMAIN y /\ y[1] = 1 /\ y[2] = 0 /\ y[3] = tenths(w) % 10
    <3>1. tenths(w) \in 100..102
      BY <1>2
    <3> QED BY <1>2, <3>1, DigitsOfMillions
  <2>3. x \in Seq(Nat) /\ y \in Seq(Nat)
    BY <1>2, DigitsAreWorth
  <2>4. tenths(v) % 10 < tenths(w) % 10
    <3> HIDE DEF tenths
    <3> QED BY <1>2
  <2> HIDE DEF x, y, tenths
  <2>5. 1 \in DOMAIN x /\ 2 \in DOMAIN x
    BY <2>1, <2>3
  <2>6. \A j \in 1..(3 - 1) : j = 1 \/ j = 2
    OBVIOUS
  <2>7. /\ \A j \in 1..(3 - 1) : j \in DOMAIN x /\ x[j] = y[j]
        /\ 3 \in DOMAIN x => x[3] < y[3]
    BY <2>1, <2>2, <2>4, <2>5, <2>6
  <2>8. \E k \in DOMAIN y : /\ \A j \in 1..(k - 1) : j \in DOMAIN x /\ x[j] = y[j]
                            /\ k \in DOMAIN x => x[k] < y[k]
    BY <2>2, <2>7
  <2> QED BY <2>8 DEF StringBefore, x, y
<1> HIDE DEF Strict
<1> QED BY <1>1, <1>2, SMT DEF ComesBefore

LEMMA AppendInSeq ==
  ASSUME NEW T, NEW s \in Seq(T), NEW t \in T
  PROVE  Append(s, t) \in Seq(T)
OBVIOUS

\* The events of a block and its extrinsics, before and after.
EventsAmong(pallets, methods, says) ==
  [phase : {"ApplyExtrinsic", "Initialization", "Finalization"}, index : Nat,
   pallet : pallets, method : methods, paysFee : Seq(says)]
Fetched == [signed : BOOLEAN]
Answers == {"true", "false", "null"}
AnsweredWith(E) ==
  [signed : BOOLEAN, events : Seq(E), success : Answers \cup {"unable to fetch events"},
   paysFee : Answers]
BlocksOf(E) ==
  [extrinsics : Seq(AnsweredWith(E)), Initialization : Seq(E), Finalization : Seq(E)]

LEMMA BlockIsNoError ==
  ASSUME NEW E, NEW block \in BlocksOf(E)
  PROVE  block # Error
<1>1. "extrinsics" \in DOMAIN block
  BY DEF BlocksOf
<1>2. "extrinsics" \notin DOMAIN Error
  BY DEF Error
<1> QED BY <1>1, <1>2

\* What an event's items say of the fee.
Says == {"Yes", "No", "true"}

LEMMA FeeIs ==
  ASSUME NEW pallets, NEW methods, NEW says, NEW event \in EventsAmong(pallets, methods, says),
         NEW extrinsic
  PROVE  LET said == ToSet(event.paysFee) \cap Says
             decides == event.method \in Completions /\ extrinsic.signed /\ said # {}
         IN  /\ ~decides => PaysFee(extrinsic, event) = extrinsic.paysFee
             /\ decides => /\ PaysFee(extrinsic, event) \in {"true", "false"}
                           /\ PaysFee(extrinsic, event) = "true" => said \cap {"Yes", "true"} # {}
<1> DEFINE s == event.paysFee
           places == {k \in DOMAIN s : IsPaysFee(s[k])}
           items == Kept(s, places)
           said == ToSet(s) \cap Says
           completes == event.method \in Completions /\ extrinsic.signed
<1>1. s \in Seq(says) /\ DOMAIN s = 1..Len(s)
  BY DEF EventsAmong
<1>2. items \in Seq(says) /\ ToSet(items) = {s[k] : k \in (1..Len(s)) \cap places}
  BY <1>1, KeptAre
<1>3. PaysFee(extrinsic, event) = IF completes /\ items # <<>>
                                  THEN IF items[1] = "No" THEN "false" ELSE "true"
                                  ELSE extrinsic.paysFee
  BY DEF PaysFee
<1>4. {s[k] : k \in (1..Len(s)) \cap places} = said
  BY <1>1 DEF ToSet, Says, IsPaysFee
<1> HIDE DEF items, said, s
<1>5. items = <<>> <=> said = {}
  <2>1. items = <<>> => ToSet(items) = {}
    BY DEF ToSet
  <2>2. items # <<>> => items[1] \in ToSet(items)
    <3> SUFFICES ASSUME items # <<>> PROVE items[1] \in ToSet(items)
      OBVIOUS
    <3>1. 1 \in DOMAIN items
      BY <1>2
    <3> QED BY <3>1 DEF ToSet
  <2> QED BY <1>2, <1>4, <2>1, <2>2
<1>6. items # <<>> => items[1] \in said
  <2> SUFFICES ASSUME items # <<>> PROVE items[1] \in said
    OBVIOUS
  <2>1. 1 \in DOMAIN items
    BY <1>2
  <2> QED BY <1>2, <1>4, <2>1 DEF ToSet
<1>7. items # <<>> /\ items[1] # "No" => said \cap {"Yes", "true"} # {}
  BY <1>6 DEF said, Says
<1> HIDE DEF completes
<1>8. ~(completes /\ said # {}) => PaysFee(extrinsic, event) = extrinsic.paysFee
  BY <1>3, <1>5
<1>9. completes /\ said # {} =>
        /\ PaysFee(extrinsic, event) \in {"true", "false"}
        /\ PaysFee(extrinsic, event) = "true" => said \cap {"Yes", "true"} # {}
  BY <1>3, <1>5, <1>7
<1> QED BY <1>8, <1>9 DEF completes, said, s

\* An extrinsic with an event more.
LEMMA WithEventIs ==
  ASSUME NEW pallets, NEW methods, NEW says, NEW event \in EventsAmong(pallets, methods, says),
         NEW E, E = EventsAmong(pallets, methods, says), NEW x \in AnsweredWith(E)
  PROVE  LET y == WithEvent(x, event)
         IN  /\ y \in AnsweredWith(E) /\ y.signed = x.signed /\ y.events = Append(x.events, event)
             /\ y.success = IF event.method = "ExtrinsicSuccess" THEN "true" ELSE x.success
             /\ y.paysFee = PaysFee(x, event)
<1> DEFINE y == WithEvent(x, event)
<1>1. x \in [signed : BOOLEAN, events : Seq(E), success : Answers \cup {"unable to fetch events"},
             paysFee : Answers]
  BY DEF AnsweredWith
<1>2. y = [x EXCEPT !.success = IF event.method = "ExtrinsicSuccess" THEN "true" ELSE @,
                    !.paysFee = PaysFee(x, event),
                    !.events = Append(@, event)]
  BY DEF WithEvent
<1>3. PaysFee(x, event) \in Answers
  <2>1. x.paysFee \in Answers
    BY <1>1
  <2>2. PaysFee(x, event) = x.paysFee \/ PaysFee(x, event) \in {"true", "false"}
    BY FeeIs
  <2> QED BY <2>1, <2>2 DEF Answers
<1> HIDE DEF y
<1>4. y = [signed |-> x.signed, events |-> Append(x.events, event),
           success |-> IF event.method = "ExtrinsicSuccess" THEN "true" ELSE x.success,
           paysFee |-> PaysFee(x, event)]
  BY <1>1, <1>2
<1>5. /\ x.events \in Seq(E) /\ event \in E /\ x.signed \in BOOLEAN
      /\ x.success \in Answers \cup {"unable to fetch events"}
  BY <1>1
<1>7. Append(x.events, event) \in Seq(E)
  <2> DEFINE s == x.events
  <2>1. s \in Seq(E)
    BY <1>5
  <2> HIDE DEF s
  <2>2. Append(s, event) \in Seq(E)
    BY <1>5, <2>1, AppendInSeq
  <2> QED BY <2>2 DEF s
<1>6. y \in AnsweredWith(E)
  BY <1>3, <1>4, <1>5, <1>7 DEF AnsweredWith, Answers
<1> QED BY <1>4, <1>6 DEF y

Hooks == {"Initialization", "Finalization"}

\* An event of the i-th extrinsic.
IsOf(event, i) == event.phase = "ApplyExtrinsic" /\ event.index = i - 1

\* Block a tells what block tells, and event where it happened.
Tells(a, block, event) ==
  /\ DOMAIN a.extrinsics = DOMAIN block.extrinsics
  /\ \A hook \in Hooks :
       a[hook] = IF event.phase = hook THEN Append(block[hook], event) ELSE block[hook]
  /\ \A i \in DOMAIN block.extrinsics :
       a.extrinsics[i] = IF IsOf(event, i) THEN WithEvent(block.extrinsics[i], event)
                         ELSE block.extrinsics[i]

\* An event of none of n extrinsics.
IsStray(event, n) == event.phase = "ApplyExtrinsic" /\ event.index >= n

\* What becomes of a block with one event.
StepOf(version, a, block, event, E) ==
  /\ a \in BlocksOf(E) \cup {Error}
  /\ block = Error => a = Error
  /\ block # Error /\ a = Error => IsStray(event, Len(block.extrinsics))
  /\ block # Error /\ a # Error /\ IsStray(event, Len(block.extrinsics))
       => ~MissingIsError(version, event)
  /\ a # Error => Tells(a, block, event)

LEMMA AttributeIs ==
  ASSUME NEW pallets, NEW methods, NEW says, NEW E, E = EventsAmong(pallets, methods, says),
         NEW event \in E, NEW block \in BlocksOf(E) \cup {Error}, NEW version
  PROVE  StepOf(version, Attribute(version, block, event), block, event, E)
<1> DEFINE a == Attribute(version, block, event)
           i == event.index + 1
           x == block.extrinsics
           n == Len(x)
           throws == \/ MissingIsError(version, event)
                     \/ event.method = "ExtrinsicSuccess"
                     \/ event.method \in Completions /\ event.paysFee # <<>>
<1>1. CASE block = Error
  <2>1. a = Error
    BY <1>1 DEF Attribute
  <2> HIDE DEF a
  <2> QED BY <1>1, <2>1 DEF StepOf, a
<1>2. CASE block # Error
  <2>1. block \in BlocksOf(E)
    BY <1>2
  <2>2. /\ block = [extrinsics |-> x, Initialization |-> block.Initialization,
                    Finalization |-> block.Finalization]
        /\ x \in Seq(AnsweredWith(E)) /\ block.Initialization \in Seq(E)
        /\ block.Finalization \in Seq(E)
    BY <2>1 DEF BlocksOf
  <2>3. DOMAIN x = 1..n /\ n \in Nat /\ \A j \in 1..n : x[j] \in AnsweredWith(E)
    BY <2>2
  <2>4. /\ event.phase \in {"ApplyExtrinsic", "Initialization", "Finalization"}
        /\ event.index \in Nat
    BY DEF EventsAmong
  <2>5. a = IF event.phase # "ApplyExtrinsic"
            THEN [block EXCEPT ![event.phase] = Append(@, event)]
            ELSE IF i \in DOMAIN x
            THEN [block EXCEPT !.extrinsics[i] = WithEvent(@, event)]
            ELSE IF throws THEN Error ELSE block
    BY <1>2 DEF Attribute
  <2> HIDE DEF a, x
  <2>6. CASE event.phase \in Hooks
    <3> DEFINE hook == event.phase
               s == block[hook]
    <3>1. s \in Seq(E) /\ (hook = "Initialization" \/ hook = "Finalization")
      BY <2>2, <2>6 DEF Hooks
    <3>2. Append(s, event) \in Seq(E)
      BY <3>1, AppendInSeq
    <3>3. a = [block EXCEPT ![hook] = Append(s, event)]
      BY <2>5, <3>1
    <3> DEFINE t == Append(s, event)
    <3> HIDE DEF t
    <3>4. /\ a.extrinsics = x
          /\ a.Initialization = IF hook = "Initialization" THEN t ELSE block.Initialization
          /\ a.Finalization = IF hook = "Finalization" THEN t ELSE block.Finalization
          /\ a = [extrinsics |-> a.extrinsics, Initialization |-> a.Initialization,
                  Finalization |-> a.Finalization]
      <4> HIDE DEF hook, s
      <4>1. a = [block EXCEPT ![hook] = t]
        BY <3>3 DEF t
      <4> DEFINE p == block.Initialization
                 q == block.Finalization
      <4>2. block = [extrinsics |-> x, Initialization |-> p, Finalization |-> q]
        BY <2>2
      <4>3. block.Initialization = p /\ block.Finalization = q
        OBVIOUS
      <4> HIDE DEF p, q
      <4>4. CASE hook = "Initialization"
        <5>1. a = [block EXCEPT !.Initialization = t]
          BY <4>1, <4>4
        <5>2. a = [extrinsics |-> x, Initialization |-> t, Finalization |-> q]
          BY <4>2, <5>1
        <5> QED BY <4>3, <4>4, <5>2
      <4>5. CASE hook = "Finalization"
        <5>1. a = [block EXCEPT !.Finalization = t]
          BY <4>1, <4>5
        <5>2. a = [extrinsics |-> x, Initialization |-> p, Finalization |-> t]
          BY <4>2, <5>1
        <5> QED BY <4>3, <4>5, <5>2
      <4> QED BY <3>1, <4>4, <4>5
    <3>5. a \in BlocksOf(E)
      <4>1. t \in Seq(E)
        BY <3>2 DEF t
      <4>2. a.Initialization \in Seq(E) /\ a.Finalization \in Seq(E) /\ a.extrinsics \in Seq(AnsweredWith(E))
        BY <2>2, <3>4, <4>1
      <4> QED BY <3>4, <4>2 DEF BlocksOf
    <3>6. a # Error
      BY <3>5, BlockIsNoError
    <3>7. Tells(a, block, event)
      <4>1. event.phase # "ApplyExtrinsic"
        BY <3>1
      <4>2. \A j \in DOMAIN x : ~IsOf(event, j)
        BY <4>1 DEF IsOf
      <4>3. ASSUME NEW h \in Hooks
            PROVE  a[h] = IF event.phase = h THEN Append(block[h], event) ELSE block[h]
        <5>1. CASE h = "Initialization"
          BY <3>4, <5>1 DEF t
        <5>2. CASE h = "Finalization"
          BY <3>4, <5>2 DEF t
        <5> QED BY <5>1, <5>2 DEF Hooks
      <4> QED BY <3>4, <4>2, <4>3 DEF Tells, x
    <3>8. ~IsStray(event, Len(block.extrinsics))
      BY <3>1 DEF IsStray
    <3> QED BY <1>2, <3>5, <3>6, <3>7, <3>8 DEF StepOf, a
  <2>7. CASE event.phase = "ApplyExtrinsic" /\ i \in DOMAIN x
    <3> DEFINE y == WithEvent(x[i], event)
               z == [x EXCEPT ![i] = y]
    <3>1. y \in AnsweredWith(E)
      BY <2>3, <2>7, WithEventIs
    <3> HIDE DEF y
    <3>2. z \in Seq(AnsweredWith(E)) /\ DOMAIN z = DOMAIN x
          /\ \A j \in DOMAIN x : z[j] = IF j = i THEN y ELSE x[j]
      BY <2>2, <2>3, <2>7, <3>1
    <3>3. a = [block EXCEPT !.extrinsics = z]
      BY <2>5, <2>7 DEF y, x
    <3> HIDE DEF z
    <3>4. a = [extrinsics |-> z, Initialization |-> block.Initialization,
               Finalization |-> block.Finalization]
      BY <2>2, <3>3
    <3>5. a \in BlocksOf(E)
      BY <2>2, <3>2, <3>4 DEF BlocksOf
    <3>6. a # Error
      BY <3>5, BlockIsNoError
    <3>7. Tells(a, block, event)
      <4>1. ASSUME NEW j \in DOMAIN x
            PROVE  a.extrinsics[j] = IF IsOf(event, j) THEN WithEvent(x[j], event) ELSE x[j]
        <5>1. IsOf(event, j) <=> j = i
          BY <2>3, <2>4, <2>7 DEF IsOf
        <5> QED BY <3>2, <3>4, <5>1 DEF y
      <4>2. \A h \in Hooks : event.phase # h /\ a[h] = block[h]
        BY <2>7, <3>4 DEF Hooks
      <4> QED BY <3>2, <3>4, <4>1, <4>2 DEF Tells, x
    <3>8. ~IsStray(event, n)
      BY <2>3, <2>4, <2>7 DEF IsStray
    <3> QED BY <1>2, <3>5, <3>6, <3>7, <3>8 DEF StepOf, a, x
  <2>8. CASE event.phase = "ApplyExtrinsic" /\ i \notin DOMAIN x
    <3>1. IsStray(event, n)
      BY <2>3, <2>4, <2>8 DEF IsStray
    <3>2. CASE throws
      <4>1. a = Error
        BY <2>5, <2>8, <3>2
      <4> HIDE DEF throws, i
      <4> QED BY <1>2, <3>1, <4>1 DEF StepOf, a, x
    <3>3. CASE ~throws
      <4>1. a = block /\ ~MissingIsError(version, event)
        BY <2>5, <2>8, <3>3
      <4>2. \A j \in DOMAIN x : ~IsOf(event, j)
        BY <2>3, <2>4, <2>8 DEF IsOf
      <4>3. \A h \in Hooks : event.phase # h
        BY <2>8 DEF Hooks
      <4>4. Tells(a, block, event)
        BY <4>1, <4>2, <4>3 DEF Tells, x
      <4> HIDE DEF throws, i
      <4> QED BY <1>2, <2>1, <4>1, <4>4 DEF StepOf, a
    <3> QED BY <3>2, <3>3
  <2> QED BY <2>4, <2>6, <2>7, <2>8 DEF Hooks
<1> QED BY <1>1, <1>2

\* The block before any event, and the events that are handed out.
EmptyBlock(extrinsics, events) ==
  [extrinsics |-> Extracted(extrinsics, events), Initialization |-> <<>>, Finalization |-> <<>>]
Handed(events) == IF events = Null THEN <<>> ELSE events

\* b[m] is the block after m of the events.
MadeBy(b, version, empty, evs) ==
  b[0] = empty /\ \A m \in 1..Len(evs) : b[m] = Attribute(version, b[m - 1], evs[m])

LEMMA EmptyBlockIs ==
  ASSUME NEW E, NEW extrinsics \in Seq(Fetched), NEW events
  PROVE  EmptyBlock(extrinsics, events) \in BlocksOf(E)
<1> DEFINE n == Len(extrinsics)
           x == Extracted(extrinsics, events)
<1>1. n \in Nat /\ DOMAIN extrinsics = 1..n
  OBVIOUS
<1>2. \A i \in 1..n : extrinsics[i].signed \in BOOLEAN
  <2> TAKE i \in 1..n
  <2>1. extrinsics[i] \in Fetched
    BY <1>1
  <2> QED BY <2>1 DEF Fetched
<1>3. x \in [1..n -> AnsweredWith(E)]
  <2> DEFINE said(i) ==
        [signed |-> extrinsics[i].signed, events |-> <<>>,
         success |-> IF events = Null THEN "unable to fetch events" ELSE "false",
         paysFee |-> IF extrinsics[i].signed THEN "null" ELSE "false"]
  <2>1. \A i \in 1..n : said(i) \in AnsweredWith(E)
    BY <1>2 DEF AnsweredWith, Answers
  <2>2. x = [i \in 1..n |-> said(i)]
    BY <1>1 DEF Extracted
  <2> HIDE DEF x, said, n
  <2> QED BY <2>1, <2>2
<1>4. x \in Seq(AnsweredWith(E))
  <2> HIDE DEF x, n
  <2> QED BY <1>1, <1>3
<1> HIDE DEF x
<1> QED BY <1>4 DEF EmptyBlock, BlocksOf, x

SanitizedBy(b, version, extrinsics, events) ==
  /\ MadeBy(b, version, EmptyBlock(extrinsics, events), Handed(events))
  /\ SanitizeEvents(version, extrinsics, events) = b[Len(Handed(events))]

IsSanitized(version, extrinsics, events, E) ==
  \E b \in [0..Len(Handed(events)) -> BlocksOf(E) \cup {Error}] :
    SanitizedBy(b, version, extrinsics, events)

LEMMA SanitizedStepwise ==
  ASSUME NEW pallets, NEW methods, NEW says, NEW E, E = EventsAmong(pallets, methods, says),
         NEW version, NEW extrinsics \in Seq(Fetched), NEW events, Handed(events) \in Seq(E)
  PROVE  IsSanitized(version, extrinsics, events, E)
<1> DEFINE evs == Handed(events)
           n == Len(evs)
           T == BlocksOf(E) \cup {Error}
           empty == EmptyBlock(extrinsics, events)
           step == [k \in 1..n |-> [block \in T |-> Attribute(version, block, evs[k])]]
           Makes(iter) == iter = [S \in SUBSET DOMAIN evs |->
                                    IF S = {} THEN empty
                                    ELSE Attribute(version, iter[S \ {Max(S)}], evs[Max(S)])]
<1>1. n \in Nat /\ DOMAIN evs = 1..n /\ \A k \in 1..n : evs[k] \in E
  OBVIOUS
<1>2. empty \in T
  BY EmptyBlockIs
<1> HIDE DEF evs, empty
<1>3. \A block \in T : \A e \in E : Attribute(version, block, e) \in T
  <2> TAKE block \in T
  <2> TAKE e \in E
  <2>1. StepOf(version, Attribute(version, block, e), block, e, E)
    BY AttributeIs
  <2> QED BY <2>1 DEF StepOf
<1> HIDE DEF T
<1>4. step \in [1..n -> [T -> T]]
  <2> HIDE DEF n
  <2> QED BY <1>1, <1>3
<1>5. PICK f \in [SUBSET (1..n) -> T] : Iterates(f, empty, step, n)
  <2>1. HasIteration(T, empty, step, n)
    <3>1. \A base \in T : \A k \in Nat : \A st \in [1..k -> [T -> T]] :
            HasIteration(T, base, st, k)
      <4> TAKE base \in T
      <4> TAKE k \in Nat
      <4> TAKE st \in [1..k -> [T -> T]]
      <4> QED BY IterationExists
    <3> HIDE DEF step, n
    <3> QED BY <1>1, <1>2, <1>4, <3>1
  <2> HIDE DEF step, n
  <2> QED BY <2>1 DEF HasIteration
<1>6. Makes(f)
  <2>1. ASSUME NEW S \in SUBSET (1..n)
        PROVE  f[S] = IF S = {} THEN empty
                      ELSE Attribute(version, f[S \ {Max(S)}], evs[Max(S)])
    <3>1. f[S] = IF S = {} THEN empty ELSE step[Max(S)][f[S \ {Max(S)}]]
      BY <1>5 DEF Iterates
    <3>2. S # {} => Max(S) \in 1..n
      <4> HIDE DEF n
      <4> QED BY <1>1, MaxIsLargest
    <3>3. f[S \ {Max(S)}] \in T
      BY <1>5
    <3>4. S # {} => step[Max(S)][f[S \ {Max(S)}]] = Attribute(version, f[S \ {Max(S)}], evs[Max(S)])
      <4> HIDE DEF n
      <4> QED BY <3>2, <3>3
    <3> QED BY <3>1, <3>4
  <2> HIDE DEF n, step
  <2> QED BY <1>1, <1>5, <2>1
<1>7. SanitizeEvents(version, extrinsics, events) = (CHOOSE iter : Makes(iter))[DOMAIN evs]
  BY DEF SanitizeEvents, FoldLeft, MapThenFoldSet, evs, empty, Handed, EmptyBlock
<1>8. PICK iter : Makes(iter) /\ SanitizeEvents(version, extrinsics, events) = iter[DOMAIN evs]
  <2> HIDE DEF Makes
  <2> QED BY <1>6, <1>7
<1> DEFINE b == [m \in 0..n |-> iter[1..m]]
<1>9. b[0] = empty
  <2>1. 1..0 = {} /\ {} \in SUBSET DOMAIN evs /\ 0 \in 0..n
    BY <1>1
  <2> QED BY <1>8, <2>1
<1>10. ASSUME NEW m \in 1..n PROVE b[m] = Attribute(version, b[m - 1], evs[m])
  <2>1. /\ 1..m \in SUBSET (1..n) /\ 1..m # {}
        /\ Max(1..m) = m /\ (1..m) \ {Max(1..m)} = 1..(m - 1)
    BY <1>1, IterationInOrder
  <2>2. iter[1..m] = Attribute(version, iter[(1..m) \ {Max(1..m)}], evs[Max(1..m)])
    BY <1>1, <1>8, <2>1
  <2>3. m \in 0..n /\ m - 1 \in 0..n
    BY <1>1
  <2> QED BY <2>1, <2>2, <2>3
<1>11. \A m \in 0..n : b[m] \in T
  <2> DEFINE Good == {m \in Nat : m <= n => b[m] \in T}
  <2> HIDE DEF b
  <2>1. 0 \in Good
    BY <1>2, <1>9
  <2>2. ASSUME NEW m \in Nat, m \in Good PROVE m + 1 \in Good
    <3> SUFFICES ASSUME m + 1 <= n PROVE b[m + 1] \in T
      OBVIOUS
    <3>1. m + 1 \in 1..n /\ (m + 1) - 1 = m /\ b[m] \in T
      BY <1>1, <2>2
    <3> HIDE DEF n
    <3>2. b[m + 1] = Attribute(version, b[m], evs[m + 1])
      BY <1>10, <3>1
    <3> QED BY <1>1, <1>3, <3>1, <3>2
  <2>3. Nat \subseteq Good
    <3> HIDE DEF Good
    <3> QED BY <2>1, <2>2, SetInduction
  <2> QED BY <1>1, <2>3
<1>12. b \in [0..n -> T]
  BY <1>11
<1>13. SanitizeEvents(version, extrinsics, events) = b[n]
  <2>1. n \in 0..n
    BY <1>1
  <2> QED BY <1>1, <1>8, <2>1
<1> HIDE DEF b
<1>14. MadeBy(b, version, empty, evs)
  BY <1>9, <1>10 DEF MadeBy
<1>15. SanitizedBy(b, version, extrinsics, events)
  BY <1>13, <1>14 DEF evs, empty, SanitizedBy
<1> QED BY <1>12, <1>15 DEF T, evs, IsSanitized

\* b[m] is a block after m events.
InSteps(b, version, evs, E) ==
  /\ evs \in Seq(E) /\ b \in [0..Len(evs) -> BlocksOf(E) \cup {Error}] /\ b[0] # Error
  /\ \A m \in 1..Len(evs) : StepOf(version, b[m], b[m - 1], evs[m], E)

\* A hook's events are told in order.
LEMMA HookTold ==
  ASSUME NEW E, NEW version, NEW evs, NEW b, InSteps(b, version, evs, E),
         NEW hook \in Hooks, b[0][hook] = <<>>, b[Len(evs)] # Error
  PROVE  b[Len(evs)][hook] = EventsOfHook(evs, hook)
<1> DEFINE n == Len(evs)
           places == {k \in DOMAIN evs : evs[k].phase = hook}
<1>1. /\ evs \in Seq(E) /\ n \in Nat /\ DOMAIN evs = 1..n
      /\ \A m \in 1..n : StepOf(version, b[m], b[m - 1], evs[m], E)
  BY DEF InSteps
<1>2. PICK p \in [0..Len(evs) -> Seq(E)] : KeepsStepwise(p, evs, places) /\ Kept(evs, places) = p[Len(evs)]
  <2> HIDE DEF places
  <2> QED BY <1>1, KeptStepwise
<1> DEFINE Good == {m \in Nat : m <= n /\ b[m] # Error => b[m][hook] = p[m]}
<1>3. 0 \in Good
  BY <1>2 DEF KeepsStepwise
<1>4. ASSUME NEW m \in Nat, m \in Good PROVE m + 1 \in Good
  <2> SUFFICES ASSUME m + 1 <= n, b[m + 1] # Error PROVE b[m + 1][hook] = p[m + 1]
    OBVIOUS
  <2>1. m + 1 \in 1..n /\ (m + 1) - 1 = m /\ m <= n
    BY <1>1
  <2>2. StepOf(version, b[m + 1], b[m], evs[m + 1], E)
    BY <1>1, <2>1
  <2>3. b[m] # Error /\ Tells(b[m + 1], b[m], evs[m + 1])
    BY <2>2 DEF StepOf
  <2>4. b[m][hook] = p[m]
    BY <1>4, <2>1, <2>3
  <2>5. b[m + 1][hook] = IF evs[m + 1].phase = hook THEN Append(p[m], evs[m + 1]) ELSE p[m]
    BY <2>3, <2>4 DEF Tells
  <2>6. p[m + 1] = IF m + 1 \in places THEN Append(p[m], evs[m + 1]) ELSE p[m]
    <3> HIDE DEF places
    <3> QED BY <1>2, <2>1 DEF KeepsStepwise
  <2>7. m + 1 \in places <=> evs[m + 1].phase = hook
    BY <1>1, <2>1
  <2> HIDE DEF places
  <2> QED BY <2>5, <2>6, <2>7
<1>5. Nat \subseteq Good
  <2> HIDE DEF Good
  <2> QED BY <1>3, <1>4, SetInduction
<1>6. b[n][hook] = p[n]
  BY <1>1, <1>5
<1> QED BY <1>2, <1>6 DEF EventsOfHook

\* What is told of an extrinsic after the first m events, own being the places
\* of its events.
SaidAfter(x, first, evs, own, m) ==
  /\ x.signed = first.signed
  /\ x.success = "true" <=> \E k \in (1..m) \cap own : evs[k].method = "ExtrinsicSuccess"
  /\ x.paysFee = "true" =>
       /\ first.signed
       /\ \E k \in (1..m) \cap own : /\ evs[k].method \in Completions
                                     /\ ToSet(evs[k].paysFee) \cap {"Yes", "true"} # {}
  /\ first.signed /\ x.paysFee = "null" =>
       \A k \in (1..m) \cap own :
         evs[k].method \in Completions => ToSet(evs[k].paysFee) \cap Says = {}

\* What block a tells of the i-th extrinsic after all events.
OwnTold(a, empty, first, evs, i) ==
  /\ DOMAIN a.extrinsics = DOMAIN empty.extrinsics
  /\ a.extrinsics[i].events = EventsOfExtrinsic(evs, i)
  /\ SaidAfter(a.extrinsics[i], first, evs, {k \in DOMAIN evs : IsOf(evs[k], i)}, Len(evs))

LEMMA ExtrinsicTold ==
  ASSUME NEW pallets, NEW methods, NEW says, NEW E, E = EventsAmong(pallets, methods, says),
         NEW version, NEW evs, NEW b, InSteps(b, version, evs, E),
         NEW i \in DOMAIN b[0].extrinsics, NEW first,
         b[0].extrinsics[i].events = <<>>, SaidAfter(b[0].extrinsics[i], first, evs, {}, 0),
         b[Len(evs)] # Error
  PROVE  OwnTold(b[Len(evs)], b[0], first, evs, i)
<1> DEFINE n == Len(evs)
           own == {k \in DOMAIN evs : IsOf(evs[k], i)}
           x(m) == b[m].extrinsics[i]
<1>1. /\ evs \in Seq(E) /\ n \in Nat /\ DOMAIN evs = 1..n
      /\ b \in [0..n -> BlocksOf(E) \cup {Error}] /\ \A m \in 1..n : evs[m] \in E
      /\ \A m \in 1..n : StepOf(version, b[m], b[m - 1], evs[m], E)
  BY DEF InSteps
<1>2. PICK p \in [0..Len(evs) -> Seq(E)] : KeepsStepwise(p, evs, own) /\ Kept(evs, own) = p[Len(evs)]
  <2> HIDE DEF own
  <2> QED BY <1>1, KeptStepwise
<1>3. EventsOfExtrinsic(evs, i) = Kept(evs, own)
  BY DEF EventsOfExtrinsic, IsOf
<1> DEFINE Told(m) == /\ DOMAIN b[m].extrinsics = DOMAIN b[0].extrinsics
                      /\ x(m).events = p[m]
                      /\ SaidAfter(x(m), first, evs, own, m)
           Good == {m \in Nat : m <= n /\ b[m] # Error => Told(m)}
<1>4. 0 \in Good
  <2>1. p[0] = <<>>
    BY <1>2 DEF KeepsStepwise
  <2>2. (1..0) \cap own = {} /\ (1..0) \cap {} = {}
    OBVIOUS
  <2>3. SaidAfter(x(0), first, evs, own, 0)
    <3> HIDE DEF own
    <3> QED BY <2>2 DEF SaidAfter
  <2> HIDE DEF own
  <2> QED BY <2>1, <2>3
<1>5. ASSUME NEW m \in Nat, m \in Good PROVE m + 1 \in Good
  <2> SUFFICES ASSUME m + 1 <= n, b[m + 1] # Error PROVE Told(m + 1)
    BY <1>5
  <2> DEFINE e == evs[m + 1]
  <2>1. m + 1 \in 1..n /\ (m + 1) - 1 = m /\ m <= n /\ m \in 0..n /\ e \in E
    BY <1>1
  <2>2. StepOf(version, b[m + 1], b[m], e, E)
    BY <1>1, <2>1
  <2>3. b[m] # Error /\ Tells(b[m + 1], b[m], e)
    BY <2>2 DEF StepOf
  <2>4. Told(m)
    BY <1>5, <2>1, <2>3
  <2>5. p[m + 1] = IF m + 1 \in own THEN Append(p[m], e) ELSE p[m]
    <3> HIDE DEF own
    <3> QED BY <1>2, <2>1 DEF KeepsStepwise
  <2>6. m + 1 \in own <=> IsOf(e, i)
    BY <1>1, <2>1
  <2>7. /\ DOMAIN b[m + 1].extrinsics = DOMAIN b[0].extrinsics
        /\ x(m + 1) = IF IsOf(e, i) THEN WithEvent(x(m), e) ELSE x(m)
    BY <2>3, <2>4 DEF Tells
  <2>8. x(m) \in AnsweredWith(E)
    <3>1. b[m] \in BlocksOf(E)
      BY <1>1, <2>1, <2>3
    <3>2. b[m].extrinsics \in Seq(AnsweredWith(E)) /\ i \in DOMAIN b[m].extrinsics
      BY <2>4, <3>1 DEF BlocksOf
    <3> QED BY <3>2
  <2>9. (1..(m + 1)) \cap own = ((1..m) \cap own) \cup (IF m + 1 \in own THEN {m + 1} ELSE {})
    <3> HIDE DEF own
    <3> QED OBVIOUS
  <2> DEFINE y == x(m)
             z == x(m + 1)
             before == (1..m) \cap own
  <2>10. y \in AnsweredWith(E) /\ y.events = p[m] /\ SaidAfter(y, first, evs, own, m)
    BY <2>4, <2>8
  <2> HIDE DEF own, y, z
  <2>11. CASE IsOf(e, i)
    <3>1. z = WithEvent(y, e)
      BY <2>7, <2>11 DEF y, z
    <3>2. /\ z.signed = y.signed /\ z.events = Append(y.events, e)
          /\ z.success = IF e.method = "ExtrinsicSuccess" THEN "true" ELSE y.success
          /\ z.paysFee = PaysFee(y, e)
      BY <2>1, <2>10, <3>1, WithEventIs
    <3> DEFINE said == ToSet(e.paysFee) \cap Says
               decides == e.method \in Completions /\ y.signed /\ said # {}
    <3>3. /\ ~decides => z.paysFee = y.paysFee
          /\ decides => /\ z.paysFee \in {"true", "false"}
                        /\ z.paysFee = "true" => said \cap {"Yes", "true"} # {}
      BY <2>1, <3>2, FeeIs
    <3>4. said \cap {"Yes", "true"} = ToSet(e.paysFee) \cap {"Yes", "true"}
      BY DEF Says
    <3>5. (1..(m + 1)) \cap own = before \cup {m + 1}
      BY <2>6, <2>9, <2>11
    <3>6. z.events = p[m + 1]
      BY <2>5, <2>6, <2>10, <2>11, <3>2
    <3>7. z.success = "true" <=>
            \E k \in before \cup {m + 1} : evs[k].method = "ExtrinsicSuccess"
      <4>1. y.success = "true" <=> \E k \in before : evs[k].method = "ExtrinsicSuccess"
        BY <2>10 DEF SaidAfter
      <4> HIDE DEF before
      <4> QED BY <3>2, <4>1
    <3>8. z.signed = first.signed /\ y.signed = first.signed
      BY <2>10, <3>2 DEF SaidAfter
    <3>9. z.paysFee = "true" =>
            /\ first.signed
            /\ \E k \in before \cup {m + 1} :
                 /\ evs[k].method \in Completions
                 /\ ToSet(evs[k].paysFee) \cap {"Yes", "true"} # {}
      <4> SUFFICES ASSUME z.paysFee = "true"
                   PROVE  /\ first.signed
                          /\ \E k \in before \cup {m + 1} :
                               /\ evs[k].method \in Completions
                               /\ ToSet(evs[k].paysFee) \cap {"Yes", "true"} # {}
        OBVIOUS
      <4>1. CASE decides
        <5>1. e.method \in Completions /\ ToSet(e.paysFee) \cap {"Yes", "true"} # {} /\ first.signed
          BY <3>3, <3>4, <3>8, <4>1
        <5> HIDE DEF before
        <5> QED BY <5>1
      <4>2. CASE ~decides
        <5>1. y.paysFee = "true"
          BY <3>3, <4>2
        <5>2. /\ first.signed
              /\ \E k \in before : /\ evs[k].method \in Completions
                                   /\ ToSet(evs[k].paysFee) \cap {"Yes", "true"} # {}
          BY <2>10, <5>1 DEF SaidAfter
        <5> HIDE DEF before
        <5> QED BY <5>2
      <4> QED BY <4>1, <4>2
    <3>10. first.signed /\ z.paysFee = "null" =>
             \A k \in before \cup {m + 1} :
               evs[k].method \in Completions => ToSet(evs[k].paysFee) \cap Says = {}
      <4> SUFFICES ASSUME first.signed, z.paysFee = "null"
                   PROVE  \A k \in before \cup {m + 1} :
                            evs[k].method \in Completions => ToSet(evs[k].paysFee) \cap Says = {}
        OBVIOUS
      <4>1. ~decides
        BY <3>3
      <4>2. y.paysFee = "null"
        BY <3>3, <4>1
      <4>3. \A k \in before :
              evs[k].method \in Completions => ToSet(evs[k].paysFee) \cap Says = {}
        BY <2>10, <4>2 DEF SaidAfter
      <4>4. e.method \in Completions => said = {}
        BY <3>8, <4>1
      <4> HIDE DEF before
      <4> QED BY <4>3, <4>4
    <3>11. SaidAfter(z, first, evs, own, m + 1)
      <4> HIDE DEF before, said, decides, e
      <4> QED BY <3>5, <3>7, <3>8, <3>9, <3>10 DEF SaidAfter
    <3> QED BY <2>7, <3>6, <3>11 DEF z
  <2>12. CASE ~IsOf(e, i)
    <3>1. z = y /\ (1..(m + 1)) \cap own = (1..m) \cap own /\ p[m + 1] = p[m]
      BY <2>5, <2>6, <2>7, <2>9, <2>12 DEF y, z
    <3>2. SaidAfter(z, first, evs, own, m + 1)
      BY <2>10, <3>1 DEF SaidAfter
    <3> QED BY <2>7, <2>10, <3>1, <3>2 DEF z
  <2> QED BY <2>11, <2>12
<1>6. Nat \subseteq Good
  <2> HIDE DEF Good
  <2> QED BY <1>4, <1>5, SetInduction
<1>7. Told(n)
  <2>1. n \in Good
    BY <1>1, <1>6
  <2> HIDE DEF Told
  <2> QED BY <1>1, <2>1
<1> QED BY <1>2, <1>3, <1>7 DEF OwnTold

StepsTo(block, b, version, extrinsics, events, E) ==
  /\ InSteps(b, version, Handed(events), E) /\ b[0] = EmptyBlock(extrinsics, events)
  /\ block = b[Len(Handed(events))]

IsInSteps(block, version, extrinsics, events, E) ==
  \E b : StepsTo(block, b, version, extrinsics, events, E)

LEMMA SanitizedInSteps ==
  ASSUME NEW pallets, NEW methods, NEW says, NEW E, E = EventsAmong(pallets, methods, says),
         NEW version, NEW extrinsics \in Seq(Fetched), NEW events, Handed(events) \in Seq(E)
  PROVE  IsInSteps(SanitizeEvents(version, extrinsics, events), version, extrinsics, events, E)
<1> DEFINE evs == Handed(events)
           n == Len(evs)
           empty == EmptyBlock(extrinsics, events)
<1>1. PICK b \in [0..n -> BlocksOf(E) \cup {Error}] :
        /\ MadeBy(b, version, empty, evs)
        /\ SanitizeEvents(version, extrinsics, events) = b[n]
  <2>1. IsSanitized(version, extrinsics, events, E)
    BY SanitizedStepwise
  <2>2. PICK b \in [0..Len(Handed(events)) -> BlocksOf(E) \cup {Error}] :
          SanitizedBy(b, version, extrinsics, events)
    BY <2>1 DEF IsSanitized
  <2> QED BY <2>2 DEF SanitizedBy
<1>2. empty \in BlocksOf(E)
  BY EmptyBlockIs
<1>3. n \in Nat /\ \A m \in 1..n : evs[m] \in E
  OBVIOUS
<1> HIDE DEF evs, empty
<1>4. b[0] = empty /\ \A m \in 1..n : b[m] = Attribute(version, b[m - 1], evs[m])
  BY <1>1 DEF MadeBy
<1>5. empty # Error
  BY <1>2, BlockIsNoError
<1>6. ASSUME NEW m \in 1..n PROVE StepOf(version, b[m], b[m - 1], evs[m], E)
  <2>1. b[m - 1] \in BlocksOf(E) \cup {Error}
    BY <1>1, <1>3
  <2>2. evs[m] \in E
    BY <1>3
  <2>3. StepOf(version, Attribute(version, b[m - 1], evs[m]), b[m - 1], evs[m], E)
    BY <2>1, <2>2, AttributeIs
  <2> QED BY <1>4, <2>3
<1>7. InSteps(b, version, evs, E)
  <2>1. evs \in Seq(E)
    BY DEF evs
  <2> QED BY <1>1, <1>4, <1>5, <1>6, <2>1 DEF InSteps
<1>8. StepsTo(b[n], b, version, extrinsics, events, E)
  BY <1>4, <1>7 DEF evs, empty, StepsTo
<1> QED BY <1>1, <1>8 DEF IsInSteps

LEMMA NothingSaid ==
  ASSUME NEW extrinsics \in Seq(Fetched), NEW events, NEW evs, NEW i \in DOMAIN extrinsics
  PROVE  LET x == EmptyBlock(extrinsics, events).extrinsics
         IN  /\ DOMAIN x = DOMAIN extrinsics /\ x[i].events = <<>>
             /\ SaidAfter(x[i], extrinsics[i], evs, {}, 0)
<1> DEFINE x == EmptyBlock(extrinsics, events).extrinsics
<1>1. x = Extracted(extrinsics, events)
  BY DEF EmptyBlock
<1>2. /\ DOMAIN x = DOMAIN extrinsics
      /\ x[i] = [signed |-> extrinsics[i].signed, events |-> <<>>,
                 success |-> IF events = Null THEN "unable to fetch events" ELSE "false",
                 paysFee |-> IF extrinsics[i].signed THEN "null" ELSE "false"]
  BY <1>1 DEF Extracted
<1> DEFINE first == extrinsics[i]
           y == x[i]
           reason == IF events = Null THEN "unable to fetch events" ELSE "false"
           fee == IF extrinsics[i].signed THEN "null" ELSE "false"
<1> HIDE DEF x
<1>5. y = [signed |-> first.signed, events |-> <<>>, success |-> reason, paysFee |-> fee]
  BY <1>2
<1>6. reason # "true" /\ fee # "true"
  OBVIOUS
<1> HIDE DEF y, first, reason, fee
<1>3. /\ y.events = <<>> /\ y.signed = first.signed /\ y.success # "true" /\ y.paysFee # "true"
  BY <1>5, <1>6
<1>4. SaidAfter(y, first, evs, {}, 0)
  <2>1. (1..0) \cap {} = {}
    OBVIOUS
  <2> QED BY <1>3, <2>1 DEF SaidAfter
<1> QED BY <1>2, <1>3, <1>4 DEF x, y, first

LEMMA EveryEventAttributed ==
  ASSUME NEW pallets, NEW methods, NEW says, NEW version, NEW extrinsics \in Seq(Fetched),
         NEW events \in Seq(EventsAmong(pallets, methods, says)) \cup {Null}
  PROVE  EventsAttributed(version, extrinsics, events)
<1> DEFINE E == EventsAmong(pallets, methods, says)
           block == SanitizeEvents(version, extrinsics, events)
           own(i) == EventsOfExtrinsic(events, i)
           completions(i) == {e \in ToSet(own(i)) : e.method \in Completions}
           n == Len(events)
           TellsExtrinsic(i) ==
             LET extrinsic == block.extrinsics[i]
                 items == {ToSet(e.paysFee) : e \in completions(i)}
             IN  /\ extrinsic.events = own(i)
                 /\ extrinsic.success = "true" <=>
                      \E e \in ToSet(own(i)) : e.method = "ExtrinsicSuccess"
                 /\ extrinsic.paysFee = "true" =>
                      extrinsic.signed /\ \E s \in items : s \cap {"Yes", "true"} # {}
                 /\ extrinsic.signed /\ extrinsic.paysFee = "null" =>
                      \A s \in items : s \cap {"Yes", "No", "true"} = {}
<1> SUFFICES ASSUME events # Null, block # Error
             PROVE  /\ \A hook \in Hooks : block[hook] = EventsOfHook(events, hook)
                    /\ \A i \in DOMAIN extrinsics : TellsExtrinsic(i)
  BY DEF EventsAttributed, Hooks
<1>1. events \in Seq(E) /\ Handed(events) = events
  BY DEF Handed
<1>2. PICK b : /\ InSteps(b, version, events, E) /\ b[0] = EmptyBlock(extrinsics, events)
               /\ block = b[n]
  <2> HIDE DEF block
  <2>1. block = SanitizeEvents(version, extrinsics, events)
    BY DEF block
  <2> HIDE DEF E
  <2>2. E = EventsAmong(pallets, methods, says)
    BY DEF E
  <2>3. IsInSteps(block, version, extrinsics, events, E)
    BY <1>1, <2>1, <2>2, SanitizedInSteps
  <2> QED BY <1>1, <2>3 DEF IsInSteps, StepsTo
<1>3. \A hook \in Hooks : b[0][hook] = <<>>
  BY <1>2 DEF EmptyBlock, Hooks
<1> HIDE DEF block, E
<1>4. b[n] # Error
  BY <1>2
<1>5. \A hook \in Hooks : block[hook] = EventsOfHook(events, hook)
  <2> TAKE hook \in Hooks
  <2>1. b[0][hook] = <<>>
    BY <1>3
  <2> QED BY <1>2, <1>4, <2>1, HookTold
<1>6. ASSUME NEW i \in DOMAIN extrinsics PROVE TellsExtrinsic(i)
  <2> DEFINE first == extrinsics[i]
             places == {k \in DOMAIN events : IsOf(events[k], i)}
             x == block.extrinsics[i]
  <2>1. /\ DOMAIN b[0].extrinsics = DOMAIN extrinsics /\ b[0].extrinsics[i].events = <<>>
        /\ SaidAfter(b[0].extrinsics[i], first, events, {}, 0)
    BY <1>2, NothingSaid
  <2> HIDE DEF first
  <2>2. x.events = own(i) /\ SaidAfter(x, first, events, places, n)
    <3>1. E = EventsAmong(pallets, methods, says) /\ i \in DOMAIN b[0].extrinsics
      BY <2>1 DEF E
    <3>2. /\ b[n].extrinsics[i].events = EventsOfExtrinsic(events, i)
          /\ SaidAfter(b[n].extrinsics[i], first, events,
                       {k \in DOMAIN events : IsOf(events[k], i)}, n)
      <4>1. OwnTold(b[n], b[0], first, events, i)
        <5> HIDE DEF places
        <5> QED BY <1>2, <1>4, <2>1, <3>1, ExtrinsicTold
      <4> QED BY <4>1 DEF OwnTold
    <3> QED BY <1>2, <3>2
  <2>3. own(i) = Kept(events, places)
    BY DEF EventsOfExtrinsic, IsOf
  <2> DEFINE K == (1..n) \cap places
             S == ToSet(own(i))
  <2>4. S = {events[k] : k \in K}
    <3> HIDE DEF places
    <3> QED BY <1>1, <2>3, KeptAre
  <2> HIDE DEF places, x, K, S
  <2>5. /\ x.signed = first.signed
        /\ x.success = "true" <=> \E k \in K : events[k].method = "ExtrinsicSuccess"
        /\ x.paysFee = "true" =>
             /\ first.signed
             /\ \E k \in K : /\ events[k].method \in Completions
                             /\ ToSet(events[k].paysFee) \cap {"Yes", "true"} # {}
        /\ first.signed /\ x.paysFee = "null" =>
             \A k \in K : events[k].method \in Completions => ToSet(events[k].paysFee) \cap Says = {}
    BY <2>2 DEF SaidAfter, K
  <2>6. x.success = "true" <=> \E e \in S : e.method = "ExtrinsicSuccess"
    BY <2>4, <2>5
  <2>7. x.paysFee = "true" =>
          x.signed /\ \E s \in {ToSet(e.paysFee) : e \in completions(i)} : s \cap {"Yes", "true"} # {}
    <3> SUFFICES ASSUME x.paysFee = "true"
                 PROVE  x.signed /\ \E s \in {ToSet(e.paysFee) : e \in completions(i)} :
                                      s \cap {"Yes", "true"} # {}
      OBVIOUS
    <3>1. PICK k \in K : /\ events[k].method \in Completions
                         /\ ToSet(events[k].paysFee) \cap {"Yes", "true"} # {}
      BY <2>5
    <3>2. events[k] \in completions(i)
      BY <2>4, <3>1 DEF S
    <3> HIDE DEF completions
    <3> QED BY <2>5, <3>1, <3>2
  <2>8. x.signed /\ x.paysFee = "null" =>
          \A s \in {ToSet(e.paysFee) : e \in completions(i)} : s \cap {"Yes", "No", "true"} = {}
    <3> SUFFICES ASSUME x.signed, x.paysFee = "null", NEW e \in completions(i)
                 PROVE  ToSet(e.paysFee) \cap {"Yes", "No", "true"} = {}
      OBVIOUS
    <3>1. e \in S /\ e.method \in Completions
      BY DEF S
    <3>2. PICK k \in K : e = events[k]
      BY <2>4, <3>1
    <3> QED BY <2>5, <3>1, <3>2 DEF Says
  <2> QED BY <2>2, <2>6, <2>7, <2>8 DEF x, S
<1> QED BY <1>5, <1>6

\* A block with n extrinsics after the first m events: refused for a stray event,
\* or made without one that has to refuse it.
StraysAfter(version, block, evs, n, m) ==
  /\ block = Error => \E k \in 1..m : IsStray(evs[k], n)
  /\ block # Error =>
       /\ Len(block.extrinsics) = n
       /\ \A k \in 1..m : IsStray(evs[k], n) => ~MissingIsError(version, evs[k])

LEMMA StraysRefused ==
  ASSUME NEW E, NEW version, NEW evs, NEW b, InSteps(b, version, evs, E)
  PROVE  StraysAfter(version, b[Len(evs)], evs, Len(b[0].extrinsics), Len(evs))
<1> DEFINE last == Len(evs)
           n == Len(b[0].extrinsics)
           Good == {m \in Nat : m <= last => StraysAfter(version, b[m], evs, n, m)}
<1>1. /\ last \in Nat /\ b \in [0..last -> BlocksOf(E) \cup {Error}] /\ b[0] # Error
      /\ \A m \in 1..last : StepOf(version, b[m], b[m - 1], evs[m], E)
  BY DEF InSteps
<1> HIDE DEF last, n
<1>2. 0 \in Good
  <2>1. \A k \in 1..0 : FALSE
    OBVIOUS
  <2> QED BY <1>1, <2>1 DEF StraysAfter, n
<1>3. ASSUME NEW m \in Nat, m \in Good PROVE m + 1 \in Good
  <2> SUFFICES ASSUME m + 1 <= last PROVE StraysAfter(version, b[m + 1], evs, n, m + 1)
    OBVIOUS
  <2> DEFINE e == evs[m + 1]
  <2>1. m + 1 \in 1..last /\ (m + 1) - 1 = m /\ m <= last /\ m + 1 \in 0..last
    BY <1>1
  <2>2. StepOf(version, b[m + 1], b[m], e, E)
    BY <1>1, <2>1
  <2>3. StraysAfter(version, b[m], evs, n, m)
    BY <1>3, <2>1
  <2>4. \A k \in 1..(m + 1) : k \in 1..m \/ k = m + 1
    OBVIOUS
  <2>5. \A k \in 1..m : k \in 1..(m + 1)
    OBVIOUS
  <2>6. CASE b[m + 1] = Error
    <3>1. CASE b[m] = Error
      <4>1. \E k \in 1..m : IsStray(evs[k], n)
        BY <2>3, <3>1 DEF StraysAfter
      <4> QED BY <2>5, <2>6, <4>1 DEF StraysAfter
    <3>2. CASE b[m] # Error
      <4>1. IsStray(e, n)
        BY <2>2, <2>3, <2>6, <3>2 DEF StraysAfter, StepOf
      <4>2. m + 1 \in 1..(m + 1)
        OBVIOUS
      <4> QED BY <2>6, <4>1, <4>2 DEF StraysAfter
    <3> QED BY <3>1, <3>2
  <2>7. CASE b[m + 1] # Error
    <3>1. b[m] # Error /\ Tells(b[m + 1], b[m], e)
      BY <2>2, <2>7 DEF StepOf
    <3>2. Len(b[m].extrinsics) = n
          /\ \A k \in 1..m : IsStray(evs[k], n) => ~MissingIsError(version, evs[k])
      BY <2>3, <3>1 DEF StraysAfter
    <3>3. IsStray(e, n) => ~MissingIsError(version, e)
      BY <2>2, <2>7, <3>1, <3>2 DEF StepOf
    <3>4. Len(b[m + 1].extrinsics) = Len(b[m].extrinsics)
      <4>1. b[m + 1] \in BlocksOf(E) /\ b[m] \in BlocksOf(E)
        BY <1>1, <2>1, <2>7, <3>1
      <4> DEFINE s == b[m + 1].extrinsics
                 t == b[m].extrinsics
      <4>2. s \in Seq(AnsweredWith(E)) /\ t \in Seq(AnsweredWith(E))
        BY <4>1 DEF BlocksOf
      <4>3. DOMAIN s = DOMAIN t
        BY <3>1 DEF Tells
      <4> HIDE DEF s, t
      <4>4. Len(s) = Len(t)
        BY <4>2, <4>3
      <4> QED BY <4>4 DEF s, t
    <3> HIDE DEF e
    <3>5. \A k \in 1..(m + 1) : IsStray(evs[k], n) => ~MissingIsError(version, evs[k])
      BY <2>4, <3>2, <3>3 DEF e
    <3> QED BY <2>7, <3>2, <3>4, <3>5 DEF StraysAfter
  <2> QED BY <2>6, <2>7
<1>4. Nat \subseteq Good
  <2> HIDE DEF Good
  <2> QED BY <1>2, <1>3, SetInduction
<1>5. StraysAfter(version, b[last], evs, n, last)
  BY <1>1, <1>4
<1> QED BY <1>5 DEF last, n

LEMMA EveryEventKept ==
  ASSUME NEW pallets, NEW methods, NEW says, NEW version \in Nat, NEW extrinsics \in Seq(Fetched),
         NEW events \in Seq(EventsAmong(pallets, methods, says)) \cup {Null}
  PROVE  EventsKept(version, extrinsics, events)
<1> DEFINE E == EventsAmong(pallets, methods, says)
           evs == Handed(events)
           n == Len(extrinsics)
           last == Len(evs)
           block == SanitizeEvents(version, extrinsics, events)
           stray == {e \in ToSet(evs) : e.phase = "ApplyExtrinsic" /\ e.index >= n}
           empty == EmptyBlock(extrinsics, events)
           strict == StrictVersion(version)
<1> HIDE DEF strict
<1>1. evs \in Seq(E)
  <2>1. <<>> \in Seq(E)
    OBVIOUS
  <2> HIDE DEF E
  <2>2. events \in Seq(E) \cup {Null}
    BY DEF E
  <2> QED BY <2>1, <2>2 DEF Handed
<1>2. PICK b : InSteps(b, version, evs, E) /\ b[0] = empty /\ block = b[last]
  <2>0. block = SanitizeEvents(version, extrinsics, events)
    OBVIOUS
  <2> HIDE DEF block, E
  <2>1. E = EventsAmong(pallets, methods, says)
    BY DEF E
  <2>3. IsInSteps(block, version, extrinsics, events, E)
    BY <1>1, <2>0, <2>1, SanitizedInSteps
  <2> QED BY <1>1, <2>3 DEF IsInSteps, StepsTo
<1>3. Len(empty.extrinsics) = n
  <2> DEFINE x == empty.extrinsics
  <2>1. x \in Seq(AnsweredWith(E))
    BY EmptyBlockIs DEF BlocksOf
  <2>2. DOMAIN x = DOMAIN extrinsics
    BY DEF EmptyBlock, Extracted
  <2> HIDE DEF x
  <2>3. Len(x) = Len(extrinsics)
    BY <2>1, <2>2
  <2> QED BY <2>3 DEF x
<1>4. /\ block = Error => stray # {}
      /\ block # Error /\ strict =>
           \A e \in stray : e.pallet = "multiBlockMigrations"
      /\ events = Null => \A i \in DOMAIN extrinsics : block.extrinsics[i].success # "true"
  <2> HIDE DEF block, E, evs, empty, n
  <2>1. StraysAfter(version, block, evs, n, last)
    <3>1. StraysAfter(version, b[last], evs, Len(b[0].extrinsics), last)
      BY <1>2, StraysRefused
    <3> QED BY <1>2, <1>3, <3>1
  <2>2. DOMAIN evs = 1..last /\ last \in Nat
    BY <1>1
  <2>3. ToSet(evs) = {evs[k] : k \in 1..last}
    BY <2>2 DEF ToSet
  <2>4. block = Error => stray # {}
    <3> SUFFICES ASSUME block = Error PROVE stray # {}
      OBVIOUS
    <3>1. PICK k \in 1..last : IsStray(evs[k], n)
      BY <2>1 DEF StraysAfter
    <3>2. evs[k] \in stray
      BY <2>3, <3>1 DEF IsStray
    <3> QED BY <3>2
  <2>5. block # Error /\ strict =>
          \A e \in stray : e.pallet = "multiBlockMigrations"
    <3> DEFINE before == ComesBefore(version)
    <3>1. strict => before
      BY StrictVersions DEF strict
    <3>2. \A e : ~MissingIsError(version, e) /\ before => e.pallet = "multiBlockMigrations"
      <4> HIDE DEF stray
      <4> TAKE e
      <4>1. MissingIsError(version, e) <=> before /\ e.pallet # "multiBlockMigrations"
        BY SMT DEF MissingIsError, ComesBefore
      <4> HIDE DEF before
      <4> QED BY <4>1
    <3> HIDE DEF before
    <3>3. block # Error => \A e \in stray : ~MissingIsError(version, e)
      <4> SUFFICES ASSUME block # Error, NEW e \in stray PROVE ~MissingIsError(version, e)
        OBVIOUS
      <4>1. IsStray(e, n) /\ e \in ToSet(evs)
        BY DEF IsStray
      <4>2. PICK k \in 1..last : e = evs[k]
        BY <2>3, <4>1
      <4> QED BY <2>1, <4>1, <4>2 DEF StraysAfter
    <3> HIDE DEF stray
    <3> QED BY <3>1, <3>2, <3>3
  <2>6. events = Null => \A i \in DOMAIN extrinsics : block.extrinsics[i].success # "true"
    <3> SUFFICES ASSUME events = Null, NEW i \in DOMAIN extrinsics
                 PROVE  block.extrinsics[i].success # "true"
      OBVIOUS
    <3>1. evs = <<>> /\ last = 0
      BY DEF evs, Handed
    <3>2. block = empty
      BY <1>2, <3>1
    <3>3. empty.extrinsics = Extracted(extrinsics, events)
      BY DEF empty, EmptyBlock
    <3>4. Extracted(extrinsics, events)[i].success = "unable to fetch events"
      BY DEF Extracted
    <3> QED BY <3>2, <3>3, <3>4
  <2> QED BY <2>4, <2>5, <2>6
<1> QED BY <1>4, SMTT(30) DEF EventsKept, Handed, strict, StrictVersion

\* All or none of the places.
LEMMA KeptAll ==
  ASSUME NEW T, NEW s \in Seq(T), NEW places, \A k \in 1..Len(s) : k \in places
  PROVE  Kept(s, places) = s
<1> DEFINE n == Len(s)
           at == [k \in 1..n |-> k]
<1>1. n \in Nat /\ (1..n) \cap places = 1..n
  OBVIOUS
<1>2. Lists(at, n, places, n)
  <2>1. at \in [1..n -> (1..n) \cap places]
    BY <1>1
  <2>2. \A k \in 1..n : at[k] = k
    OBVIOUS
  <2> HIDE DEF at, n
  <2> QED BY <1>1, <2>1, <2>2 DEF Lists
<1>3. \A i \in 1..n : s[i] = s[at[i]]
  OBVIOUS
<1> HIDE DEF at
<1> QED BY <1>2, <1>3, KeptDetermined

LEMMA KeptNone ==
  ASSUME NEW T, NEW s \in Seq(T), NEW places, \A k \in 1..Len(s) : k \notin places
  PROVE  Kept(s, places) = <<>>
<1> DEFINE r == Kept(s, places)
<1>1. r \in Seq(T) /\ IsListed(r, s, places)
  BY KeptHasList
<1> HIDE DEF r
<1>2. PICK at : Lists(at, Len(r), places, Len(s))
  BY <1>1 DEF IsListed
<1>3. ~(1 \in 1..Len(r))
  BY <1>2 DEF Lists
<1>4. Len(r) = 0
  BY <1>1, <1>3
<1>5. r = <<>>
  BY <1>1, <1>4
<1> QED BY <1>5 DEF r

-----------------------------------------------------------------------------

IsKept(s, places, T) ==
  \E p \in [0..Len(s) -> Seq(T)] : KeepsStepwise(p, s, places) /\ Kept(s, places) = p[Len(s)]

LEMMA KeptIs ==
  ASSUME NEW T, NEW s \in Seq(T), NEW places
  PROVE  IsKept(s, places, T)
BY KeptStepwise DEF IsKept

\* What each of s tells, one after the other.
Joined(told, s) == FlattenSeq([i \in DOMAIN s |-> told[s[i]]])

JoinsStepwise(p, told, s) ==
  p[0] = <<>> /\ \A m \in 1..Len(s) : p[m] = p[m - 1] \o told[s[m]]

IsJoined(told, s, M) ==
  \E p \in [0..Len(s) -> Seq(M)] : JoinsStepwise(p, told, s) /\ Joined(told, s) = p[Len(s)]

LEMMA JoinedStepwise ==
  ASSUME NEW C, NEW M, NEW told \in [C -> Seq(M)], NEW s \in Seq(C)
  PROVE  IsJoined(told, s, M)
<1> DEFINE n == Len(s)
           ss == [i \in 1..n |-> told[s[i]]]
<1>1. n \in Nat /\ DOMAIN s = 1..n /\ \A i \in 1..n : s[i] \in C
  OBVIOUS
<1> HIDE DEF n
<1>2. ss \in [1..n -> Seq(M)] /\ \A i \in 1..n : ss[i] = told[s[i]]
  BY <1>1
<1>3. Joined(told, s) = FlattenSeq(ss)
  BY <1>1 DEF Joined
<1> HIDE DEF ss
<1>4. CASE n = 0
  <2>1. Len(ss) = 0 /\ ss = <<>>
    BY <1>2, <1>4
  <2>2. FlattenSeq(ss) = ss
    BY <2>1 DEF FlattenSeq
  <2> DEFINE p == [m \in 0..0 |-> <<>>]
  <2>3. p \in [0..0 -> Seq(M)] /\ p[0] = <<>>
    OBVIOUS
  <2>4. \A m \in 1..0 : FALSE
    OBVIOUS
  <2> HIDE DEF p
  <2>5. JoinsStepwise(p, told, s) /\ Joined(told, s) = p[0]
    BY <1>3, <1>4, <2>1, <2>2, <2>3, <2>4 DEF JoinsStepwise, n
  <2> QED BY <1>4, <2>3, <2>5 DEF n, IsJoined
<1>5. CASE n # 0
  <2>1. n \in Nat \ {0}
    BY <1>1, <1>5
  <2>2. PICK p \in [0..n -> Seq(M)] : AppendsAll(p, ss, n) /\ FlattenSeq(ss) = p[n]
    <3>1. IsFlattened(ss, n, M)
      BY <1>2, <2>1, FlattenStepwise
    <3> QED BY <3>1 DEF IsFlattened, FlattenedBy
  <2>3. JoinsStepwise(p, told, s)
    BY <1>2, <2>2 DEF AppendsAll, JoinsStepwise, n
  <2> QED BY <1>3, <2>2, <2>3 DEF n, IsJoined
<1> QED BY <1>4, <1>5

LEMMA JoinedIsMade ==
  ASSUME NEW C, NEW M, NEW told \in [C -> Seq(M)], NEW s \in Seq(C)
  PROVE  Joined(told, s) \in Seq(M)
<1> DEFINE n == Len(s)
<1>1. IsJoined(told, s, M)
  BY JoinedStepwise
<1>2. PICK p \in [0..n -> Seq(M)] : Joined(told, s) = p[n]
  BY <1>1 DEF IsJoined
<1>3. n \in 0..n
  OBVIOUS
<1> HIDE DEF n
<1> QED BY <1>2, <1>3

LEMMA JoinedAppend ==
  ASSUME NEW C, NEW M, NEW told \in [C -> Seq(M)], NEW s \in Seq(C), NEW c \in C
  PROVE  Joined(told, Append(s, c)) = Joined(told, s) \o told[c]
<1> DEFINE n == Len(s)
           t == Append(s, c)
<1>1. PICK p \in [0..n -> Seq(M)] : JoinsStepwise(p, told, s) /\ Joined(told, s) = p[n]
  BY JoinedStepwise DEF IsJoined
<1>2. /\ n \in Nat /\ t \in Seq(C) /\ Len(t) = n + 1 /\ t[n + 1] = c
      /\ \A k \in 1..n : t[k] = s[k]
  OBVIOUS
<1> HIDE DEF t
<1>3. PICK q \in [0..Len(t) -> Seq(M)] : JoinsStepwise(q, told, t) /\ Joined(told, t) = q[Len(t)]
  <2>1. IsJoined(told, t, M)
    BY <1>2, JoinedStepwise
  <2> QED BY <2>1 DEF IsJoined
<1>4. /\ p[0] = <<>> /\ q[0] = <<>>
      /\ \A m \in 1..n : p[m] = p[m - 1] \o told[s[m]]
      /\ \A m \in 1..(n + 1) : q[m] = q[m - 1] \o told[t[m]]
  BY <1>1, <1>2, <1>3 DEF JoinsStepwise
<1> HIDE DEF n
<1> DEFINE Same == {m \in Nat : m <= n => q[m] = p[m]}
<1>5. 0 \in Same
  BY <1>4
<1>6. ASSUME NEW m \in Nat, m \in Same PROVE m + 1 \in Same
  <2> SUFFICES ASSUME m + 1 <= n PROVE q[m + 1] = p[m + 1]
    OBVIOUS
  <2>1. m + 1 \in 1..n /\ m + 1 \in 1..(n + 1) /\ (m + 1) - 1 = m
    <3>1. n \in Nat
      BY <1>2
    <3> QED BY <3>1
  <2>2. q[m] = p[m]
    <3>1. m <= n
      BY <1>2
    <3> QED BY <1>6, <3>1
  <2> QED BY <1>2, <1>4, <2>1, <2>2
<1>7. Nat \subseteq Same
  <2> HIDE DEF Same
  <2> QED BY <1>5, <1>6, SetInduction
<1>8. q[n] = p[n]
  BY <1>2, <1>7
<1>9. q[n + 1] = q[n] \o told[c]
  <2>1. n + 1 \in 1..(n + 1) /\ (n + 1) - 1 = n
    BY <1>2
  <2> QED BY <1>2, <1>4, <2>1
<1>10. Joined(told, t) = Joined(told, s) \o told[c]
  BY <1>1, <1>2, <1>3, <1>8, <1>9
<1> QED BY <1>10 DEF t

LEMMA JoinedNone ==
  ASSUME NEW told
  PROVE  Joined(told, <<>>) = <<>>
<1> DEFINE ss == [i \in DOMAIN <<>> |-> told[<<>>[i]]]
<1>1. Len(ss) = 0 /\ ss = <<>>
  OBVIOUS
<1> HIDE DEF ss
<1>2. FlattenSeq(ss) = ss
  BY <1>1 DEF FlattenSeq
<1> QED BY <1>1, <1>2 DEF Joined, ss

-----------------------------------------------------------------------------

\* The messages of one origin.
OfOrigin(messages, id) == Kept(messages, {k \in DOMAIN messages : messages[k].origin = id})

AllFrom(messages, para) == \A k \in 1..Len(messages) : messages[k].origin = para

LEMMA OfOriginOfBoth ==
  ASSUME NEW M, NEW x \in Seq(M), NEW y \in Seq(M), NEW id, NEW para,
         AllFrom(y, para)
  PROVE  OfOrigin(x \o y, id) = IF para = id THEN OfOrigin(x, id) \o y ELSE OfOrigin(x, id)
<1> DEFINE z == x \o y
           first == {k \in DOMAIN x : x[k].origin = id}
           second == {k \in 1..Len(y) : para = id}
           places == {k \in DOMAIN z : z[k].origin = id}
<1>1. /\ z \in Seq(M) /\ Len(z) = Len(x) + Len(y) /\ Len(x) \in Nat /\ Len(y) \in Nat
      /\ \A k \in 1..Len(x) : z[k] = x[k]
      /\ \A k \in 1..Len(y) : z[Len(x) + k] = y[k]
  OBVIOUS
<1>2. OfOrigin(z, id) = Kept(z, places) /\ OfOrigin(x, id) = Kept(x, first)
  BY DEF OfOrigin
<1>3. Kept(z, places) = Kept(x, first) \o Kept(y, second)
  <2> HIDE DEF z
  <2>1. DOMAIN z = 1..(Len(x) + Len(y)) /\ DOMAIN x = 1..Len(x)
    BY <1>1
  <2>2. \A k \in 1..Len(x) : k \in places <=> k \in first
    BY <1>1, <2>1
  <2>3. ASSUME NEW k \in 1..Len(y) PROVE Len(x) + k \in places <=> k \in second
    <3>1. Len(x) + k \in DOMAIN z /\ z[Len(x) + k] = y[k]
      BY <1>1, <2>1
    <3>2. y[k].origin = para
      BY DEF AllFrom
    <3> QED BY <3>1, <3>2
  <2> HIDE DEF places, first, second
  <2>4. SplitsIn(places, x, first, y, second)
    BY <2>2, <2>3 DEF SplitsIn
  <2> QED BY <2>4, KeptOfBoth DEF z
<1>4. CASE para = id
  <2>1. \A k \in 1..Len(y) : k \in second
    BY <1>4
  <2> HIDE DEF second
  <2>2. Kept(y, second) = y
    BY <2>1, KeptAll
  <2> QED BY <1>2, <1>3, <1>4, <2>2
<1>5. CASE para # id
  <2>1. \A k \in 1..Len(y) : k \notin second
    BY <1>5
  <2> HIDE DEF second, places, z, first
  <2>2. Kept(y, second) = <<>>
    BY <2>1, KeptNone
  <2>3. Kept(x, first) \in Seq(M)
    BY KeptHasList
  <2>4. Kept(x, first) \o <<>> = Kept(x, first)
    BY <2>3
  <2> QED BY <1>2, <1>3, <1>5, <2>2, <2>4 DEF z
<1> QED BY <1>4, <1>5

\* Of all that is told, that of one origin is what those of the origin tell.
\* The candidates of one para.
OfOne(candidates, id) == Kept(candidates, {k \in DOMAIN candidates : candidates[k].para = id})

TellOnlyTheirOwn(told, C) ==
  \A c \in C : \A k \in 1..Len(told[c]) : told[c][k].origin = c.para

LEMMA JoinedOfOne ==
  ASSUME NEW C, NEW M, NEW told \in [C -> Seq(M)], NEW id,
         TellOnlyTheirOwn(told, C),
         NEW s \in Seq(C)
  PROVE  OfOrigin(Joined(told, s), id) = Joined(told, OfOne(s, id))
<1> DEFINE n == Len(s)
           own == {k \in DOMAIN s : s[k].para = id}
<1>1. n \in Nat /\ DOMAIN s = 1..n /\ \A i \in 1..n : s[i] \in C
  OBVIOUS
<1>2. PICK p \in [0..Len(s) -> Seq(C)] : KeepsStepwise(p, s, own) /\ Kept(s, own) = p[Len(s)]
  <2> HIDE DEF own
  <2>1. IsKept(s, own, C)
    BY KeptIs
  <2> QED BY <2>1 DEF IsKept
<1>3. PICK q \in [0..Len(s) -> Seq(M)] : JoinsStepwise(q, told, s) /\ Joined(told, s) = q[Len(s)]
  <2>1. IsJoined(told, s, M)
    BY JoinedStepwise
  <2> QED BY <2>1 DEF IsJoined
<1> DEFINE Good == {m \in Nat : m <= n => OfOrigin(q[m], id) = Joined(told, p[m])}
<1> HIDE DEF own
<1>4. 0 \in Good
  <2>1. p[0] = <<>> /\ q[0] = <<>>
    BY <1>2, <1>3 DEF KeepsStepwise, JoinsStepwise
  <2>2. OfOrigin(<<>>, id) = <<>>
    <3> DEFINE places == {k \in DOMAIN <<>> : <<>>[k].origin = id}
    <3>1. <<>> \in Seq(M) /\ \A k \in 1..Len(<<>>) : k \notin places
      OBVIOUS
    <3> HIDE DEF places
    <3>2. Kept(<<>>, places) = <<>>
      BY <3>1, KeptNone
    <3> QED BY <3>2 DEF OfOrigin, places
  <2> QED BY <2>1, <2>2, JoinedNone
<1>5. ASSUME NEW m \in Nat, m \in Good PROVE m + 1 \in Good
  <2> SUFFICES ASSUME m + 1 <= n PROVE OfOrigin(q[m + 1], id) = Joined(told, p[m + 1])
    OBVIOUS
  <2> DEFINE c == s[m + 1]
             x == q[m]
             y == told[c]
             z == x \o y
  <2>1. m + 1 \in 1..n /\ (m + 1) - 1 = m /\ m \in 0..n /\ c \in C
        /\ OfOrigin(x, id) = Joined(told, p[m])
    BY <1>1, <1>5
  <2>2. q[m + 1] = z
    BY <1>3, <2>1 DEF JoinsStepwise
  <2>3. p[m + 1] = IF m + 1 \in own THEN Append(p[m], c) ELSE p[m]
    BY <1>2, <2>1 DEF KeepsStepwise
  <2>4. x \in Seq(M) /\ y \in Seq(M) /\ p[m] \in Seq(C)
    BY <1>2, <1>3, <2>1
  <2>5. m + 1 \in own <=> c.para = id
    BY <1>1, <2>1 DEF own
  <2>6. \A k \in 1..Len(y) : y[k].origin = c.para
    <3>1. c \in C
      BY <2>1
    <3> HIDE DEF c
    <3> QED BY <3>1 DEF TellOnlyTheirOwn
  <2> HIDE DEF x, y
  <2>7. OfOrigin(z, id) = IF c.para = id THEN OfOrigin(x, id) \o y ELSE OfOrigin(x, id)
    <3> DEFINE para == c.para
    <3>1. x \in Seq(M) /\ y \in Seq(M) /\ AllFrom(y, para)
      BY <2>4, <2>6 DEF AllFrom
    <3> HIDE DEF para, c
    <3>2. OfOrigin(x \o y, id) = IF para = id THEN OfOrigin(x, id) \o y ELSE OfOrigin(x, id)
      BY <3>1, OfOriginOfBoth
    <3> QED BY <3>2 DEF para
  <2>8. Joined(told, Append(p[m], c)) = Joined(told, p[m]) \o y
    <3>1. p[m] \in Seq(C) /\ c \in C
      BY <2>1, <2>4
    <3> HIDE DEF c
    <3> QED BY <3>1, JoinedAppend DEF y
  <2> HIDE DEF z, c
  <2> QED BY <2>1, <2>2, <2>3, <2>5, <2>7, <2>8
<1>6. Nat \subseteq Good
  <2> HIDE DEF Good
  <2> QED BY <1>4, <1>5, SetInduction
<1>7. OfOrigin(q[n], id) = Joined(told, p[n])
  BY <1>1, <1>6
<1> QED BY <1>2, <1>3, <1>7 DEF own, OfOne

\* Messages of one chain, and what the inherents of a relay chain and of a
\* parachain hold of them.
Decodables(instructions) == Seq(instructions) \cup {Null}
Sendings(chains, instructions) == [to : chains, msg : Decodables(instructions)]
Candidates(chains, instructions) ==
  [para : Nat, upward : Seq(Decodables(instructions)),
   horizontal : Seq(Sendings(chains, instructions))]
Receipts(instructions) == [from : Nat, msg : Decodables(instructions)]
Inherents(instructions) ==
  [downward : Seq(Decodables(instructions)), horizontal : Seq(Receipts(instructions))]

LEMMA MessagesAreNoError ==
  ASSUME NEW upward, NEW horizontal, NEW downward
  PROVE  [upward |-> upward, horizontal |-> horizontal, downward |-> downward] # Error
<1> DEFINE r == [upward |-> upward, horizontal |-> horizontal, downward |-> downward]
<1>1. "upward" \in DOMAIN r
  OBVIOUS
<1>2. "upward" \notin DOMAIN Error
  BY DEF Error
<1> HIDE DEF r
<1>3. r # Error
  BY <1>1, <1>2
<1> QED BY <1>3 DEF r

\* The candidates that are wanted, of some.
WantedIs(candidates, paraId) ==
  /\ ToSet(WantedOf(candidates, paraId)) \subseteq ToSet(candidates)
  /\ WantedOf(candidates, Null) = candidates
  /\ paraId \notin {Null, 0} => WantedOf(candidates, paraId) = OfOne(candidates, paraId)

LEMMA WantedAre ==
  ASSUME NEW chains, NEW instructions, NEW candidates \in Seq(Candidates(chains, instructions)),
         NEW paraId
  PROVE  WantedIs(candidates, paraId)
<1> DEFINE C == Candidates(chains, instructions)
           places(id) == {k \in DOMAIN candidates : Wanted(id, candidates[k].para)}
           own == {k \in DOMAIN candidates : candidates[k].para = paraId}
<1>1. \A id : WantedOf(candidates, id) = Kept(candidates, places(id))
  BY DEF WantedOf
<1>2. DOMAIN candidates = 1..Len(candidates)
  OBVIOUS
<1> HIDE DEF C
<1>3. candidates \in Seq(C)
  BY DEF C
<1>4. /\ Kept(candidates, places(paraId)) \in Seq(C)
      /\ ToSet(Kept(candidates, places(paraId))) \subseteq ToSet(candidates)
  <2> DEFINE p == places(paraId)
  <2> HIDE DEF p
  <2>1. /\ Kept(candidates, p) \in Seq(C)
        /\ ToSet(Kept(candidates, p)) = {candidates[k] : k \in (1..Len(candidates)) \cap p}
    BY <1>3, KeptAre
  <2>2. {candidates[k] : k \in (1..Len(candidates)) \cap p} \subseteq ToSet(candidates)
    BY <1>2 DEF ToSet
  <2> QED BY <2>1, <2>2 DEF p
<1>5. Kept(candidates, places(Null)) = candidates
  <2> DEFINE p == places(Null)
  <2>1. \A k \in 1..Len(candidates) : k \in p
    BY <1>2 DEF Wanted
  <2> HIDE DEF p
  <2>2. Kept(candidates, p) = candidates
    BY <1>3, <2>1, KeptAll
  <2> QED BY <2>2 DEF p
<1>6. paraId \notin {Null, 0} => places(paraId) = own
  BY DEF Wanted
<1> HIDE DEF places, own
<1> QED BY <1>1, <1>4, <1>5, <1>6 DEF own, WantedIs, OfOne

\* What a candidate is told to have sent, upward and horizontally.
LEMMA DecodedAre ==
  ASSUME NEW chains, NEW instructions, NEW c \in Candidates(chains, instructions)
  PROVE  /\ Len(DecodedUpward(c)) \in Nat
         /\ DOMAIN DecodedUpward(c) = 1..Len(DecodedUpward(c))
         /\ \A k \in 1..Len(DecodedUpward(c)) : DecodedUpward(c)[k].origin = c.para
         /\ Len(DecodedHorizontal(c)) \in Nat
         /\ DOMAIN DecodedHorizontal(c) = 1..Len(DecodedHorizontal(c))
         /\ \A k \in 1..Len(DecodedHorizontal(c)) : DecodedHorizontal(c)[k].origin = c.para
         /\ DecodedUpward(c) \in Seq({[origin |-> c.para, data |-> FlattenSeq(c.upward)]})
         /\ DecodedHorizontal(c) \in
              Seq([origin : Nat, to : chains, data : Decodables(instructions)])
<1> DEFINE n == Len(c.horizontal)
           told == DecodedHorizontal(c)
           data == FlattenSeq(c.upward)
<1>1. c.para \in Nat /\ c.horizontal \in Seq(Sendings(chains, instructions))
  BY DEF Candidates
<1>2. n \in Nat /\ DOMAIN c.horizontal = 1..n
      /\ \A k \in 1..n : c.horizontal[k] \in Sendings(chains, instructions)
  BY <1>1
<1>3. told = [i \in 1..n |-> [origin |-> c.para, to |-> c.horizontal[i].to,
                              data |-> c.horizontal[i].msg]]
  BY <1>2 DEF DecodedHorizontal
<1>4. \A k \in 1..n : c.horizontal[k].to \in chains
                      /\ c.horizontal[k].msg \in Decodables(instructions)
  <2> TAKE k \in 1..n
  <2>1. c.horizontal[k] \in Sendings(chains, instructions)
    BY <1>2
  <2> QED BY <2>1 DEF Sendings
<1> HIDE DEF told, n
<1>5. /\ told \in [1..n -> [origin : Nat, to : chains, data : Decodables(instructions)]]
      /\ \A k \in 1..n : told[k].origin = c.para
  BY <1>1, <1>3, <1>4
<1>6. /\ told \in Seq([origin : Nat, to : chains, data : Decodables(instructions)])
      /\ Len(told) = n /\ DOMAIN told = 1..n
  <2> DEFINE H == [origin : Nat, to : chains, data : Decodables(instructions)]
  <2>1. n \in Nat /\ told \in [1..n -> H]
    BY <1>2, <1>5
  <2> HIDE DEF H
  <2>2. told \in Seq(H) /\ Len(told) = n /\ DOMAIN told = 1..n
    BY <2>1
  <2> QED BY <2>2 DEF H
<1> DEFINE one == [origin |-> c.para, data |-> data]
           sent == DecodedUpward(c)
<1>7. sent = IF c.upward = <<>> THEN <<>> ELSE <<one>>
  BY DEF DecodedUpward
<1>8. one.origin = c.para
  OBVIOUS
<1> HIDE DEF one, sent
<1>9. /\ sent \in Seq({one}) /\ Len(sent) \in Nat /\ DOMAIN sent = 1..Len(sent)
      /\ \A k \in 1..Len(sent) : sent[k] = one
  <2>1. CASE c.upward = <<>>
    <3>1. sent = <<>>
      BY <1>7, <2>1
    <3>2. \A k \in 1..0 : FALSE
      OBVIOUS
    <3> QED BY <3>1, <3>2
  <2>2. CASE c.upward # <<>>
    <3>1. sent = <<one>>
      BY <1>7, <2>2
    <3>2. <<one>> \in Seq({one}) /\ Len(<<one>>) = 1
      OBVIOUS
    <3>3. \A k \in 1..1 : <<one>>[k] = one
      OBVIOUS
    <3> QED BY <3>1, <3>2, <3>3
  <2> QED BY <2>1, <2>2
<1> QED BY <1>2, <1>5, <1>6, <1>8, <1>9 DEF told, one, sent

\* What is told of the wanted candidates is what one origin told among all.
Upward(candidates) == FlattenSeq([i \in DOMAIN candidates |-> DecodedUpward(candidates[i])])
Across(candidates) == FlattenSeq([i \in DOMAIN candidates |-> DecodedHorizontal(candidates[i])])
ToldOfOne(candidates, id) ==
  /\ Upward(OfOne(candidates, id)) = OfOrigin(Upward(candidates), id)
  /\ Across(OfOne(candidates, id)) = OfOrigin(Across(candidates), id)

LEMMA RelayMessagesAre ==
  ASSUME NEW chains, NEW instructions, NEW candidates \in Seq(Candidates(chains, instructions)),
         NEW id
  PROVE  ToldOfOne(candidates, id)
<1> DEFINE C == Candidates(chains, instructions)
           places == {k \in DOMAIN candidates : candidates[k].para = id}
           own == OfOne(candidates, id)
           U == UNION {{[origin |-> c.para, data |-> FlattenSeq(c.upward)]} : c \in C}
           H == [origin : Nat, to : chains, data : Decodables(instructions)]
           up == [c \in C |-> DecodedUpward(c)]
           across == [c \in C |-> DecodedHorizontal(c)]
<1>1. \A c \in C : DecodedUpward(c) \in Seq(U)
  <2> TAKE c \in C
  <2> DEFINE one == {[origin |-> c.para, data |-> FlattenSeq(c.upward)]}
  <2>1. DecodedUpward(c) \in Seq(one)
    BY DecodedAre
  <2>2. one \subseteq U
    <3> HIDE DEF C
    <3> QED OBVIOUS
  <2> HIDE DEF U, one
  <2>3. \A s \in Seq(one) : s \in Seq(U)
    BY <2>2
  <2> QED BY <2>1, <2>3
<1>2. \A c \in C : DecodedHorizontal(c) \in Seq(H)
  <2> TAKE c \in C
  <2> QED BY DecodedAre
<1>3. \A c \in C : /\ \A k \in 1..Len(DecodedUpward(c)) : DecodedUpward(c)[k].origin = c.para
                   /\ \A k \in 1..Len(DecodedHorizontal(c)) : DecodedHorizontal(c)[k].origin = c.para
  <2> TAKE c \in C
  <2> QED BY DecodedAre
<1>0. candidates \in Seq(C) /\ DOMAIN candidates = 1..Len(candidates)
  OBVIOUS
<1> HIDE DEF C, U, H
<1>4. up \in [C -> Seq(U)] /\ across \in [C -> Seq(H)]
  BY <1>1, <1>2
<1>5. /\ \A c \in C : up[c] = DecodedUpward(c) /\ across[c] = DecodedHorizontal(c)
  OBVIOUS
<1> HIDE DEF up, across
<1>6. /\ \A c \in C : \A k \in 1..Len(up[c]) : up[c][k].origin = c.para
      /\ \A c \in C : \A k \in 1..Len(across[c]) : across[c][k].origin = c.para
  BY <1>3, <1>5
<1>12. TellOnlyTheirOwn(up, C) /\ TellOnlyTheirOwn(across, C)
  BY <1>6 DEF TellOnlyTheirOwn
<1>7. \A s \in Seq(C) : Upward(s) = Joined(up, s) /\ Across(s) = Joined(across, s)
  <2> TAKE s \in Seq(C)
  <2>1. \A i \in DOMAIN s : s[i] \in C
    OBVIOUS
  <2>2. [i \in DOMAIN s |-> DecodedUpward(s[i])] = [i \in DOMAIN s |-> up[s[i]]]
    BY <1>5, <2>1
  <2>3. [i \in DOMAIN s |-> DecodedHorizontal(s[i])] = [i \in DOMAIN s |-> across[s[i]]]
    BY <1>5, <2>1
  <2> QED BY <2>2, <2>3 DEF Joined, Upward, Across
<1>8. own \in Seq(C)
  <2> HIDE DEF places
  <2>1. Kept(candidates, places) \in Seq(C)
    BY <1>0, KeptHasList
  <2> QED BY <2>1 DEF OfOne, places
<1> HIDE DEF places
<1>9. OfOrigin(Joined(up, candidates), id) = Joined(up, own)
  BY <1>0, <1>4, <1>12, JoinedOfOne
<1>10. OfOrigin(Joined(across, candidates), id) = Joined(across, own)
  BY <1>0, <1>4, <1>12, JoinedOfOne
<1> HIDE DEF own
<1> QED BY <1>0, <1>7, <1>8, <1>9, <1>10 DEF ToldOfOne, own

LEMMA RelayMessagesOfPara ==
  ASSUME NEW chains, NEW instructions, NEW candidates \in Seq(Candidates(chains, instructions)),
         NEW paraId
  PROVE  MessagesOfPara(TRUE, candidates, paraId)
<1> DEFINE bad(s) == \E c \in ToSet(s) : \/ Null \in ToSet(c.upward)
                                         \/ \E m \in ToSet(c.horizontal) : m.msg = Null
           answer(s) == IF bad(s) THEN Error
                        ELSE [upward |-> Upward(s), horizontal |-> Across(s), downward |-> <<>>]
           wanted == WantedOf(candidates, paraId)
           own == OfOne(candidates, paraId)
<1>1. /\ ToSet(wanted) \subseteq ToSet(candidates) /\ WantedOf(candidates, Null) = candidates
      /\ paraId \notin {Null, 0} => wanted = own
  BY WantedAre DEF WantedIs
<1>2. Messages(TRUE, candidates, paraId) = answer(wanted)
  BY DEF Messages, RelayMessages, Upward, Across
<1>3. Messages(TRUE, candidates, Null) = answer(candidates)
  BY <1>1 DEF Messages, RelayMessages, Upward, Across
<1>4. bad(wanted) => bad(candidates)
  <2> HIDE DEF wanted
  <2> QED BY <1>1
<1>5. /\ Upward(own) = OfOrigin(Upward(candidates), paraId)
      /\ Across(own) = OfOrigin(Across(candidates), paraId)
  BY RelayMessagesAre DEF ToldOfOne
<1> HIDE DEF bad, wanted, own
<1>6. \A s : answer(s) = Error <=> bad(s)
  <2> TAKE s
  <2>1. [upward |-> Upward(s), horizontal |-> Across(s), downward |-> <<>>] # Error
    BY MessagesAreNoError
  <2> QED BY <2>1
<1>7. \A s : ~bad(s) => /\ answer(s).upward = Upward(s) /\ answer(s).horizontal = Across(s)
                        /\ answer(s).downward = <<>>
  OBVIOUS
<1> DEFINE all == answer(candidates)
           some == answer(wanted)
<1> HIDE DEF answer
<1>8. some = Error => all = Error
  BY <1>4, <1>6
<1>9. all # Error /\ paraId \notin {Null, 0} =>
        /\ some.horizontal = OfOrigin(all.horizontal, paraId)
        /\ some.upward = OfOrigin(all.upward, paraId)
        /\ some.downward = all.downward
  <2> SUFFICES ASSUME all # Error, paraId \notin {Null, 0}
               PROVE  /\ some.horizontal = OfOrigin(all.horizontal, paraId)
                      /\ some.upward = OfOrigin(all.upward, paraId)
                      /\ some.downward = all.downward
    OBVIOUS
  <2>1. ~bad(candidates) /\ ~bad(wanted) /\ wanted = own
    BY <1>1, <1>4, <1>6
  <2> QED BY <1>5, <1>7, <2>1
<1> HIDE DEF all, some
<1>10. Messages(TRUE, candidates, Null) = all /\ Messages(TRUE, candidates, paraId) = some
  BY <1>2, <1>3 DEF all, some
<1> QED BY <1>8, <1>9, <1>10 DEF MessagesOfPara, OfOrigin

\* The messages received, as they are told.
Told(received) ==
  [i \in DOMAIN received |-> [origin |-> received[i].from, data |-> received[i].msg]]
ReceivedFrom(received, id) == Kept(received, {k \in DOMAIN received : received[k].from = id})

LEMMA ToldOf ==
  ASSUME NEW instructions, NEW received \in Seq(Receipts(instructions))
  PROVE  /\ Told(received) \in Seq([origin : Nat, data : Decodables(instructions)])
         /\ Len(Told(received)) = Len(received)
         /\ \A k \in 1..Len(received) :
              Told(received)[k] = [origin |-> received[k].from, data |-> received[k].msg]
<1> DEFINE n == Len(received)
           r == Told(received)
           H == [origin : Nat, data : Decodables(instructions)]
           one(k) == [origin |-> received[k].from, data |-> received[k].msg]
<1>1. n \in Nat /\ DOMAIN received = 1..n
      /\ \A k \in 1..n : received[k] \in Receipts(instructions)
  OBVIOUS
<1>2. r = [k \in 1..n |-> one(k)]
  BY <1>1 DEF Told
<1>3. \A k \in 1..n : one(k) \in H
  <2> TAKE k \in 1..n
  <2>1. received[k].from \in Nat /\ received[k].msg \in Decodables(instructions)
    <3>1. received[k] \in Receipts(instructions)
      BY <1>1
    <3> QED BY <3>1 DEF Receipts
  <2> QED BY <2>1
<1> HIDE DEF r, n, one, H
<1>4. r \in [1..n -> H] /\ \A k \in 1..n : r[k] = one(k)
  BY <1>2, <1>3
<1>5. r \in Seq(H) /\ Len(r) = n
  BY <1>1, <1>4
<1> QED BY <1>4, <1>5 DEF r, n, one, H

LEMMA ToldFromOne ==
  ASSUME NEW instructions, NEW received \in Seq(Receipts(instructions)), NEW id
  PROVE  OfOrigin(Told(received), id) = Told(ReceivedFrom(received, id))
<1> DEFINE R == Receipts(instructions)
           H == [origin : Nat, data : Decodables(instructions)]
           n == Len(received)
           places == {k \in DOMAIN received : received[k].from = id}
           r == Told(received)
           kept == Kept(received, places)
           t == Told(kept)
           those == {k \in DOMAIN r : r[k].origin = id}
<1>1. /\ r \in Seq(H) /\ Len(r) = n
      /\ \A k \in 1..n : r[k] = [origin |-> received[k].from, data |-> received[k].msg]
  BY ToldOf
<1>2. kept \in Seq(R) /\ IsListed(kept, received, places)
  <2> HIDE DEF places, R
  <2>1. received \in Seq(R)
    BY DEF R
  <2> QED BY <2>1, KeptHasList
<1>3. n \in Nat /\ DOMAIN received = 1..n /\ DOMAIN r = 1..n
  BY <1>1
<1> HIDE DEF r
<1>4. those = places
  BY <1>1, <1>3
<1> HIDE DEF kept
<1>5. /\ t \in Seq(H) /\ Len(t) = Len(kept)
      /\ \A k \in 1..Len(kept) : t[k] = [origin |-> kept[k].from, data |-> kept[k].msg]
  BY <1>2, ToldOf
<1> HIDE DEF t, places, H, those
<1>6. PICK at : /\ Lists(at, Len(kept), places, n)
                /\ \A i \in 1..Len(kept) : kept[i] = received[at[i]]
  BY <1>2 DEF IsListed
<1>7. \A i \in 1..Len(t) : t[i] = r[at[i]]
  <2> TAKE i \in 1..Len(t)
  <2>1. i \in 1..Len(kept) /\ at[i] \in 1..n
    BY <1>5, <1>6 DEF Lists
  <2>2. kept[i] = received[at[i]]
    BY <1>6, <2>1
  <2>3. r[at[i]] = [origin |-> received[at[i]].from, data |-> received[at[i]].msg]
    BY <1>1, <2>1
  <2>4. t[i] = [origin |-> kept[i].from, data |-> kept[i].msg]
    BY <1>5, <2>1
  <2> QED BY <2>2, <2>3, <2>4
<1>8. Lists(at, Len(t), places, Len(r))
  BY <1>1, <1>5, <1>6
<1>9. Kept(r, places) = t
  BY <1>1, <1>5, <1>7, <1>8, KeptDetermined
<1> QED BY <1>4, <1>9 DEF OfOrigin, ReceivedFrom, r, t, kept, places, those

\* The receipts that are wanted, of some.
Receiving(received, id) == Kept(received, {k \in DOMAIN received : Wanted(id, received[k].from)})

ReceivingIs(received, id) ==
  /\ ToSet(Receiving(received, id)) \subseteq ToSet(received)
  /\ Receiving(received, Null) = received
  /\ id \notin {Null, 0} => Receiving(received, id) = ReceivedFrom(received, id)

LEMMA ReceivingAre ==
  ASSUME NEW R, NEW received \in Seq(R), NEW id
  PROVE  ReceivingIs(received, id)
<1> DEFINE places(x) == {k \in DOMAIN received : Wanted(x, received[k].from)}
           own == {k \in DOMAIN received : received[k].from = id}
<1>2. DOMAIN received = 1..Len(received)
  OBVIOUS
<1>4. ToSet(Kept(received, places(id))) \subseteq ToSet(received)
  <2> DEFINE p == places(id)
  <2> HIDE DEF p
  <2>1. ToSet(Kept(received, p)) = {received[k] : k \in (1..Len(received)) \cap p}
    BY KeptAre
  <2>2. {received[k] : k \in (1..Len(received)) \cap p} \subseteq ToSet(received)
    BY <1>2 DEF ToSet
  <2> QED BY <2>1, <2>2 DEF p
<1>5. Kept(received, places(Null)) = received
  <2> DEFINE p == places(Null)
  <2>1. \A k \in 1..Len(received) : k \in p
    BY <1>2 DEF Wanted
  <2> HIDE DEF p
  <2>2. Kept(received, p) = received
    BY <2>1, KeptAll
  <2> QED BY <2>2 DEF p
<1>6. id \notin {Null, 0} => places(id) = own
  BY DEF Wanted
<1> HIDE DEF places, own
<1> QED BY <1>4, <1>5, <1>6 DEF places, own, ReceivingIs, Receiving, ReceivedFrom

LEMMA ParachainMessagesOfPara ==
  ASSUME NEW instructions, NEW inherent \in Inherents(instructions), NEW paraId
  PROVE  MessagesOfPara(FALSE, inherent, paraId)
<1> DEFINE received == inherent.horizontal
           bad(s) == Null \in ToSet(inherent.downward) \/ \E m \in ToSet(s) : m.msg = Null
           answer(s) == IF bad(s) THEN Error
                        ELSE [upward |-> <<>>, downward |-> inherent.downward,
                              horizontal |-> Told(s)]
           wanted == Receiving(received, paraId)
           own == ReceivedFrom(received, paraId)
<1>0. received \in Seq(Receipts(instructions))
  BY DEF Inherents
<1>1. /\ ToSet(wanted) \subseteq ToSet(received) /\ Receiving(received, Null) = received
      /\ paraId \notin {Null, 0} => wanted = own
  <2> HIDE DEF received
  <2> QED BY <1>0, ReceivingAre DEF ReceivingIs
<1>2. Messages(FALSE, inherent, paraId) = answer(wanted)
  BY DEF Messages, ParachainMessages, Receiving, Told
<1>3. Messages(FALSE, inherent, Null) = answer(received)
  <2>1. Messages(FALSE, inherent, Null) = answer(Receiving(received, Null))
    BY DEF Messages, ParachainMessages, Receiving, Told
  <2> QED BY <1>1, <2>1
<1>4. bad(wanted) => bad(received)
  <2> HIDE DEF wanted, received
  <2> QED BY <1>1
<1>5. Told(own) = OfOrigin(Told(received), paraId)
  <2> HIDE DEF received
  <2> QED BY <1>0, ToldFromOne
<1>6. OfOrigin(<<>>, paraId) = <<>>
  <2> DEFINE places == {k \in DOMAIN <<>> : <<>>[k].origin = paraId}
  <2>1. <<>> \in Seq({}) /\ \A k \in 1..Len(<<>>) : k \notin places
    OBVIOUS
  <2> HIDE DEF places
  <2>2. Kept(<<>>, places) = <<>>
    BY <2>1, KeptNone
  <2> QED BY <2>2 DEF OfOrigin, places
<1> HIDE DEF bad, wanted, own, received
<1>7. \A s : answer(s) = Error <=> bad(s)
  <2> TAKE s
  <2>1. [upward |-> <<>>, horizontal |-> Told(s), downward |-> inherent.downward] # Error
    BY MessagesAreNoError
  <2>2. [upward |-> <<>>, horizontal |-> Told(s), downward |-> inherent.downward]
        = [upward |-> <<>>, downward |-> inherent.downward, horizontal |-> Told(s)]
    OBVIOUS
  <2> QED BY <2>1, <2>2
<1>8. \A s : ~bad(s) => /\ answer(s).upward = <<>> /\ answer(s).horizontal = Told(s)
                        /\ answer(s).downward = inherent.downward
  OBVIOUS
<1> DEFINE all == answer(received)
           some == answer(wanted)
<1> HIDE DEF answer
<1>9. some = Error => all = Error
  BY <1>4, <1>7
<1>10. all # Error /\ paraId \notin {Null, 0} =>
         /\ some.horizontal = OfOrigin(all.horizontal, paraId)
         /\ some.upward = OfOrigin(all.upward, paraId)
         /\ some.downward = all.downward
  <2> SUFFICES ASSUME all # Error, paraId \notin {Null, 0}
               PROVE  /\ some.horizontal = OfOrigin(all.horizontal, paraId)
                      /\ some.upward = OfOrigin(all.upward, paraId)
                      /\ some.downward = all.downward
    OBVIOUS
  <2>1. ~bad(received) /\ ~bad(wanted) /\ wanted = own
    BY <1>1, <1>4, <1>7
  <2> QED BY <1>5, <1>6, <1>8, <2>1
<1> HIDE DEF all, some
<1>11. Messages(FALSE, inherent, Null) = all /\ Messages(FALSE, inherent, paraId) = some
  BY <1>2, <1>3 DEF all, some
<1> QED BY <1>9, <1>10, <1>11 DEF MessagesOfPara, OfOrigin

-----------------------------------------------------------------------------

\* Blocks of any extrinsics and events, and inherents of any messages.
ContentInputs(pallets, methods, says, chains, instructions) ==
  [kind : {"events"}, version : Nat, extrinsics : Seq(Fetched),
   events : Seq(EventsAmong(pallets, methods, says)) \cup {Null}]
  \cup [kind : {"messages"}, isRelay : {TRUE}, inherent : Seq(Candidates(chains, instructions)),
        paraId : Nat \cup {Null}]
  \cup [kind : {"messages"}, isRelay : {FALSE}, inherent : Inherents(instructions),
        paraId : Nat \cup {Null}]

\* A block tells every event where it happened, and every message where it comes
\* from (sanitizeEvents of BlocksService, XcmDecoder): for any runtime version, any
\* extrinsics and events of any pallets and methods, and any messages.
THEOREM EveryContentExact ==
  ASSUME NEW pallets, NEW methods, NEW says, NEW chains, NEW instructions,
         input \in ContentInputs(pallets, methods, says, chains, instructions)
  PROVE  ContentsExact
<1>1. ASSUME Is("events")
      PROVE  /\ EventsAttributed(input.version, input.extrinsics, input.events)
             /\ EventsKept(input.version, input.extrinsics, input.events)
  <2>1. /\ input.version \in Nat /\ input.extrinsics \in Seq(Fetched)
        /\ input.events \in Seq(EventsAmong(pallets, methods, says)) \cup {Null}
    BY <1>1 DEF ContentInputs, Is
  <2> QED BY <2>1, EveryEventAttributed, EveryEventKept
<1>2. ASSUME Is("messages") PROVE MessagesOfPara(input.isRelay, input.inherent, input.paraId)
  <2>1. \/ input.isRelay = TRUE /\ input.inherent \in Seq(Candidates(chains, instructions))
        \/ input.isRelay = FALSE /\ input.inherent \in Inherents(instructions)
    BY <1>2 DEF ContentInputs, Is
  <2> QED BY <2>1, RelayMessagesOfPara, ParachainMessagesOfPara
<1> QED BY <1>1, <1>2 DEF ContentsExact

-----------------------------------------------------------------------------
(* Staking claims *)

\* What is in T at first and is kept there by each step stays in T.
Preserved(p, T, n) == p[0] \in T /\ \A m \in 1..n : p[m - 1] \in T => p[m] \in T
StaysIn(p, T, n) == \A m \in 0..n : p[m] \in T

LEMMA PreservedStays ==
  ASSUME NEW n \in Nat, NEW p, NEW T, Preserved(p, T, n)
  PROVE  StaysIn(p, T, n)
<1> DEFINE Good == {m \in Nat : m <= n => p[m] \in T}
<1>1. 0 \in Good
  BY DEF Preserved
<1>2. ASSUME NEW m \in Nat, m \in Good PROVE m + 1 \in Good
  <2> SUFFICES ASSUME m + 1 <= n PROVE p[m + 1] \in T
    OBVIOUS
  <2>1. m + 1 \in 1..n /\ (m + 1) - 1 = m /\ p[m] \in T
    BY <1>2
  <2> QED BY <2>1 DEF Preserved
<1>3. Nat \subseteq Good
  <2> HIDE DEF Good
  <2> QED BY <1>1, <1>2, SetInduction
<1> QED BY <1>3 DEF StaysIn

-----------------------------------------------------------------------------
(* The states of the loops over the eras and over the nominated validators. *)

Statuses == {"claimed", "unclaimed", "partially claimed", "undefined"}
EraClaims == [era : Nat, status : Statuses]

\* Old lists are in the order of their eras, none of which is ahead.
Ascending(s) == \A i, j \in 1..Len(s) : i < j => s[i] < s[j]

Stakers(eras) ==
  [bonded : BOOLEAN, legacy : Seq(Nat), pages : [eras -> Nat], total : [eras -> BOOLEAN],
   claimed : [eras -> SUBSET Nat], page : [eras -> Nat \cup {Null}]]

ClaimRequests(eras) ==
  {r \in [hub : BOOLEAN, claims : ClaimsStorages \cup {Null},
          start : Nat, depth : Nat, isValidator : BOOLEAN, legacy : Seq(Nat),
          own : Stakers(eras), targets : Seq(Stakers(eras))] :
     Ascending(r.legacy) /\ \A i \in 1..Len(r.legacy) : r.legacy[i] < r.start + r.depth}

AskStates == [era : Nat, rewards : Seq(EraClaims), shared : BOOLEAN, found : BOOLEAN]
LoopStates ==
  [era : Nat, checked : BOOLEAN, rewards : Seq(EraClaims), nom : Seq(EraClaims),
   stopped : BOOLEAN]

LEMMA ClaimIs ==
  ASSUME NEW era \in Nat, NEW status \in Statuses
  PROVE  Claim(era, status) \in EraClaims
BY DEF Claim, EraClaims

LEMMA LegacyClaimsAre ==
  ASSUME NEW eras \in Seq(Nat)
  PROVE  /\ LegacyClaims(eras) \in Seq(EraClaims) /\ Len(LegacyClaims(eras)) = Len(eras)
         /\ \A i \in 1..Len(eras) : LegacyClaims(eras)[i] = Claim(eras[i], "claimed")
<1>1. Len(eras) \in Nat /\ DOMAIN eras = 1..Len(eras)
  OBVIOUS
<1>2. \A i \in 1..Len(eras) : Claim(eras[i], "claimed") \in EraClaims
  <2> TAKE i \in 1..Len(eras)
  <2>1. eras[i] \in Nat
    BY <1>1
  <2> QED BY <2>1, ClaimIs DEF Statuses
<1>3. LegacyClaims(eras) = [i \in 1..Len(eras) |-> Claim(eras[i], "claimed")]
  BY <1>1 DEF LegacyClaims
<1> QED BY <1>1, <1>2, <1>3

LEMMA LastOf ==
  ASSUME NEW eras \in Seq(Nat), eras # <<>>
  PROVE  Len(eras) \in 1..Len(eras) /\ Last(eras) = eras[Len(eras)] /\ Last(eras) \in Nat
BY DEF Last

LEMMA AfterLegacyIs ==
  ASSUME NEW r, NEW eras \in Seq(Nat), NEW era \in Nat, NEW rewards \in Seq(EraClaims)
  PROVE  AfterLegacy(r, eras, era, rewards) \in [era : Nat, rewards : Seq(EraClaims)]
<1>1. LegacyClaims(eras) \in Seq(EraClaims)
  BY LegacyClaimsAre
<1>2. eras # <<>> => Last(eras) + 1 \in Nat
  <2> SUFFICES ASSUME eras # <<>> PROVE Last(eras) + 1 \in Nat
    OBVIOUS
  <2>1. Last(eras) \in Nat
    BY LastOf
  <2> QED BY <2>1
<1>3. <<>> \in Seq(EraClaims)
  OBVIOUS
<1> QED BY <1>1, <1>2, <1>3 DEF AfterLegacy

LEMMA StatusIs ==
  ASSUME NEW r, NEW v, NEW era
  PROVE  /\ ValidatorStatus(r, v, era) \in Statuses \cup {Null}
         /\ NominatorStatus(v, era) \in Statuses \cup {Null}
BY DEF ValidatorStatus, NominatorStatus, PageStatus, Statuses

-----------------------------------------------------------------------------
(* One validator after the other is asked. *)

ConsultIs(asked, st) == asked \in AskStates /\ asked.found = st.found

LEMMA ConsultKeeps ==
  ASSUME NEW r, NEW st \in AskStates, NEW v, v.legacy \in Seq(Nat)
  PROVE  ConsultIs(Consult(r, st, v), st)
<1> DEFINE after == AfterLegacy(r, v.legacy, st.era, st.rewards)
<1>1. after \in [era : Nat, rewards : Seq(EraClaims)]
  BY AfterLegacyIs DEF AskStates
<1> HIDE DEF after
<1>2. [st EXCEPT !.era = after.era, !.rewards = after.rewards, !.shared = FALSE] \in AskStates
  BY <1>1 DEF AskStates
<1>3. [st EXCEPT !.era = after.era, !.rewards = after.rewards, !.shared = FALSE].found = st.found
  BY DEF AskStates
<1>4. \/ Consult(r, st, v) = st
      \/ Consult(r, st, v)
           = [st EXCEPT !.era = after.era, !.rewards = after.rewards, !.shared = FALSE]
  BY DEF Consult, after
<1> QED BY <1>2, <1>3, <1>4 DEF ConsultIs

\* What the answer s makes of the state after the old list.
Answering(asked, s) ==
  [asked EXCEPT !.rewards = Append(@, Claim(asked.era, s)), !.found = TRUE]

LEMMA AnsweringIs ==
  ASSUME NEW asked \in AskStates, NEW s \in Statuses
  PROVE  Answering(asked, s) \in AskStates
<1>1. asked.era \in Nat /\ asked.rewards \in Seq(EraClaims)
  BY DEF AskStates
<1>2. Claim(asked.era, s) \in EraClaims
  BY <1>1, ClaimIs
<1> DEFINE claim == Claim(asked.era, s)
<1> HIDE DEF claim
<1>3. Append(asked.rewards, claim) \in Seq(EraClaims)
  BY <1>1, <1>2 DEF claim
<1> QED BY <1>3 DEF Answering, AskStates, claim

LEMMA AskTargetIs ==
  ASSUME NEW r, NEW st \in AskStates, NEW i, r.targets[i].legacy \in Seq(Nat)
  PROVE  AskTarget(r, st, i) \in AskStates
<1> DEFINE v == r.targets[i]
           asked == Consult(r, st, v)
           status == NominatorStatus(v, asked.era)
<1>1. asked \in AskStates
  BY ConsultKeeps DEF ConsultIs
<1>2. status \in Statuses \cup {Null}
  BY StatusIs
<1>3. \/ AskTarget(r, st, i) = st
      \/ AskTarget(r, st, i) = asked
      \/ status # Null /\ AskTarget(r, st, i) = Answering(asked, status)
      \/ AskTarget(r, st, i) = Answering(asked, "undefined")
  BY DEF AskTarget, Answering
<1> HIDE DEF asked, status
<1> QED BY <1>1, <1>2, <1>3, AnsweringIs DEF Statuses

FirstAsk(era, rewards) == [era |-> era, rewards |-> rewards, shared |-> TRUE, found |-> FALSE]

\* a[i] is the state when i of the validators have been asked.
AsksInOrder(a, r, first) ==
  a[0] = first /\ \A i \in 1..Len(r.targets) : a[i] = AskTarget(r, a[i - 1], i)

AskedBy(a, r, era, rewards) ==
  /\ AsksInOrder(a, r, FirstAsk(era, rewards))
  /\ AskTargets(r, era, rewards) = a[Len(r.targets)]
  /\ a \in [0..Len(r.targets) -> AskStates]

AreAsked(r, era, rewards) == \E a : AskedBy(a, r, era, rewards)

LEMMA AskTargetsStepwise ==
  ASSUME NEW V, \A v \in V : v.legacy \in Seq(Nat), NEW r, r.targets \in Seq(V),
         NEW era \in Nat, NEW rewards \in Seq(EraClaims)
  PROVE  AreAsked(r, era, rewards)
<1> DEFINE n == Len(r.targets)
           T == AskStates
           first == FirstAsk(era, rewards)
           order == [i \in DOMAIN r.targets |-> i]
           step == [k \in 1..n |-> [st \in T |-> AskTarget(r, st, k)]]
           Makes(iter) == iter = [S \in SUBSET DOMAIN order |->
                                    IF S = {} THEN first
                                    ELSE AskTarget(r, iter[S \ {Max(S)}], order[Max(S)])]
<1>1. n \in Nat /\ DOMAIN r.targets = 1..n /\ \A k \in 1..n : r.targets[k] \in V
  OBVIOUS
<1>2. first \in T
  BY DEF FirstAsk, AskStates
<1>3. DOMAIN order = 1..n /\ \A k \in 1..n : order[k] = k
  BY <1>1
<1> HIDE DEF first, order, n
<1>4. \A st \in T : \A k \in 1..n : AskTarget(r, st, k) \in T
  <2> TAKE st \in T
  <2> TAKE k \in 1..n
  <2>1. r.targets[k].legacy \in Seq(Nat)
    BY <1>1
  <2> QED BY <2>1, AskTargetIs
<1> HIDE DEF T
<1>5. step \in [1..n -> [T -> T]]
  BY <1>4
<1>6. PICK f \in [SUBSET (1..n) -> T] : Iterates(f, first, step, n)
  <2> HIDE DEF step
  <2>1. \A st \in [1..n -> [T -> T]] : HasIteration(T, first, st, n)
    <3> TAKE st \in [1..n -> [T -> T]]
    <3> QED BY <1>1, <1>2, IterationExists
  <2>2. HasIteration(T, first, step, n)
    BY <1>5, <2>1
  <2> QED BY <2>2 DEF HasIteration
<1>7. Makes(f)
  <2>1. ASSUME NEW S \in SUBSET (1..n)
        PROVE  f[S] = IF S = {} THEN first ELSE AskTarget(r, f[S \ {Max(S)}], order[Max(S)])
    <3>1. f[S] = IF S = {} THEN first ELSE step[Max(S)][f[S \ {Max(S)}]]
      BY <1>6 DEF Iterates
    <3>2. S # {} => Max(S) \in 1..n
      BY <1>1, MaxIsLargest
    <3>3. f[S \ {Max(S)}] \in T
      BY <1>6
    <3>4. S # {} => step[Max(S)][f[S \ {Max(S)}]] = AskTarget(r, f[S \ {Max(S)}], Max(S))
      BY <3>2, <3>3
    <3>5. S # {} => order[Max(S)] = Max(S)
      BY <1>3, <3>2
    <3> HIDE DEF step
    <3> QED BY <3>1, <3>4, <3>5
  <2> HIDE DEF step
  <2>2. f = [S \in SUBSET (1..n) |-> f[S]]
    BY <1>6
  <2>3. f = [S \in SUBSET (1..n) |->
               IF S = {} THEN first ELSE AskTarget(r, f[S \ {Max(S)}], order[Max(S)])]
    BY <2>1, <2>2
  <2> QED BY <1>3, <2>3
<1>8. AskTargets(r, era, rewards) = (CHOOSE iter : Makes(iter))[DOMAIN order]
  BY DEF AskTargets, FoldLeft, MapThenFoldSet, order, first, FirstAsk
<1>9. PICK iter : Makes(iter) /\ AskTargets(r, era, rewards) = iter[DOMAIN order]
  <2> HIDE DEF Makes
  <2> QED BY <1>7, <1>8
<1> HIDE DEF step
<1> DEFINE a == [m \in 0..n |-> iter[1..m]]
<1>10. a[0] = first
  <2>1. 1..0 = {} /\ {} \in SUBSET DOMAIN order /\ 0 \in 0..n
    BY <1>1
  <2> QED BY <1>9, <2>1
<1>11. ASSUME NEW m \in 1..n PROVE a[m] = AskTarget(r, a[m - 1], m)
  <2>1. /\ 1..m \in SUBSET (1..n) /\ 1..m # {}
        /\ Max(1..m) = m /\ (1..m) \ {Max(1..m)} = 1..(m - 1)
    BY <1>1, IterationInOrder
  <2>2. iter[1..m] = AskTarget(r, iter[(1..m) \ {Max(1..m)}], order[Max(1..m)])
    BY <1>3, <1>9, <2>1
  <2>3. m \in 0..n /\ m - 1 \in 0..n
    BY <1>1
  <2> QED BY <1>3, <2>1, <2>2, <2>3
<1>12. AskTargets(r, era, rewards) = a[n]
  <2>1. n \in 0..n
    BY <1>1
  <2> QED BY <1>3, <1>9, <2>1
<1>13. DOMAIN a = 0..n
  OBVIOUS
<1>14. a = [m \in 0..n |-> a[m]]
  OBVIOUS
<1> HIDE DEF a
<1>15. Preserved(a, T, n)
  <2>1. ASSUME NEW m \in 1..n, a[m - 1] \in T PROVE a[m] \in T
    BY <1>4, <1>11, <2>1
  <2> QED BY <1>2, <1>10, <2>1 DEF Preserved
<1>16. \A m \in 0..n : a[m] \in T
  BY <1>1, <1>15, PreservedStays DEF StaysIn
<1>17. a \in [0..n -> T]
  BY <1>14, <1>16
<1> QED BY <1>10, <1>11, <1>12, <1>17 DEF AreAsked, AskedBy, AsksInOrder, first, n, T

-----------------------------------------------------------------------------
(* One era after the other. *)

LEMMA OldCallsIs ==
  ASSUME NEW r, r.legacy \in Seq(Nat), NEW l \in LoopStates
  PROVE  OldCalls(r, l) \in LoopStates /\ OldCalls(r, l).stopped = l.stopped
<1> DEFINE after == AfterLegacy(r, r.legacy, l.era, l.rewards)
<1>1. after \in [era : Nat, rewards : Seq(EraClaims)]
  BY AfterLegacyIs DEF LoopStates
<1>2. \/ OldCalls(r, l) = l
      \/ OldCalls(r, l)
           = [l EXCEPT !.checked = TRUE, !.era = after.era, !.rewards = after.rewards]
  BY DEF OldCalls
<1> HIDE DEF after
<1> QED BY <1>1, <1>2 DEF LoopStates

LEMMA ValidatorRoundIs ==
  ASSUME NEW r, NEW l \in LoopStates
  PROVE  /\ ValidatorRound(r, l) \in LoopStates
         /\ ValidatorRound(r, l).era = l.era + 1
         /\ ValidatorRound(r, l).stopped = l.stopped
<1> DEFINE status == ValidatorStatus(r, r.own, l.era)
           claim == Claim(l.era, status)
           told == IF status = Null THEN l.rewards ELSE Append(l.rewards, claim)
<1>1. l.era \in Nat /\ l.rewards \in Seq(EraClaims)
  BY DEF LoopStates
<1>2. status # Null => claim \in EraClaims
  <2>1. status \in Statuses \cup {Null}
    BY StatusIs
  <2> HIDE DEF status
  <2> QED BY <1>1, <2>1, ClaimIs
<1>3. ValidatorRound(r, l) = [l EXCEPT !.era = l.era + 1, !.rewards = told]
  BY DEF ValidatorRound, LoopStates
<1> HIDE DEF status, claim
<1>4. told \in Seq(EraClaims)
  BY <1>1, <1>2
<1>5. l.era + 1 \in Nat
  BY <1>1
<1> HIDE DEF told
<1> QED BY <1>3, <1>4, <1>5 DEF LoopStates

LEMMA NominatorRoundIs ==
  ASSUME NEW r, NEW l \in LoopStates,
         \A rewards \in Seq(EraClaims) : AskTargets(r, l.era, rewards) \in AskStates
  PROVE  NominatorRound(r, l) \in LoopStates /\ NominatorRound(r, l).stopped = l.stopped
<1> DEFINE rewards == IF r.hub THEN l.nom ELSE l.rewards
           asked == AskTargets(r, l.era, rewards)
           own == IF asked.shared /\ ~r.hub THEN asked.rewards ELSE l.rewards
<1>1. l.rewards \in Seq(EraClaims) /\ l.nom \in Seq(EraClaims)
  BY DEF LoopStates
<1>2. asked \in AskStates
  BY <1>1
<1>3. NominatorRound(r, l) = [l EXCEPT !.era = asked.era + 1, !.nom = asked.rewards,
                                       !.rewards = own]
  BY DEF NominatorRound, LoopStates
<1> HIDE DEF asked
<1>4. asked.era + 1 \in Nat /\ asked.rewards \in Seq(EraClaims) /\ own \in Seq(EraClaims)
  BY <1>1, <1>2 DEF AskStates
<1> HIDE DEF own
<1> QED BY <1>3, <1>4 DEF LoopStates

LEMMA RoundIs ==
  ASSUME NEW eras, NEW r \in ClaimRequests(eras), NEW l \in LoopStates
  PROVE  Round(r, l) \in LoopStates
<1>1. r.legacy \in Seq(Nat) /\ r.targets \in Seq(Stakers(eras)) /\ r.start \in Nat
  BY DEF ClaimRequests
<1> DEFINE checked == OldCalls(r, l)
<1>2. checked \in LoopStates
  BY <1>1, OldCallsIs
<1>3. \/ Round(r, l) = l
      \/ Round(r, l) = [checked EXCEPT !.nom = checked.rewards, !.stopped = TRUE]
      \/ Round(r, l) = ValidatorRound(r, checked)
      \/ Round(r, l) = [checked EXCEPT !.era = checked.era + 1, !.nom = checked.rewards]
      \/ Round(r, l) = NominatorRound(r, checked)
  <2>1. checked.era \in Nat
    BY <1>2 DEF LoopStates
  <2> HIDE DEF checked
  <2>2. [checked EXCEPT !.era = @ + 1, !.nom = checked.rewards]
          = [checked EXCEPT !.era = checked.era + 1, !.nom = checked.rewards]
    OBVIOUS
  <2> QED BY <2>2 DEF Round, checked
<1> HIDE DEF checked
<1>4. [checked EXCEPT !.nom = checked.rewards, !.stopped = TRUE] \in LoopStates
  BY <1>2 DEF LoopStates
<1>5. [checked EXCEPT !.era = checked.era + 1, !.nom = checked.rewards] \in LoopStates
  <2>1. checked.era + 1 \in Nat
    BY <1>2 DEF LoopStates
  <2> QED BY <1>2, <2>1 DEF LoopStates
<1>6. ValidatorRound(r, checked) \in LoopStates
  BY <1>2, ValidatorRoundIs
<1>7. NominatorRound(r, checked) \in LoopStates
  <2>1. \A v \in Stakers(eras) : v.legacy \in Seq(Nat)
    BY DEF Stakers
  <2>2. checked.era \in Nat
    BY <1>2 DEF LoopStates
  <2>3. ASSUME NEW rewards \in Seq(EraClaims)
        PROVE  AskTargets(r, checked.era, rewards) \in AskStates
    <3> DEFINE n == Len(r.targets)
    <3>1. AreAsked(r, checked.era, rewards)
      BY <1>1, <2>1, <2>2, AskTargetsStepwise
    <3>2. PICK a : a \in [0..n -> AskStates] /\ AskTargets(r, checked.era, rewards) = a[n]
      BY <3>1 DEF AreAsked, AskedBy
    <3>3. n \in Nat
      BY <1>1
    <3> HIDE DEF n
    <3> QED BY <3>2, <3>3
  <2> QED BY <1>2, <2>3, NominatorRoundIs
<1> QED BY <1>3, <1>4, <1>5, <1>6, <1>7

\* p[m] is the state after m rounds.
RoundsInOrder(p, r) ==
  p[0] = FirstRound(r) /\ \A m \in 1..r.depth : p[m] = Round(r, p[m - 1])

GoneBy(p, r) ==
  RoundsInOrder(p, r) /\ Rounds(r) = p[r.depth] /\ p \in [0..r.depth -> LoopStates]

HasRounds(r) == \E p : GoneBy(p, r)

LEMMA RoundsStepwise ==
  ASSUME NEW eras, NEW r \in ClaimRequests(eras)
  PROVE  HasRounds(r)
<1> DEFINE n == r.depth
           T == LoopStates
           first == FirstRound(r)
           order == [i \in 1..n |-> i]
           step == [k \in 1..n |-> [l \in T |-> Round(r, l)]]
           Makes(iter) == iter = [S \in SUBSET DOMAIN order |->
                                    IF S = {} THEN first ELSE Round(r, iter[S \ {Max(S)}])]
<1>1. n \in Nat /\ r.start \in Nat /\ r.hub \in BOOLEAN
  BY DEF ClaimRequests
<1>2. first \in T
  BY <1>1 DEF FirstRound, LoopStates
<1>3. DOMAIN order = 1..n
  OBVIOUS
<1>4. \A l \in T : Round(r, l) \in T
  BY RoundIs
<1>5. Rounds(r) = (CHOOSE iter : Makes(iter))[DOMAIN order]
  BY DEF Rounds, FoldLeft, MapThenFoldSet
<1> HIDE DEF first, order, n, T
<1>6. step \in [1..n -> [T -> T]]
  BY <1>4
<1>7. PICK f \in [SUBSET (1..n) -> T] : Iterates(f, first, step, n)
  <2> HIDE DEF step
  <2>1. \A st \in [1..n -> [T -> T]] : HasIteration(T, first, st, n)
    <3> TAKE st \in [1..n -> [T -> T]]
    <3> QED BY <1>1, <1>2, IterationExists
  <2>2. HasIteration(T, first, step, n)
    BY <1>6, <2>1
  <2> QED BY <2>2 DEF HasIteration
<1>8. Makes(f)
  <2>1. ASSUME NEW S \in SUBSET (1..n)
        PROVE  f[S] = IF S = {} THEN first ELSE Round(r, f[S \ {Max(S)}])
    <3>1. f[S] = IF S = {} THEN first ELSE step[Max(S)][f[S \ {Max(S)}]]
      BY <1>7 DEF Iterates
    <3>2. S # {} => Max(S) \in 1..n
      BY <1>1, MaxIsLargest
    <3>3. f[S \ {Max(S)}] \in T
      BY <1>7
    <3>4. S # {} => step[Max(S)][f[S \ {Max(S)}]] = Round(r, f[S \ {Max(S)}])
      BY <3>2, <3>3
    <3> HIDE DEF step
    <3> QED BY <3>1, <3>4
  <2> HIDE DEF step
  <2> QED BY <1>3, <1>7, <2>1
<1>9. PICK iter : Makes(iter) /\ Rounds(r) = iter[DOMAIN order]
  <2> HIDE DEF Makes
  <2> QED BY <1>5, <1>8
<1> HIDE DEF step
<1> DEFINE p == [m \in 0..n |-> iter[1..m]]
<1>10. p[0] = first
  <2>1. 1..0 = {} /\ {} \in SUBSET DOMAIN order /\ 0 \in 0..n
    BY <1>1
  <2> QED BY <1>9, <2>1
<1>11. ASSUME NEW m \in 1..n PROVE p[m] = Round(r, p[m - 1])
  <2>1. /\ 1..m \in SUBSET (1..n) /\ 1..m # {}
        /\ Max(1..m) = m /\ (1..m) \ {Max(1..m)} = 1..(m - 1)
    BY <1>1, IterationInOrder
  <2>2. iter[1..m] = Round(r, iter[(1..m) \ {Max(1..m)}])
    BY <1>3, <1>9, <2>1
  <2>3. m \in 0..n /\ m - 1 \in 0..n
    BY <1>1
  <2> QED BY <2>1, <2>2, <2>3
<1>12. Rounds(r) = p[n]
  <2>1. n \in 0..n
    BY <1>1
  <2> QED BY <1>3, <1>9, <2>1
<1>13. p = [m \in 0..n |-> p[m]]
  OBVIOUS
<1> HIDE DEF p
<1>14. Preserved(p, T, n)
  <2>1. ASSUME NEW m \in 1..n, p[m - 1] \in T PROVE p[m] \in T
    BY <1>4, <1>11, <2>1
  <2> QED BY <1>2, <1>10, <2>1 DEF Preserved
<1>15. \A m \in 0..n : p[m] \in T
  BY <1>1, <1>14, PreservedStays DEF StaysIn
<1>16. p \in [0..n -> T]
  BY <1>13, <1>15
<1> QED BY <1>10, <1>11, <1>12, <1>16 DEF HasRounds, GoneBy, RoundsInOrder, first, n, T

-----------------------------------------------------------------------------
(* What a validator has been told when the loop comes to an era. *)

Wants(r, e) ==
  (r.legacy = <<>> \/ r.hub \/ Last(r.legacy) < e) /\ ValidatorStatus(r, r.own, e) # Null

InOrder(claims, era) ==
  /\ \A i, j \in 1..Len(claims) : i < j => claims[i].era < claims[j].era
  /\ \A i \in 1..Len(claims) : claims[i].era < era

OfItsEras(r, claims) ==
  \A i \in 1..Len(claims) : claims[i].era \in ToSet(r.legacy) \cup r.start..(r.start + r.depth)

TellsOf(r, claims, e) ==
  \E i \in 1..Len(claims) : claims[i] = Claim(e, ValidatorStatus(r, r.own, e))

Chronicle(r, claims, era) ==
  /\ InOrder(claims, era) /\ OfItsEras(r, claims)
  /\ \A e \in r.start..(r.start + r.depth - 1) : e < era /\ Wants(r, e) => TellsOf(r, claims, e)

LEMMA AppendedIs ==
  ASSUME NEW T, NEW s \in Seq(T), NEW t \in T
  PROVE  /\ Append(s, t) \in Seq(T) /\ Len(Append(s, t)) = Len(s) + 1 /\ Len(s) \in Nat
         /\ Append(s, t)[Len(s) + 1] = t /\ \A i \in 1..Len(s) : Append(s, t)[i] = s[i]
OBVIOUS

\* A claim of the era the loop is at.
LEMMA OrderGrows ==
  ASSUME NEW claims \in Seq(EraClaims), NEW era \in Nat, InOrder(claims, era),
         NEW claim \in EraClaims, claim.era = era
  PROVE  InOrder(Append(claims, claim), era + 1)
<1> DEFINE n == Len(claims)
           more == Append(claims, claim)
<1>1. /\ Len(more) = n + 1 /\ n \in Nat
      /\ more[n + 1] = claim /\ \A i \in 1..n : more[i] = claims[i]
  BY AppendedIs
<1>2. /\ \A i, j \in 1..n : i < j => claims[i].era < claims[j].era
      /\ \A i \in 1..n : claims[i].era < era
  BY DEF InOrder
<1>3. \A i \in 1..n : claims[i].era \in Nat
  <2> TAKE i \in 1..n
  <2>1. claims[i] \in EraClaims
    OBVIOUS
  <2> QED BY <2>1 DEF EraClaims
<1> HIDE DEF more, n
<1>4. ASSUME NEW i \in 1..(n + 1), NEW j \in 1..(n + 1), i < j
      PROVE  more[i].era < more[j].era
  <2>1. i \in 1..n /\ more[i] = claims[i]
    BY <1>1, <1>4
  <2>2. CASE j = n + 1
    BY <1>1, <1>2, <2>1, <2>2
  <2>3. CASE j # n + 1
    <3>1. j \in 1..n
      BY <1>1, <2>3
    <3> QED BY <1>1, <1>2, <1>4, <2>1, <3>1
  <2> QED BY <2>2, <2>3
<1>5. ASSUME NEW i \in 1..(n + 1) PROVE more[i].era < era + 1
  <2>1. CASE i = n + 1
    BY <1>1, <2>1
  <2>2. CASE i # n + 1
    <3>1. i \in 1..n
      BY <1>1, <2>2
    <3>2. claims[i].era < era /\ claims[i].era \in Nat
      BY <1>2, <1>3, <3>1
    <3>3. more[i].era = claims[i].era
      BY <1>1, <3>1
    <3> QED BY <3>2, <3>3
  <2> QED BY <2>1, <2>2
<1>6. Len(more) = n + 1
  BY <1>1
<1> QED BY <1>4, <1>5, <1>6 DEF InOrder, more

LEMMA OrderWaits ==
  ASSUME NEW claims \in Seq(EraClaims), NEW era \in Nat, InOrder(claims, era)
  PROVE  InOrder(claims, era + 1)
<1>1. \A i \in 1..Len(claims) : claims[i].era < era + 1
  <2> TAKE i \in 1..Len(claims)
  <2>1. claims[i] \in EraClaims
    OBVIOUS
  <2>2. claims[i].era < era /\ claims[i].era \in Nat
    BY <2>1 DEF InOrder, EraClaims
  <2> QED BY <2>2
<1> QED BY <1>1 DEF InOrder

LEMMA ChronicleGrows ==
  ASSUME NEW r, r.start \in Nat, r.depth \in Nat, NEW claims \in Seq(EraClaims),
         NEW era \in r.start..(r.start + r.depth), Chronicle(r, claims, era)
  PROVE  LET status == ValidatorStatus(r, r.own, era)
         IN  Chronicle(r, IF status = Null THEN claims ELSE Append(claims, Claim(era, status)),
                       era + 1)
<1> DEFINE status == ValidatorStatus(r, r.own, era)
           claim == Claim(era, status)
           n == Len(claims)
           more == Append(claims, claim)
<1>1. era \in Nat /\ InOrder(claims, era) /\ OfItsEras(r, claims)
  BY DEF Chronicle
<1>2. \A e \in r.start..(r.start + r.depth - 1) : e < era /\ Wants(r, e) => TellsOf(r, claims, e)
  BY DEF Chronicle
<1>3. \A e \in r.start..(r.start + r.depth - 1) : e < era + 1 => e < era \/ e = era
  OBVIOUS
<1>4. CASE status = Null
  <2>1. ~Wants(r, era)
    BY <1>4 DEF Wants
  <2>2. InOrder(claims, era + 1)
    BY <1>1, OrderWaits
  <2> HIDE DEF status
  <2>3. Chronicle(r, claims, era + 1)
    BY <1>1, <1>2, <1>3, <2>1, <2>2 DEF Chronicle
  <2> QED BY <1>4, <2>3 DEF status
<1>5. CASE status # Null
  <2>1. claim \in EraClaims /\ claim.era = era
    <3>1. status \in Statuses
      BY <1>5, StatusIs
    <3> HIDE DEF status
    <3> QED BY <1>1, <3>1, ClaimIs DEF Claim
  <2> HIDE DEF claim
  <2>2. InOrder(more, era + 1)
    BY <1>1, <2>1, OrderGrows
  <2>3. /\ Len(more) = n + 1 /\ n \in Nat
        /\ more[n + 1] = claim /\ \A i \in 1..n : more[i] = claims[i]
    BY <2>1, AppendedIs
  <2> HIDE DEF more, n
  <2>4. OfItsEras(r, more)
    <3>1. \A i \in 1..n : claims[i].era \in ToSet(r.legacy) \cup r.start..(r.start + r.depth)
      BY <1>1 DEF OfItsEras, n
    <3> SUFFICES ASSUME NEW i \in 1..(n + 1)
                 PROVE  more[i].era \in ToSet(r.legacy) \cup r.start..(r.start + r.depth)
      BY <2>3 DEF OfItsEras
    <3>2. CASE i = n + 1
      BY <2>1, <2>3, <3>2
    <3>3. CASE i # n + 1
      <4>1. i \in 1..n
        BY <2>3, <3>3
      <4> QED BY <2>3, <3>1, <4>1
    <3> QED BY <3>2, <3>3
  <2>5. ASSUME NEW e \in r.start..(r.start + r.depth - 1), e < era + 1, Wants(r, e)
        PROVE  TellsOf(r, more, e)
    <3>1. CASE e < era
      <4>1. TellsOf(r, claims, e)
        BY <1>2, <2>5, <3>1
      <4>2. PICK i \in 1..n : claims[i] = Claim(e, ValidatorStatus(r, r.own, e))
        BY <4>1 DEF TellsOf, n
      <4>3. i \in 1..Len(more) /\ more[i] = claims[i]
        BY <2>3
      <4> QED BY <4>2, <4>3 DEF TellsOf
    <3>2. CASE e = era
      <4>1. n + 1 \in 1..Len(more) /\ more[n + 1] = Claim(e, ValidatorStatus(r, r.own, e))
        BY <2>3, <3>2 DEF claim
      <4> QED BY <4>1 DEF TellsOf
    <3> QED BY <1>3, <2>5, <3>1, <3>2
  <2>6. Chronicle(r, more, era + 1)
    BY <2>2, <2>4, <2>5 DEF Chronicle
  <2> HIDE DEF status
  <2> QED BY <1>5, <2>6 DEF more, claim, status
<1> QED BY <1>4, <1>5

\* What is in order is told of once.
LEMMA OrderedOnce ==
  ASSUME NEW claims \in Seq(EraClaims), NEW era, InOrder(claims, era)
  PROVE  Once(claims)
<1> DEFINE n == Len(claims)
           at == [i \in 1..n |-> claims[i].era]
<1>1. n \in Nat /\ DOMAIN claims = 1..n /\ \A i \in 1..n : claims[i] \in EraClaims
  OBVIOUS
<1>2. \A i \in 1..n : claims[i].era \in Nat
  BY <1>1 DEF EraClaims
<1>3. \A i, j \in 1..n : i < j => claims[i].era < claims[j].era
  BY DEF InOrder
<1>4. ErasOf(claims) = {claims[i].era : i \in 1..n}
  BY <1>1 DEF ErasOf
<1> HIDE DEF n
<1>5. at \in [1..n -> ErasOf(claims)]
  BY <1>4
<1>6. ASSUME NEW i \in 1..n, NEW j \in 1..n, at[i] = at[j] PROVE i = j
  <2>1. claims[i].era = claims[j].era
    BY <1>6
  <2>2. i < j \/ j < i \/ i = j
    BY <1>1
  <2>3. i < j => claims[i].era < claims[j].era
    BY <1>3
  <2>4. j < i => claims[j].era < claims[i].era
    BY <1>3
  <2>5. claims[i].era \in Nat
    BY <1>2
  <2> QED BY <2>1, <2>2, <2>3, <2>4, <2>5
<1>7. ASSUME NEW e \in ErasOf(claims) PROVE \E i \in 1..n : at[i] = e
  BY <1>4
<1> HIDE DEF at
<1>8. at \in Bijection(1..n, ErasOf(claims))
  BY <1>5, <1>6, <1>7 DEF Bijection, Injection, Surjection, IsInjective
<1>9. ExistsBijection(1..n, ErasOf(claims))
  BY <1>8 DEF ExistsBijection
<1>10. Cardinality(ErasOf(claims)) = n
  BY <1>1, <1>9, FS_CountingElements
<1> QED BY <1>10 DEF Once, n

-----------------------------------------------------------------------------
(* A validator's loop. *)

LEMMA ChronicleOfOld ==
  ASSUME NEW eras, NEW r \in ClaimRequests(eras), ~r.hub
  PROVE  LET after == AfterLegacy(r, r.legacy, r.start, <<>>)
         IN  Chronicle(r, after.rewards, after.era) /\ after.era \in r.start..(r.start + r.depth)
<1> DEFINE old == r.legacy
           n == Len(old)
           after == AfterLegacy(r, old, r.start, <<>>)
           claims == LegacyClaims(old)
<1>1. /\ old \in Seq(Nat) /\ r.start \in Nat /\ r.depth \in Nat
      /\ \A i, j \in 1..n : i < j => old[i] < old[j]
      /\ \A i \in 1..n : old[i] < r.start + r.depth
  BY DEF ClaimRequests, Ascending
<1>2. n \in Nat /\ DOMAIN old = 1..n /\ \A i \in 1..n : old[i] \in Nat
  BY <1>1
<1>3. Len(claims) = n /\ \A i \in 1..n : claims[i].era = old[i]
  <2>1. Len(claims) = n /\ \A i \in 1..n : claims[i] = Claim(old[i], "claimed")
    BY <1>1, LegacyClaimsAre
  <2>2. \A i \in 1..n : Claim(old[i], "claimed").era = old[i]
    BY DEF Claim
  <2> HIDE DEF claims
  <2> QED BY <2>1, <2>2
<1>4. ToSet(old) = {old[i] : i \in 1..n}
  BY <1>2 DEF ToSet
<1>5. OfItsEras(r, claims)
  BY <1>3, <1>4 DEF OfItsEras
<1>6. ASSUME NEW era \in Nat, \A i \in 1..n : old[i] < era
      PROVE  InOrder(claims, era)
  BY <1>1, <1>3, <1>6 DEF InOrder
<1>7. InOrder(<<>>, r.start) /\ OfItsEras(r, <<>>)
  <2>1. 1..Len(<<>>) = {}
    OBVIOUS
  <2> QED BY <2>1 DEF InOrder, OfItsEras
<1>8. \A e \in r.start..(r.start + r.depth - 1) : ~(e < r.start)
  BY <1>1
<1>9. CASE old = <<>>
  <2>1. after.rewards = <<>> /\ after.era = r.start
    BY <1>9 DEF AfterLegacy
  <2> HIDE DEF after
  <2>2. r.start \in r.start..(r.start + r.depth)
    BY <1>1
  <2>3. Chronicle(r, <<>>, r.start)
    BY <1>7, <1>8 DEF Chronicle
  <2> QED BY <2>1, <2>2, <2>3 DEF after
<1>10. ASSUME old # <<>>
       PROVE  n \in 1..n /\ Last(old) = old[n] /\ \A i \in 1..n : old[i] <= Last(old)
  <2>1. n \in 1..n /\ Last(old) = old[n]
    BY <1>1, <1>10, LastOf
  <2>2. ASSUME NEW i \in 1..n PROVE old[i] <= old[n]
    <3>1. i < n \/ i = n
      BY <1>2
    <3>2. old[i] \in Nat /\ old[n] \in Nat
      BY <1>2, <2>1
    <3>3. i < n => old[i] < old[n]
      BY <1>1, <2>1
    <3> QED BY <3>1, <3>2, <3>3
  <2> QED BY <2>1, <2>2
<1>11. CASE old # <<>> /\ r.start <= Last(old)
  <2>1. after.rewards = claims /\ after.era = Last(old) + 1
    BY <1>11 DEF AfterLegacy
  <2> HIDE DEF after, claims
  <2>2. Last(old) \in Nat /\ Last(old) < r.start + r.depth
    BY <1>1, <1>2, <1>10, <1>11
  <2>3. Last(old) + 1 \in r.start..(r.start + r.depth)
    BY <1>1, <1>11, <2>2
  <2>4. ASSUME NEW i \in 1..n PROVE old[i] < Last(old) + 1
    BY <1>2, <1>10, <1>11, <2>2
  <2>5. InOrder(claims, Last(old) + 1)
    BY <1>6, <2>2, <2>4
  <2>6. ~r.hub /\ old # <<>>
    BY <1>11
  <2>7. ASSUME NEW e \in r.start..(r.start + r.depth - 1), e < Last(old) + 1, Wants(r, e)
        PROVE  FALSE
    <3>1. Last(old) < e
      BY <2>6, <2>7 DEF Wants
    <3>2. e \in Nat
      BY <1>1
    <3> QED BY <2>2, <2>7, <3>1, <3>2
  <2>8. Chronicle(r, claims, Last(old) + 1)
    BY <1>5, <2>5, <2>7 DEF Chronicle
  <2> QED BY <2>1, <2>3, <2>8 DEF after, claims
<1>12. CASE old # <<>> /\ ~(r.start <= Last(old))
  <2>1. after.rewards \in {claims, <<>>} /\ after.era = r.start
    BY <1>12 DEF AfterLegacy
  <2> HIDE DEF after, claims
  <2>2. r.start \in r.start..(r.start + r.depth)
    BY <1>1
  <2>3. ASSUME NEW i \in 1..n PROVE old[i] < r.start
    <3>1. old[i] <= Last(old) /\ old[i] \in Nat /\ Last(old) \in Nat
      BY <1>2, <1>10, <1>12
    <3> QED BY <1>1, <1>12, <3>1
  <2>4. InOrder(claims, r.start)
    BY <1>1, <1>6, <2>3
  <2>5. Chronicle(r, claims, r.start) /\ Chronicle(r, <<>>, r.start)
    BY <1>5, <1>7, <1>8, <2>4 DEF Chronicle
  <2> QED BY <2>1, <2>2, <2>5 DEF after, claims
<1> QED BY <1>9, <1>11, <1>12

TellsSoFar(r, l) ==
  /\ l \in LoopStates /\ ~l.stopped /\ r.start <= l.era /\ Chronicle(r, l.rewards, l.era)
  /\ ~l.checked => ~r.hub /\ l.rewards = <<>> /\ l.era = r.start

MovesOn(r, l, after) == IF Ended(r, l) THEN after = l ELSE l.era < after.era

LEMMA ValidatorRoundTells ==
  ASSUME NEW eras, NEW r \in ClaimRequests(eras), r.isValidator, Answerable(r),
         NEW l, TellsSoFar(r, l)
  PROVE  TellsSoFar(r, Round(r, l)) /\ MovesOn(r, l, Round(r, l))
<1> DEFINE after == AfterLegacy(r, r.legacy, r.start, <<>>)
           checked == OldCalls(r, l)
           later == ValidatorRound(r, checked)
<1>1. /\ r.legacy \in Seq(Nat) /\ r.start \in Nat /\ r.depth \in Nat
      /\ l \in LoopStates /\ ~l.stopped
  BY DEF ClaimRequests, TellsSoFar
<1>2. l.era \in Nat
  BY <1>1 DEF LoopStates
<1>3. CASE Ended(r, l)
  <2>1. Round(r, l) = l
    BY <1>3 DEF Round
  <2> QED BY <1>3, <2>1 DEF MovesOn
<1>4. CASE ~Ended(r, l)
  <2>1. Round(r, l) = later
    BY <1>4 DEF Round
  <2>2. l.era < r.start + r.depth
    BY <1>1, <1>4 DEF Ended, InRange
  <2>3. checked \in LoopStates /\ ~checked.stopped
    BY <1>1, OldCallsIs
  <2>4. /\ Chronicle(r, checked.rewards, checked.era)
        /\ checked.era \in r.start..(r.start + r.depth)
        /\ l.era <= checked.era /\ checked.checked
    <3>1. CASE l.checked
      <4>1. checked = l
        BY <3>1 DEF OldCalls
      <4>2. l.era \in r.start..(r.start + r.depth)
        BY <1>1, <1>2, <2>2 DEF TellsSoFar
      <4> HIDE DEF checked
      <4> QED BY <1>2, <3>1, <4>1, <4>2 DEF TellsSoFar
    <3>2. CASE ~l.checked
      <4>1. ~r.hub /\ l.rewards = <<>> /\ l.era = r.start
        BY <3>2 DEF TellsSoFar
      <4>2. /\ Chronicle(r, after.rewards, after.era)
            /\ after.era \in r.start..(r.start + r.depth)
        BY <4>1, ChronicleOfOld
      <4>3. checked = [l EXCEPT !.checked = TRUE, !.era = after.era, !.rewards = after.rewards]
        BY <3>2, <4>1 DEF OldCalls
      <4> HIDE DEF checked, after
      <4>4. /\ checked.era = after.era /\ checked.rewards = after.rewards
            /\ checked.checked
        BY <1>1, <4>3 DEF LoopStates
      <4> QED BY <1>1, <4>1, <4>2, <4>4
    <3> QED BY <3>1, <3>2
  <2> HIDE DEF checked
  <2>5. /\ later \in LoopStates /\ later.era = checked.era + 1 /\ ~later.stopped
    BY <2>3, ValidatorRoundIs
  <2>6. Chronicle(r, later.rewards, later.era)
    <3> DEFINE status == ValidatorStatus(r, r.own, checked.era)
               told == IF status = Null THEN checked.rewards
                       ELSE Append(checked.rewards, Claim(checked.era, status))
    <3>1. checked.rewards \in Seq(EraClaims) /\ checked.era \in Nat
      BY <2>3 DEF LoopStates
    <3>2. Chronicle(r, told, checked.era + 1)
      BY <1>1, <2>4, <3>1, ChronicleGrows
    <3>3. later.rewards = told
      BY <2>3 DEF ValidatorRound, LoopStates
    <3> HIDE DEF told, later
    <3> QED BY <2>5, <3>2, <3>3
  <2>7. later.checked
    BY <2>3, <2>4 DEF ValidatorRound, LoopStates
  <2> HIDE DEF later
  <2>8. r.start <= later.era /\ l.era < later.era
    BY <1>1, <1>2, <2>4, <2>5
  <2>9. TellsSoFar(r, later)
    BY <2>5, <2>6, <2>7, <2>8 DEF TellsSoFar
  <2> QED BY <1>4, <2>1, <2>8, <2>9 DEF MovesOn
<1> QED BY <1>3, <1>4

LEMMA FirstTells ==
  ASSUME NEW eras, NEW r \in ClaimRequests(eras)
  PROVE  TellsSoFar(r, FirstRound(r))
<1>1. r.start \in Nat /\ r.depth \in Nat /\ r.hub \in BOOLEAN
  BY DEF ClaimRequests
<1> DEFINE first == FirstRound(r)
<1>2. first \in LoopStates
  BY <1>1 DEF FirstRound, LoopStates
<1>3. /\ first.era = r.start /\ first.rewards = <<>> /\ ~first.stopped
      /\ first.checked = r.hub
  BY DEF FirstRound
<1> HIDE DEF first
<1>4. 1..Len(<<>>) = {}
  OBVIOUS
<1>5. InOrder(<<>>, r.start) /\ OfItsEras(r, <<>>)
  BY <1>4 DEF InOrder, OfItsEras
<1>6. \A e \in r.start..(r.start + r.depth - 1) : ~(e < r.start)
  BY <1>1
<1>7. Chronicle(r, <<>>, r.start)
  BY <1>5, <1>6 DEF Chronicle
<1>8. TellsSoFar(r, first)
  BY <1>1, <1>2, <1>3, <1>7 DEF TellsSoFar
<1> QED BY <1>8 DEF first

\* After m rounds the loop has ended or has gone m eras on.
FarEnough(r, l, m) == Ended(r, l) \/ r.start + m <= l.era

LEMMA ValidatorTold ==
  ASSUME NEW eras, NEW r \in ClaimRequests(eras)
  PROVE  ValidatorClaimsExact(r)
<1> SUFFICES ASSUME r.isValidator, Answerable(r) PROVE ValidatorClaimsExact(r)
  BY DEF ValidatorClaimsExact
<1> DEFINE n == r.depth
<1>1. n \in Nat /\ r.start \in Nat
  BY DEF ClaimRequests
<1>2. HasRounds(r)
  BY RoundsStepwise
<1>3. PICK p : /\ p[0] = FirstRound(r) /\ \A m \in 1..n : p[m] = Round(r, p[m - 1])
               /\ Rounds(r) = p[n]
  BY <1>2 DEF HasRounds, GoneBy, RoundsInOrder
<1> DEFINE good(m) == TellsSoFar(r, p[m]) /\ FarEnough(r, p[m], m)
           Good == {m \in Nat : m <= n => good(m)}
<1>4. 0 \in Good
  <2>1. TellsSoFar(r, p[0])
    BY <1>3, FirstTells
  <2>2. p[0].era = r.start
    BY <1>3 DEF FirstRound
  <2>3. FarEnough(r, p[0], 0)
    BY <1>1, <2>2 DEF FarEnough
  <2> QED BY <2>1, <2>3
<1>5. ASSUME NEW m \in Nat, m \in Good PROVE m + 1 \in Good
  <2> SUFFICES ASSUME m + 1 <= n PROVE good(m + 1)
    OBVIOUS
  <2>1. good(m)
    BY <1>1, <1>5
  <2>2. m + 1 \in 1..n /\ (m + 1) - 1 = m
    BY <1>1
  <2>3. p[m + 1] = Round(r, p[m])
    BY <1>3, <2>2
  <2>4. TellsSoFar(r, p[m + 1]) /\ MovesOn(r, p[m], p[m + 1])
    BY <2>1, <2>3, ValidatorRoundTells
  <2>5. FarEnough(r, p[m + 1], m + 1)
    <3>1. CASE Ended(r, p[m])
      BY <2>4, <3>1 DEF MovesOn, FarEnough
    <3>2. CASE ~Ended(r, p[m])
      <4>1. p[m].era < p[m + 1].era /\ r.start + m <= p[m].era
        BY <2>1, <2>4, <3>2 DEF MovesOn, FarEnough
      <4>2. p[m].era \in Nat /\ p[m + 1].era \in Nat
        BY <2>1, <2>4 DEF TellsSoFar, LoopStates
      <4>3. r.start + (m + 1) <= p[m + 1].era
        BY <1>1, <4>1, <4>2
      <4> QED BY <4>3 DEF FarEnough
    <3> QED BY <3>1, <3>2
  <2> QED BY <2>4, <2>5
<1>6. n \in Good
  <2>1. Nat \subseteq Good
    <3> HIDE DEF Good
    <3> QED BY <1>4, <1>5, SetInduction
  <2> QED BY <1>1, <2>1
<1> DEFINE l == Rounds(r)
           claims == l.rewards
<1>7. TellsSoFar(r, l) /\ FarEnough(r, l, n)
  BY <1>1, <1>3, <1>6
<1> HIDE DEF l
<1>8. l.era \in Nat /\ claims \in Seq(EraClaims) /\ ~l.stopped /\ Chronicle(r, claims, l.era)
  BY <1>7 DEF TellsSoFar, LoopStates
<1>9. r.start + n <= l.era
  BY <1>1, <1>7, <1>8 DEF FarEnough, Ended, InRange
<1>10. Ended(r, l)
  BY <1>1, <1>8, <1>9 DEF Ended, InRange
<1>11. Once(claims)
  BY <1>8, OrderedOnce DEF Chronicle
<1>12. DOMAIN claims = 1..Len(claims)
  BY <1>8
<1>13. ErasOf(claims) \subseteq ToSet(r.legacy) \cup r.start..(r.start + r.depth)
  BY <1>8, <1>12 DEF Chronicle, OfItsEras, ErasOf
<1>14. ASSUME NEW e \in r.start..(r.start + r.depth - 1), Wants(r, e)
       PROVE  \E i \in DOMAIN claims : claims[i] = Claim(e, ValidatorStatus(r, r.own, e))
  <2>1. e < l.era
    BY <1>1, <1>8, <1>9
  <2>2. TellsOf(r, claims, e)
    BY <1>8, <1>14, <2>1 DEF Chronicle
  <2> QED BY <1>12, <2>2 DEF TellsOf
<1>15. ClaimedRewards(r) = claims
  BY DEF ClaimedRewards, l
<1> HIDE DEF claims
<1> QED BY <1>10, <1>11, <1>13, <1>14, <1>15 DEF ValidatorClaimsExact, Wants, l

-----------------------------------------------------------------------------
(* What the nominated validators answer. *)

AllBonded(r) == \A i \in DOMAIN r.targets : r.targets[i].bonded

\* A nominator that the properties are about.
Asks(r) ==
  /\ ~r.isValidator /\ r.claims = "claimedRewards" /\ r.targets # <<>> /\ AllBonded(r)
  /\ r.hub \/ r.legacy = <<>>

NoOldLists(r) == r.hub \/ \A i \in DOMAIN r.targets : r.targets[i].legacy = <<>>

FirstExposed(r, e) ==
  {i \in DOMAIN r.targets :
     /\ NominatorStatus(r.targets[i], e) # Null
     /\ \A j \in 1..(i - 1) : NominatorStatus(r.targets[j], e) = Null}

OfTheFirst(r, era, s) == \A k \in FirstExposed(r, era) : s = NominatorStatus(r.targets[k], era)

NoneUpTo(r, era, i) == \A j \in 1..i : NominatorStatus(r.targets[j], era) = Null

TargetsAnswered(r, first, st) ==
  \E s \in Statuses : st = Answering(first, s) /\ OfTheFirst(r, first.era, s)

LEMMA TargetsAre ==
  ASSUME NEW eras, NEW r \in ClaimRequests(eras)
  PROVE  /\ Len(r.targets) \in Nat /\ DOMAIN r.targets = 1..Len(r.targets)
         /\ \A i \in 1..Len(r.targets) : r.targets[i].legacy \in Seq(Nat)
         /\ r.targets # <<>> => 1 <= Len(r.targets)
         /\ r.start \in Nat /\ r.depth \in Nat
<1>1. r.targets \in Seq(Stakers(eras)) /\ r.start \in Nat /\ r.depth \in Nat
  BY DEF ClaimRequests
<1>2. Len(r.targets) \in Nat /\ DOMAIN r.targets = 1..Len(r.targets)
  BY <1>1
<1>3. \A i \in 1..Len(r.targets) : r.targets[i].legacy \in Seq(Nat)
  <2> TAKE i \in 1..Len(r.targets)
  <2>1. r.targets[i] \in Stakers(eras)
    BY <1>1
  <2> QED BY <2>1 DEF Stakers
<1>4. r.targets # <<>> => 1 <= Len(r.targets)
  BY <1>1
<1> QED BY <1>1, <1>2, <1>3, <1>4

LEMMA AreAskedInOrder ==
  ASSUME NEW eras, NEW r \in ClaimRequests(eras), NEW era \in Nat,
         NEW rewards \in Seq(EraClaims)
  PROVE  AreAsked(r, era, rewards)
<1>1. \A v \in Stakers(eras) : v.legacy \in Seq(Nat)
  BY DEF Stakers
<1>2. r.targets \in Seq(Stakers(eras))
  BY DEF ClaimRequests
<1> QED BY <1>1, <1>2, AskTargetsStepwise

\* Without old lists the first that was exposed in the era answers, or the last.
LEMMA AskedPlainly ==
  ASSUME NEW eras, NEW r \in ClaimRequests(eras), Asks(r), NoOldLists(r), NEW era \in Nat,
         NEW rewards \in Seq(EraClaims)
  PROVE  TargetsAnswered(r, FirstAsk(era, rewards), AskTargets(r, era, rewards))
<1> DEFINE n == Len(r.targets)
           first == FirstAsk(era, rewards)
           status(i) == NominatorStatus(r.targets[i], era)
<1>1. n \in Nat /\ DOMAIN r.targets = 1..n /\ 1 <= n
  BY TargetsAre DEF Asks
<1>2. AreAsked(r, era, rewards)
  BY AreAskedInOrder
<1>3. PICK a : /\ a[0] = first /\ \A i \in 1..n : a[i] = AskTarget(r, a[i - 1], i)
               /\ AskTargets(r, era, rewards) = a[n]
  BY <1>2 DEF AreAsked, AskedBy, AsksInOrder
<1>4. first.era = era /\ ~first.found
  BY DEF FirstAsk
<1>5. /\ r.claims = "claimedRewards" /\ \A i \in 1..n : r.targets[i].bonded
  BY <1>1 DEF Asks, AllBonded
<1>6. \A i \in 1..n : r.hub \/ r.targets[i].legacy = <<>>
  BY <1>1 DEF NoOldLists
<1> HIDE DEF first, n
<1>7. ASSUME NEW i \in 1..n
      PROVE  AskTarget(r, first, i) = IF status(i) # Null THEN Answering(first, status(i))
                                      ELSE IF i = n THEN Answering(first, "undefined")
                                      ELSE first
  <2>1. Consult(r, first, r.targets[i]) = first
    BY <1>6 DEF Consult
  <2> QED BY <1>4, <1>5, <2>1 DEF AskTarget, Answering, n
<1>8. ASSUME NEW i \in 1..n, NoneUpTo(r, era, i - 1), status(i) # Null
      PROVE  OfTheFirst(r, era, status(i))
  <2> SUFFICES ASSUME NEW k \in FirstExposed(r, era) PROVE k = i
    BY DEF OfTheFirst
  <2>1. /\ k \in 1..n /\ status(k) # Null /\ \A j \in 1..(k - 1) : status(j) = Null
    BY <1>1 DEF FirstExposed
  <2>2. k < i => k \in 1..(i - 1)
    BY <1>1, <2>1
  <2>3. i < k => i \in 1..(k - 1)
    BY <1>1, <2>1
  <2>4. k < i \/ i < k \/ k = i
    BY <1>1, <2>1
  <2> HIDE DEF status
  <2>5. \A j \in 1..(i - 1) : status(j) = Null
    BY <1>8 DEF NoneUpTo, status
  <2> QED BY <1>8, <2>1, <2>2, <2>3, <2>4, <2>5
<1>9. ASSUME NoneUpTo(r, era, n) PROVE OfTheFirst(r, era, "undefined")
  <2> SUFFICES ASSUME NEW k \in FirstExposed(r, era) PROVE FALSE
    BY DEF OfTheFirst
  <2> QED BY <1>1, <1>9 DEF FirstExposed, NoneUpTo
<1> DEFINE good(i) == \/ a[i] = first /\ NoneUpTo(r, era, i) /\ i < n
                      \/ TargetsAnswered(r, first, a[i])
           Good == {i \in Nat : i <= n => good(i)}
<1>10. 0 \in Good
  <2>1. 1..0 = {}
    OBVIOUS
  <2>2. NoneUpTo(r, era, 0)
    BY <2>1 DEF NoneUpTo
  <2> QED BY <1>1, <1>3, <2>2
<1>11. ASSUME NEW i \in Nat, i \in Good PROVE i + 1 \in Good
  <2> SUFFICES ASSUME i + 1 <= n PROVE good(i + 1)
    OBVIOUS
  <2>1. i + 1 \in 1..n /\ (i + 1) - 1 = i /\ i <= n
    BY <1>1
  <2>2. a[i + 1] = AskTarget(r, a[i], i + 1)
    BY <1>3, <2>1
  <2>3. CASE TargetsAnswered(r, first, a[i])
    <3>1. PICK s \in Statuses : a[i] = Answering(first, s)
      BY <2>3 DEF TargetsAnswered
    <3>2. a[i].found
      BY <3>1 DEF Answering, FirstAsk, first
    <3>3. a[i + 1] = a[i]
      BY <2>2, <3>2 DEF AskTarget
    <3> QED BY <2>3, <3>3
  <2>4. CASE a[i] = first /\ NoneUpTo(r, era, i) /\ i < n
    <3>1. a[i + 1] = IF status(i + 1) # Null THEN Answering(first, status(i + 1))
                     ELSE IF i + 1 = n THEN Answering(first, "undefined")
                     ELSE first
      BY <1>7, <2>1, <2>2, <2>4
    <3>2. CASE status(i + 1) # Null
      <4>1. OfTheFirst(r, era, status(i + 1))
        BY <1>8, <2>1, <2>4, <3>2
      <4>2. status(i + 1) \in Statuses
        BY <3>2, StatusIs
      <4> HIDE DEF status
      <4>3. a[i + 1] = Answering(first, status(i + 1))
        BY <3>1, <3>2
      <4>4. TargetsAnswered(r, first, a[i + 1])
        BY <1>4, <4>1, <4>2, <4>3 DEF TargetsAnswered
      <4> QED BY <4>4
    <3>3. CASE status(i + 1) = Null
      <4>1. NoneUpTo(r, era, i + 1)
        <5>1. \A j \in 1..(i + 1) : j \in 1..i \/ j = i + 1
          OBVIOUS
        <5> QED BY <2>4, <3>3, <5>1 DEF NoneUpTo
      <4> HIDE DEF status
      <4>2. CASE i + 1 = n
        <5>1. a[i + 1] = Answering(first, "undefined")
          BY <3>1, <3>3, <4>2
        <5>2. OfTheFirst(r, era, "undefined") /\ "undefined" \in Statuses
          BY <1>9, <4>1, <4>2 DEF Statuses
        <5>3. TargetsAnswered(r, first, a[i + 1])
          BY <1>4, <5>1, <5>2 DEF TargetsAnswered
        <5> QED BY <5>3
      <4>3. CASE i + 1 # n
        <5>1. a[i + 1] = first
          BY <3>1, <3>3, <4>3
        <5>2. i + 1 < n
          BY <1>1, <2>1, <4>3
        <5> QED BY <4>1, <5>1, <5>2
      <4> QED BY <4>2, <4>3
    <3> QED BY <3>2, <3>3
  <2>5. good(i)
    BY <1>11, <2>1
  <2> QED BY <2>3, <2>4, <2>5
<1>12. Nat \subseteq Good
  <2> HIDE DEF Good
  <2> QED BY <1>10, <1>11, SetInduction
<1>13. good(n) /\ ~(n < n)
  BY <1>1, <1>12
<1> QED BY <1>3, <1>13 DEF first

-----------------------------------------------------------------------------
(* With old lists. *)

\* A list that does not rewind leaves the era or moves it to the last one or behind it.
LEMMA ConsultMovesOn ==
  ASSUME NEW r, r.start \in Nat, r.depth \in Nat, NEW v, v.legacy \in Seq(Nat), ~Rewinds(r, v),
         v.legacy # <<>> => Last(v.legacy) < r.start + r.depth, NEW st \in AskStates
  PROVE  LET era == Consult(r, st, v).era
         IN  era = st.era \/ r.start + r.depth <= era + 1
<1> DEFINE asked == Consult(r, st, v)
           after == AfterLegacy(r, v.legacy, st.era, st.rewards)
<1>1. CASE r.hub \/ st.rewards # <<>> \/ v.legacy = <<>>
  BY <1>1 DEF Consult
<1>2. CASE ~(r.hub \/ st.rewards # <<>> \/ v.legacy = <<>>)
  <2>1. Last(v.legacy) \in Nat /\ v.legacy # <<>>
    BY <1>2, LastOf
  <2>2. asked = [st EXCEPT !.era = after.era, !.rewards = after.rewards, !.shared = FALSE]
    BY <1>2 DEF Consult
  <2>3. after.era = IF r.start <= Last(v.legacy) THEN Last(v.legacy) + 1 ELSE st.era
    BY <2>1 DEF AfterLegacy
  <2> HIDE DEF asked, after
  <2>4. asked.era = after.era
    BY <2>2 DEF AskStates
  <2>5. Last(v.legacy) \notin r.start..(r.start + r.depth - 3)
    BY <2>1 DEF Rewinds
  <2> DEFINE last == Last(v.legacy)
  <2> HIDE DEF last
  <2>6. ASSUME r.start <= last, last \in Nat, last \notin r.start..(r.start + r.depth - 3)
        PROVE  r.start + r.depth <= (last + 1) + 1
    BY <2>6
  <2> QED BY <2>1, <2>3, <2>4, <2>5, <2>6 DEF last, asked
<1> QED BY <1>1, <1>2

NoRewinds(r) == \A i \in DOMAIN r.targets : ~Rewinds(r, r.targets[i])

\* The lists of the targets are in the order of their eras, and none is ahead.
ListsInRange(r) ==
  \A i \in DOMAIN r.targets :
    r.targets[i].legacy # <<>> => Last(r.targets[i].legacy) < r.start + r.depth

LEMMA AskedMovingOn ==
  ASSUME NEW eras, NEW r \in ClaimRequests(eras), ListsInRange(r), NoRewinds(r),
         NEW era \in Nat, NEW rewards \in Seq(EraClaims)
  PROVE  LET asked == AskTargets(r, era, rewards)
         IN  asked.era = era \/ r.start + r.depth <= asked.era + 1
<1> DEFINE n == Len(r.targets)
           T == {st \in AskStates : st.era = era \/ r.start + r.depth <= st.era + 1}
<1>1. /\ n \in Nat /\ DOMAIN r.targets = 1..n /\ r.start \in Nat /\ r.depth \in Nat
      /\ \A i \in 1..n : r.targets[i].legacy \in Seq(Nat)
  BY TargetsAre
<1>2. AreAsked(r, era, rewards)
  BY AreAskedInOrder
<1>3. PICK a : /\ a[0] = FirstAsk(era, rewards)
               /\ \A i \in 1..n : a[i] = AskTarget(r, a[i - 1], i)
               /\ AskTargets(r, era, rewards) = a[n]
  BY <1>2 DEF AreAsked, AskedBy, AsksInOrder
<1>4. a[0] \in T
  BY <1>3 DEF FirstAsk, AskStates
<1> HIDE DEF n
<1>5. ASSUME NEW i \in 1..n, NEW st \in T PROVE AskTarget(r, st, i) \in T
  <2> DEFINE v == r.targets[i]
             asked == Consult(r, st, v)
  <2>1. st \in AskStates
    OBVIOUS
  <2>2. ~Rewinds(r, v) /\ (v.legacy # <<>> => Last(v.legacy) < r.start + r.depth)
    BY <1>1 DEF NoRewinds, ListsInRange
  <2>3. asked.era = st.era \/ r.start + r.depth <= asked.era + 1
    BY <1>1, <2>1, <2>2, ConsultMovesOn
  <2>4. AskTarget(r, st, i).era \in {st.era, asked.era}
    <3>1. \A s : Answering(asked, s).era = asked.era
      <4>1. asked \in AskStates
        BY <1>1, <2>1, ConsultKeeps DEF ConsultIs
      <4> HIDE DEF asked
      <4> QED BY <4>1 DEF Answering, AskStates
    <3>2. \/ AskTarget(r, st, i) = st
          \/ AskTarget(r, st, i) = asked
          \/ \E s : AskTarget(r, st, i) = Answering(asked, s)
      BY DEF AskTarget, Answering
    <3> HIDE DEF asked
    <3> QED BY <3>1, <3>2
  <2>5. AskTarget(r, st, i) \in AskStates
    BY <1>1, <2>1, AskTargetIs
  <2> HIDE DEF asked
  <2> QED BY <2>3, <2>4, <2>5
<1> HIDE DEF T
<1>6. Preserved(a, T, n)
  BY <1>3, <1>4, <1>5 DEF Preserved
<1>7. a[n] \in T
  <2>1. n \in 0..n
    BY <1>1
  <2> QED BY <1>1, <1>6, <2>1, PreservedStays DEF StaysIn
<1> QED BY <1>3, <1>7 DEF T

\* Once there is an answer, no old list is consulted.
LEMMA AnsweredStays ==
  ASSUME NEW r, NEW st \in AskStates, st.rewards # <<>>, NEW i
  PROVE  LET later == AskTarget(r, st, i)
         IN  later.era = st.era /\ later.shared = st.shared /\ later.rewards # <<>>
<1>1. Consult(r, st, r.targets[i]) = st
  BY DEF Consult
<1> DEFINE later == AskTarget(r, st, i)
<1>2. later = st \/ \E s : later = Answering(st, s)
  BY <1>1 DEF AskTarget, Answering
<1>3. ASSUME NEW s
      PROVE  LET more == Answering(st, s)
             IN  more.era = st.era /\ more.shared = st.shared /\ more.rewards # <<>>
  <2> DEFINE claim == Claim(st.era, s)
  <2> HIDE DEF claim
  <2>1. st.rewards \in Seq(EraClaims)
    BY DEF AskStates
  <2>2. Append(st.rewards, claim) # <<>>
    BY <2>1
  <2> QED BY <2>2 DEF Answering, AskStates, claim
<1> HIDE DEF later
<1> QED BY <1>2, <1>3 DEF later

LEMMA SameAsk ==
  ASSUME NEW s \in AskStates, NEW t \in AskStates, s.era = t.era, s.rewards = t.rewards,
         s.shared = t.shared, s.found = t.found
  PROVE  s = t
BY DEF AskStates

\* The old list of the first target decides, whatever era it is asked of.
Again(r, asked) ==
  asked.era = Last(r.targets[1].legacy) + 1 /\ ~asked.shared

LEMMA AskedAgain ==
  ASSUME NEW eras, NEW r \in ClaimRequests(eras), Asks(r), ~r.hub, Rewinds(r, r.targets[1]),
         NEW era \in Nat, NEW other \in Nat
  PROVE  /\ AskTargets(r, era, <<>>) = AskTargets(r, other, <<>>)
         /\ Again(r, AskTargets(r, era, <<>>))
<1> DEFINE n == Len(r.targets)
           old == r.targets[1].legacy
<1>1. /\ n \in Nat /\ DOMAIN r.targets = 1..n /\ 1 <= n /\ r.start \in Nat /\ r.depth \in Nat
      /\ \A i \in 1..n : r.targets[i].legacy \in Seq(Nat)
  BY TargetsAre DEF Asks
<1>2. AreAsked(r, era, <<>>) /\ AreAsked(r, other, <<>>)
  <2>1. <<>> \in Seq(EraClaims)
    OBVIOUS
  <2> QED BY <2>1, AreAskedInOrder
<1>3. PICK a : /\ a[0] = FirstAsk(era, <<>>)
               /\ \A i \in 1..n : a[i] = AskTarget(r, a[i - 1], i)
               /\ AskTargets(r, era, <<>>) = a[n]
               /\ a \in [0..n -> AskStates]
  BY <1>2 DEF AreAsked, AskedBy, AsksInOrder
<1>4. PICK b : /\ b[0] = FirstAsk(other, <<>>)
               /\ \A i \in 1..n : b[i] = AskTarget(r, b[i - 1], i)
               /\ AskTargets(r, other, <<>>) = b[n]
  BY <1>2 DEF AreAsked, AskedBy, AsksInOrder
<1>5. /\ old \in Seq(Nat) /\ old # <<>> /\ r.start <= Last(old) /\ Last(old) \in Nat
      /\ r.targets[1].bonded /\ r.claims = "claimedRewards"
  <2>1. old \in Seq(Nat) /\ old # <<>>
    BY <1>1 DEF Rewinds
  <2>2. Last(old) \in Nat
    BY <2>1, LastOf
  <2>3. r.start <= Last(old)
    BY <1>1, <2>2 DEF Rewinds
  <2> QED BY <1>1, <2>1, <2>2, <2>3 DEF Asks, AllBonded
<1> HIDE DEF n
<1>6. LegacyClaims(old) # <<>>
  <2>1. Len(LegacyClaims(old)) = Len(old) /\ LegacyClaims(old) \in Seq(EraClaims)
    BY <1>5, LegacyClaimsAre
  <2>2. Len(old) # 0
    BY <1>5
  <2>3. Len(<<>>) = 0
    OBVIOUS
  <2> QED BY <2>1, <2>2, <2>3
<1> DEFINE moved == [era |-> Last(old) + 1, rewards |-> LegacyClaims(old), shared |-> FALSE,
                     found |-> FALSE]
<1>7. ASSUME NEW e \in Nat PROVE Consult(r, FirstAsk(e, <<>>), r.targets[1]) = moved
  <2> DEFINE st == FirstAsk(e, <<>>)
             after == AfterLegacy(r, old, e, <<>>)
             last == Last(old)
             claims == LegacyClaims(old)
  <2>1. after.era = last + 1 /\ after.rewards = claims
    BY <1>5 DEF AfterLegacy
  <2>2. st.era = e /\ st.rewards = <<>>
    BY DEF FirstAsk
  <2> HIDE DEF st
  <2>3. Consult(r, st, r.targets[1])
          = [st EXCEPT !.era = after.era, !.rewards = after.rewards, !.shared = FALSE]
    BY <1>5, <2>2 DEF Consult
  <2> HIDE DEF after, last, claims
  <2> DEFINE later == [st EXCEPT !.era = after.era, !.rewards = after.rewards, !.shared = FALSE]
             goal == [era |-> last + 1, rewards |-> claims, shared |-> FALSE, found |-> FALSE]
  <2>4. last + 1 \in Nat /\ claims \in Seq(EraClaims)
    BY <1>5, LegacyClaimsAre DEF last, claims
  <2>5. st \in AskStates /\ st.found = FALSE
    BY DEF st, FirstAsk, AskStates
  <2>6. later \in AskStates
    BY <2>1, <2>4, <2>5 DEF AskStates
  <2>7. /\ later.era = last + 1 /\ later.rewards = claims /\ later.shared = FALSE
        /\ later.found = FALSE
    BY <2>1, <2>5 DEF AskStates
  <2>8. goal \in AskStates
    BY <2>4 DEF AskStates
  <2>9. /\ goal.era = last + 1 /\ goal.rewards = claims /\ goal.shared = FALSE
        /\ goal.found = FALSE
    OBVIOUS
  <2>10. later = goal
    <3> HIDE DEF later, goal
    <3> QED BY <2>6, <2>7, <2>8, <2>9, SameAsk
  <2> QED BY <2>3, <2>10 DEF st, last, claims
<1>8. a[1] = b[1] /\ a[1].era = moved.era /\ a[1].shared = FALSE /\ a[1].rewards # <<>>
  <2>1. 1 \in 1..n /\ 1 - 1 = 0
    BY <1>1
  <2>2. a[1] = AskTarget(r, FirstAsk(era, <<>>), 1) /\ b[1] = AskTarget(r, FirstAsk(other, <<>>), 1)
    BY <1>3, <1>4, <2>1
  <2> DEFINE status == NominatorStatus(r.targets[1], Last(old) + 1)
             reply == IF status # Null THEN Answering(moved, status)
                      ELSE IF 1 = n THEN Answering(moved, "undefined")
                      ELSE moved
  <2>3. ASSUME NEW e \in Nat PROVE AskTarget(r, FirstAsk(e, <<>>), 1) = reply
    <3>1. Consult(r, FirstAsk(e, <<>>), r.targets[1]) = moved
      BY <1>7
    <3>2. moved.era = Last(old) + 1 /\ ~FirstAsk(e, <<>>).found
      BY DEF FirstAsk
    <3> HIDE DEF moved
    <3> QED BY <1>5, <3>1, <3>2 DEF AskTarget, Answering, n
  <2>4. \A s : /\ Answering(moved, s).era = moved.era /\ Answering(moved, s).shared = FALSE
               /\ Answering(moved, s).rewards # <<>>
    <3> TAKE s
    <3> DEFINE claim == Claim(moved.era, s)
               claims == LegacyClaims(old)
    <3> HIDE DEF claim
    <3>1. claims \in Seq(EraClaims)
      BY <1>5, LegacyClaimsAre
    <3> HIDE DEF claims
    <3>2. Append(claims, claim) # <<>>
      BY <3>1
    <3> QED BY <3>2 DEF Answering, claim, claims
  <2>5. moved.shared = FALSE /\ moved.rewards # <<>>
    BY <1>6
  <2>6. a[1] = reply /\ b[1] = reply
    BY <2>2, <2>3
  <2> HIDE DEF moved, status
  <2> QED BY <2>4, <2>5, <2>6
<1> DEFINE good(i) == /\ a[i] = b[i] /\ a[i].era = moved.era /\ a[i].shared = FALSE
                      /\ a[i].rewards # <<>>
           Good == {i \in Nat : 1 <= i /\ i <= n => good(i)}
<1> HIDE DEF moved, good
<1>9. 0 \in Good
  OBVIOUS
<1>10. ASSUME NEW i \in Nat, i \in Good PROVE i + 1 \in Good
  <2> SUFFICES ASSUME i + 1 <= n PROVE good(i + 1)
    OBVIOUS
  <2>1. CASE i = 0
    BY <1>8, <2>1 DEF good
  <2>2. CASE i # 0
    <3>1. i + 1 \in 1..n /\ (i + 1) - 1 = i /\ 1 <= i /\ i <= n /\ i \in 0..n
      BY <1>1, <2>2
    <3>2. good(i)
      BY <1>10, <3>1
    <3>3. a[i + 1] = AskTarget(r, a[i], i + 1) /\ b[i + 1] = AskTarget(r, b[i], i + 1)
      BY <1>3, <1>4, <3>1
    <3>4. a[i] \in AskStates
      BY <1>3, <3>1
    <3>5. /\ a[i + 1].era = a[i].era /\ a[i + 1].shared = a[i].shared
          /\ a[i + 1].rewards # <<>>
      BY <3>2, <3>3, <3>4, AnsweredStays DEF good
    <3> QED BY <3>2, <3>3, <3>5 DEF good
  <2> QED BY <2>1, <2>2
<1>11. Nat \subseteq Good
  <2> HIDE DEF Good
  <2> QED BY <1>9, <1>10, SetInduction
<1>12. good(n)
  BY <1>1, <1>11
<1>13. moved.era = Last(old) + 1
  BY DEF moved
<1> QED BY <1>3, <1>4, <1>12, <1>13 DEF Again, good

-----------------------------------------------------------------------------
(* A nominator's loop. *)

LoopOpen(r, l) == l \in LoopStates /\ ~l.stopped /\ (r.hub => l.checked)

Mine(r, l) == IF r.hub THEN l.nom ELSE l.rewards

\* A round takes over what the nominated validators have answered.
Went(r, l, later, asked) ==
  /\ LoopOpen(r, later) /\ later.checked /\ later.era = asked.era + 1 /\ later.nom = asked.rewards
  /\ later.rewards = IF asked.shared /\ ~r.hub THEN asked.rewards ELSE l.rewards

LEMMA NominatorWent ==
  ASSUME NEW eras, NEW r \in ClaimRequests(eras), Asks(r), NEW l, LoopOpen(r, l), ~Ended(r, l)
  PROVE  Went(r, l, Round(r, l), AskTargets(r, l.era, Mine(r, l)))
<1> DEFINE checked == OldCalls(r, l)
           asked == AskTargets(r, l.era, Mine(r, l))
           kept == IF asked.shared /\ ~r.hub THEN asked.rewards ELSE l.rewards
           later == Round(r, l)
<1>1. l \in LoopStates /\ ~l.stopped /\ r.hub \in BOOLEAN /\ r.legacy \in Seq(Nat)
  BY DEF LoopOpen, ClaimRequests
<1>2. /\ checked \in LoopStates /\ ~checked.stopped /\ checked.checked
      /\ checked.era = l.era /\ checked.rewards = l.rewards /\ checked.nom = l.nom
  <2>1. CASE l.checked
    <3>1. checked = l
      BY <2>1 DEF OldCalls
    <3> HIDE DEF checked
    <3> QED BY <1>1, <2>1, <3>1
  <2>2. CASE ~l.checked
    <3>1. r.legacy = <<>>
      BY <2>2 DEF LoopOpen, Asks
    <3> DEFINE after == AfterLegacy(r, r.legacy, l.era, l.rewards)
    <3>2. after.era = l.era /\ after.rewards = l.rewards
      BY <3>1 DEF AfterLegacy
    <3>3. checked = [l EXCEPT !.checked = TRUE, !.era = after.era, !.rewards = after.rewards]
      BY <2>2 DEF OldCalls
    <3>4. checked \in LoopStates /\ checked.stopped = l.stopped
      BY <1>1, OldCallsIs
    <3> HIDE DEF checked, after
    <3>5. checked.checked /\ checked.nom = l.nom
      BY <1>1, <3>3 DEF LoopStates
    <3>6. checked.era = after.era /\ checked.rewards = after.rewards
      BY <1>1, <3>3 DEF LoopStates
    <3> QED BY <1>1, <3>2, <3>4, <3>5, <3>6
  <2> QED BY <2>1, <2>2
<1>3. later = NominatorRound(r, checked)
  <2>1. "claimedRewards" # Null
    BY StorageAssumption DEF ClaimsStorages
  <2> HIDE DEF later, checked
  <2> QED BY <2>1 DEF Round, Asks, Answerable, later, checked
<1> HIDE DEF checked
<1>4. AskTargets(r, checked.era, IF r.hub THEN checked.nom ELSE checked.rewards) = asked
  BY <1>2 DEF Mine
<1> HIDE DEF asked
<1>5. later = [checked EXCEPT !.era = asked.era + 1, !.nom = asked.rewards, !.rewards = kept]
  <2> DEFINE mine == IF asked.shared /\ ~r.hub THEN asked.rewards ELSE checked.rewards
  <2>1. later = [checked EXCEPT !.era = asked.era + 1, !.nom = asked.rewards, !.rewards = mine]
    BY <1>2, <1>3, <1>4 DEF NominatorRound, LoopStates
  <2>2. mine = kept
    BY <1>2
  <2> HIDE DEF later, mine, kept
  <2> QED BY <2>1, <2>2
<1> HIDE DEF later
<1>6. /\ later.checked /\ ~later.stopped /\ later.era = asked.era + 1 /\ later.nom = asked.rewards
      /\ later.rewards = kept
  BY <1>2, <1>5 DEF LoopStates
<1>7. later \in LoopStates
  BY <1>1, RoundIs DEF later
<1> QED BY <1>6, <1>7 DEF Went, LoopOpen, asked, later

\* Without old lists: one claim for each era so far, of the validator it falls to.
ToldOfAll(r, l, m) ==
  /\ LoopOpen(r, l) /\ l.era = r.start + m /\ (~r.hub => l.rewards = l.nom) /\ Len(l.nom) = m
  /\ \A i \in 1..m : l.nom[i].era = r.start + (i - 1) /\ OfTheFirst(r, l.nom[i].era, l.nom[i].status)

LEMMA ToldOfOneMore ==
  ASSUME NEW eras, NEW r \in ClaimRequests(eras), Asks(r), NoOldLists(r),
         NEW m \in Nat, m < r.depth, NEW l, ToldOfAll(r, l, m)
  PROVE  ToldOfAll(r, Round(r, l), m + 1)
<1> DEFINE asked == AskTargets(r, l.era, Mine(r, l))
           later == Round(r, l)
           first == FirstAsk(l.era, l.nom)
<1>1. /\ r.start \in Nat /\ r.depth \in Nat /\ l \in LoopStates /\ ~l.stopped
      /\ l.era = r.start + m /\ Len(l.nom) = m /\ (~r.hub => l.rewards = l.nom)
      /\ \A i \in 1..m : l.nom[i].era = r.start + (i - 1)
                         /\ OfTheFirst(r, l.nom[i].era, l.nom[i].status)
  BY DEF ToldOfAll, LoopOpen, ClaimRequests
<1>2. l.era \in Nat /\ l.nom \in Seq(EraClaims) /\ l.era < r.start + r.depth
  BY <1>1 DEF LoopStates
<1>3. ~Ended(r, l)
  BY <1>1, <1>2 DEF Ended, InRange
<1>4. Went(r, l, later, asked)
  BY <1>3, NominatorWent DEF ToldOfAll
<1>5. Mine(r, l) = l.nom
  BY <1>1 DEF Mine
<1>6. TargetsAnswered(r, first, asked)
  BY <1>2, <1>5, AskedPlainly
<1> HIDE DEF asked
<1>7. PICK s \in Statuses : asked = Answering(first, s) /\ OfTheFirst(r, first.era, s)
  BY <1>6 DEF TargetsAnswered
<1> DEFINE claim == Claim(l.era, s)
           more == Append(l.nom, claim)
<1>8. claim \in EraClaims /\ claim.era = l.era /\ claim.status = s
  BY <1>2, ClaimIs DEF Claim
<1> HIDE DEF claim
<1>9. first \in AskStates /\ first.era = l.era /\ first.rewards = l.nom /\ first.shared = TRUE
  BY <1>2 DEF FirstAsk, AskStates
<1>10. asked.era = l.era /\ asked.rewards = more /\ asked.shared = TRUE
  <2> HIDE DEF first
  <2>1. asked = [first EXCEPT !.rewards = Append(first.rewards, Claim(first.era, s)), !.found = TRUE]
    BY <1>7, <1>9 DEF Answering, AskStates
  <2>2. asked.era = first.era /\ asked.shared = first.shared
        /\ asked.rewards = Append(first.rewards, Claim(first.era, s))
    BY <1>9, <2>1 DEF AskStates
  <2> QED BY <1>9, <2>2 DEF claim
<1>11. /\ Len(more) = m + 1 /\ more[m + 1] = claim /\ \A i \in 1..m : more[i] = l.nom[i]
  BY <1>1, <1>2, <1>8, AppendedIs
<1>12. OfTheFirst(r, l.era, s)
  BY <1>7, <1>9
<1> HIDE DEF more, first, later
<1>13. /\ LoopOpen(r, later) /\ later.era = l.era + 1 /\ later.nom = more
       /\ (~r.hub => later.rewards = more)
  BY <1>4, <1>10 DEF Went
<1>14. later.era = r.start + (m + 1)
  BY <1>1, <1>13
<1>15. ASSUME NEW i \in 1..(m + 1)
       PROVE  more[i].era = r.start + (i - 1) /\ OfTheFirst(r, more[i].era, more[i].status)
  <2>1. CASE i = m + 1
    <3>1. r.start + (i - 1) = r.start + m
      BY <2>1
    <3> QED BY <1>1, <1>8, <1>11, <1>12, <2>1, <3>1
  <2>2. CASE i # m + 1
    <3>1. i \in 1..m
      BY <2>2
    <3> QED BY <1>1, <1>11, <3>1
  <2> QED BY <2>1, <2>2
<1>16. ToldOfAll(r, later, m + 1)
  BY <1>11, <1>13, <1>14, <1>15 DEF ToldOfAll
<1> QED BY <1>16 DEF later

\* The rounds one after the other, as the two loops below take them.
ByRounds(p, r) ==
  /\ p[0] = FirstRound(r) /\ \A m \in 1..r.depth : p[m] = Round(r, p[m - 1])
  /\ Rounds(r) = p[r.depth]

LEMMA LoopStarts ==
  ASSUME NEW eras, NEW r \in ClaimRequests(eras), Asks(r)
  PROVE  /\ LoopOpen(r, FirstRound(r)) /\ FirstRound(r).era = r.start
         /\ FirstRound(r).rewards = <<>> /\ FirstRound(r).nom = <<>>
<1>1. TellsSoFar(r, FirstRound(r))
  BY FirstTells
<1>2. FirstRound(r).checked = r.hub
  BY DEF FirstRound
<1>3. FirstRound(r).era = r.start /\ FirstRound(r).rewards = <<>> /\ FirstRound(r).nom = <<>>
  BY DEF FirstRound
<1> QED BY <1>1, <1>2, <1>3 DEF TellsSoFar, LoopOpen

LEMMA NominatorToldAll ==
  ASSUME NEW eras, NEW r \in ClaimRequests(eras), Asks(r), NoOldLists(r)
  PROVE  ToldOfAll(r, Rounds(r), r.depth)
<1> DEFINE n == r.depth
<1>1. n \in Nat /\ r.start \in Nat
  BY DEF ClaimRequests
<1>2. PICK p : ByRounds(p, r)
  BY RoundsStepwise DEF HasRounds, GoneBy, RoundsInOrder, ByRounds
<1> DEFINE Good == {m \in Nat : m <= n => ToldOfAll(r, p[m], m)}
<1>3. 0 \in Good
  <2> DEFINE first == FirstRound(r)
  <2>1. LoopOpen(r, first) /\ first.era = r.start /\ first.rewards = <<>> /\ first.nom = <<>>
    BY LoopStarts
  <2> HIDE DEF first
  <2>2. p[0] = first
    BY <1>2 DEF ByRounds, first
  <2>3. first.era = r.start + 0 /\ Len(first.nom) = 0 /\ 1..0 = {}
    BY <1>1, <2>1
  <2>4. ToldOfAll(r, first, 0)
    BY <2>1, <2>3 DEF ToldOfAll
  <2> QED BY <2>2, <2>4
<1>4. ASSUME NEW m \in Nat, m \in Good PROVE m + 1 \in Good
  <2> SUFFICES ASSUME m + 1 <= n PROVE ToldOfAll(r, p[m + 1], m + 1)
    OBVIOUS
  <2>1. m + 1 \in 1..n /\ (m + 1) - 1 = m /\ m < n /\ m <= n
    BY <1>1
  <2>2. p[m + 1] = Round(r, p[m])
    BY <1>2, <2>1 DEF ByRounds
  <2>3. ToldOfAll(r, p[m], m)
    BY <1>4, <2>1
  <2> QED BY <2>1, <2>2, <2>3, ToldOfOneMore
<1>5. Nat \subseteq Good
  <2> HIDE DEF Good
  <2> QED BY <1>3, <1>4, SetInduction
<1>6. ToldOfAll(r, p[n], n)
  BY <1>1, <1>5
<1> QED BY <1>2, <1>6 DEF ByRounds

\* Told of every era of the range once, in order.
LEMMA AllToldOnce ==
  ASSUME NEW r, r.start \in Nat, r.depth \in Nat, NEW l, ToldOfAll(r, l, r.depth)
  PROVE  /\ Ended(r, l) /\ Once(l.nom) /\ ErasOf(l.nom) = r.start..(r.start + r.depth - 1)
         /\ \A i \in DOMAIN l.nom : OfTheFirst(r, l.nom[i].era, l.nom[i].status)
<1> DEFINE n == r.depth
           claims == l.nom
<1>1. /\ l \in LoopStates /\ l.era = r.start + n /\ Len(claims) = n /\ n \in Nat
      /\ \A i \in 1..n : claims[i].era = r.start + (i - 1)
                         /\ OfTheFirst(r, claims[i].era, claims[i].status)
  BY DEF ToldOfAll, LoopOpen
<1>2. Ended(r, l)
  <2>1. ~(l.era < r.start + r.depth)
    BY <1>1
  <2> QED BY <2>1 DEF Ended, InRange
<1>3. claims \in Seq(EraClaims)
  BY <1>1 DEF LoopStates
<1>4. DOMAIN claims = 1..n
  BY <1>1, <1>3
<1>5. InOrder(claims, r.start + n)
  <2> HIDE DEF claims, n
  <2>1. ASSUME NEW i \in 1..n, NEW j \in 1..n, i < j PROVE claims[i].era < claims[j].era
    <3>1. r.start + (i - 1) < r.start + (j - 1)
      BY <1>1, <2>1
    <3> QED BY <1>1, <3>1
  <2>2. ASSUME NEW i \in 1..n PROVE claims[i].era < r.start + n
    <3>1. r.start + (i - 1) < r.start + n
      BY <1>1
    <3> QED BY <1>1, <3>1
  <2> QED BY <1>1, <2>1, <2>2 DEF InOrder
<1>6. Once(claims)
  BY <1>3, <1>5, OrderedOnce
<1>7. ErasOf(claims) = {claims[i].era : i \in 1..n}
  BY <1>4 DEF ErasOf
<1> HIDE DEF claims, n
<1>8. ASSUME NEW e \in r.start..(r.start + n - 1) PROVE e \in {claims[i].era : i \in 1..n}
  <2> DEFINE start == r.start
  <2> HIDE DEF start
  <2>1. (e - start) + 1 \in 1..n /\ start + (((e - start) + 1) - 1) = e
    <3>1. start \in Nat /\ n \in Nat /\ e \in start..(start + n - 1)
      BY <1>1 DEF start
    <3> QED BY <3>1
  <2>2. claims[(e - start) + 1].era = e
    BY <1>1, <2>1 DEF start
  <2> QED BY <2>1, <2>2
<1>9. ASSUME NEW i \in 1..n PROVE claims[i].era \in r.start..(r.start + n - 1)
  <2>1. r.start + (i - 1) \in r.start..(r.start + n - 1)
    BY <1>1
  <2> QED BY <1>1, <2>1
<1>10. ErasOf(claims) = r.start..(r.start + n - 1)
  BY <1>7, <1>8, <1>9
<1> QED BY <1>1, <1>2, <1>4, <1>6, <1>10 DEF claims, n

\* Without a list that rewinds, each round moves on or is the last.
LEMMA NominatorEnds ==
  ASSUME NEW eras, NEW r \in ClaimRequests(eras), Asks(r), ListsInRange(r), NoRewinds(r)
  PROVE  Ended(r, Rounds(r))
<1> DEFINE n == r.depth
<1>1. n \in Nat /\ r.start \in Nat
  BY DEF ClaimRequests
<1>2. PICK p : ByRounds(p, r)
  BY RoundsStepwise DEF HasRounds, GoneBy, RoundsInOrder, ByRounds
<1> DEFINE good(m) == LoopOpen(r, p[m]) /\ FarEnough(r, p[m], m)
           Good == {m \in Nat : m <= n => good(m)}
<1>3. 0 \in Good
  <2>1. LoopOpen(r, p[0]) /\ p[0].era = r.start
    BY <1>2, LoopStarts DEF ByRounds
  <2>2. FarEnough(r, p[0], 0)
    BY <1>1, <2>1 DEF FarEnough
  <2> QED BY <2>1, <2>2
<1>4. ASSUME NEW m \in Nat, m \in Good PROVE m + 1 \in Good
  <2> SUFFICES ASSUME m + 1 <= n PROVE good(m + 1)
    OBVIOUS
  <2> DEFINE l == p[m]
             later == p[m + 1]
             asked == AskTargets(r, l.era, Mine(r, l))
  <2>1. m + 1 \in 1..n /\ (m + 1) - 1 = m /\ m <= n
    BY <1>1
  <2>2. later = Round(r, l)
    BY <1>2, <2>1 DEF ByRounds
  <2>3. LoopOpen(r, l) /\ FarEnough(r, l, m)
    BY <1>4, <2>1
  <2>4. l.era \in Nat /\ Mine(r, l) \in Seq(EraClaims)
    BY <2>3 DEF LoopOpen, LoopStates, Mine
  <2>5. CASE Ended(r, l)
    <3>1. later = l
      BY <2>2, <2>5 DEF Round
    <3> QED BY <2>3, <2>5, <3>1 DEF FarEnough
  <2>6. CASE ~Ended(r, l)
    <3>1. Went(r, l, later, asked)
      BY <2>2, <2>3, <2>6, NominatorWent
    <3>2. asked.era = l.era \/ r.start + r.depth <= asked.era + 1
      BY <2>4, AskedMovingOn
    <3> HIDE DEF asked, later, l
    <3>3. LoopOpen(r, later) /\ later.era = asked.era + 1
      BY <3>1 DEF Went
    <3>4. r.start + m <= l.era
      BY <2>3, <2>6 DEF FarEnough
    <3>5. later.era \in Nat
      BY <3>3 DEF LoopOpen, LoopStates
    <3>6. CASE asked.era = l.era
      <4>1. r.start + (m + 1) <= later.era
        BY <1>1, <2>4, <3>3, <3>4, <3>6
      <4> QED BY <3>3, <4>1 DEF FarEnough, later
    <3>7. CASE r.start + r.depth <= asked.era + 1
      <4>1. ~(later.era < r.start + r.depth)
        BY <1>1, <3>3, <3>5, <3>7
      <4> QED BY <3>3, <4>1 DEF FarEnough, Ended, InRange, later
    <3> QED BY <3>2, <3>6, <3>7
  <2> QED BY <2>5, <2>6
<1>5. Nat \subseteq Good
  <2> HIDE DEF Good
  <2> QED BY <1>3, <1>4, SetInduction
<1> DEFINE l == Rounds(r)
<1>6. LoopOpen(r, l) /\ FarEnough(r, l, n)
  BY <1>1, <1>2, <1>5 DEF ByRounds
<1> HIDE DEF l
<1>7. l.era \in Nat
  BY <1>6 DEF LoopOpen, LoopStates
<1>8. r.start + n <= l.era => ~(l.era < r.start + r.depth)
  BY <1>1, <1>7
<1> QED BY <1>6, <1>8 DEF FarEnough, Ended, InRange, l

\* The first target's list rewinds: every round ends in the same state.
Stuck(r, l) ==
  /\ LoopOpen(r, l) /\ l.rewards = <<>> /\ ~Ended(r, l)

LEMMA StuckAgain ==
  ASSUME NEW eras, NEW r \in ClaimRequests(eras), Asks(r), ~r.hub, Rewinds(r, r.targets[1]),
         NEW l, Stuck(r, l), NEW other, Stuck(r, other)
  PROVE  Stuck(r, Round(r, l)) /\ Round(r, l) = Round(r, other)
<1> DEFINE asked == AskTargets(r, l.era, <<>>)
           later == Round(r, l)
           same == Round(r, other)
<1>1. /\ l.era \in Nat /\ other.era \in Nat /\ l.rewards = <<>> /\ other.rewards = <<>>
      /\ r.start \in Nat /\ r.depth \in Nat
  BY DEF Stuck, LoopOpen, LoopStates, ClaimRequests
<1>2. Mine(r, l) = <<>> /\ Mine(r, other) = <<>>
  BY <1>1 DEF Mine
<1>3. Went(r, l, later, asked)
  BY <1>2, NominatorWent DEF Stuck
<1>4. Went(r, other, same, AskTargets(r, other.era, <<>>))
  BY <1>2, NominatorWent DEF Stuck
<1>5. asked = AskTargets(r, other.era, <<>>) /\ Again(r, asked)
  BY <1>1, AskedAgain
<1> HIDE DEF asked
<1>6. Went(r, other, same, asked)
  BY <1>4, <1>5
<1> HIDE DEF later, same
<1>7. ~asked.shared /\ asked.era = Last(r.targets[1].legacy) + 1
  BY <1>5 DEF Again
<1>8. /\ LoopOpen(r, later) /\ later.checked /\ later.era = asked.era + 1
      /\ later.nom = asked.rewards /\ later.rewards = <<>>
  BY <1>1, <1>3, <1>7 DEF Went
<1>9. /\ LoopOpen(r, same) /\ same.checked /\ same.era = asked.era + 1
      /\ same.nom = asked.rewards /\ same.rewards = <<>>
  BY <1>1, <1>6, <1>7 DEF Went
<1>10. later = same
  <2>1. ASSUME NEW a \in LoopStates, NEW b \in LoopStates, a.era = b.era,
               a.checked = b.checked, a.rewards = b.rewards, a.nom = b.nom,
               a.stopped = b.stopped
        PROVE  a = b
    BY <2>1 DEF LoopStates
  <2>2. later \in LoopStates /\ same \in LoopStates /\ ~later.stopped /\ ~same.stopped
    BY <1>8, <1>9 DEF LoopOpen
  <2>3. later.stopped = same.stopped /\ later.checked = same.checked
    BY <1>8, <1>9, <2>2 DEF LoopStates
  <2> QED BY <1>8, <1>9, <2>1, <2>2, <2>3
<1>11. InRange(r, later.era)
  <2> DEFINE last == Last(r.targets[1].legacy)
  <2>1. last \in r.start..(r.start + r.depth - 3)
    BY DEF Rewinds
  <2> HIDE DEF last
  <2>2. (last + 1) + 1 < r.start + r.depth
    BY <1>1, <2>1
  <2>3. later.era = (last + 1) + 1
    BY <1>7, <1>8 DEF last
  <2> QED BY <2>2, <2>3 DEF InRange
<1>12. Stuck(r, later)
  BY <1>8, <1>11 DEF Stuck, Ended, LoopOpen
<1> QED BY <1>10, <1>12 DEF later, same

\* Where the old list of the first nominated validator ends two eras or more before
\* the range, the relay chain's loop over the eras comes to a round that changes
\* nothing without having ended: it never ends, however many rounds it is given
\* (fetchAccountStakingInfo, fetchErasStatusForNominator).
THEOREM RewindsForEver ==
  ASSUME NEW eras, NEW r \in ClaimRequests(eras), Asks(r), ~r.hub, Rewinds(r, r.targets[1])
  PROVE  ~Ended(r, Rounds(r)) /\ Round(r, Rounds(r)) = Rounds(r)
<1> DEFINE n == r.depth
           first == FirstRound(r)
<1>1. n \in Nat /\ r.start \in Nat /\ 3 <= n
  <2>1. n \in Nat /\ r.start \in Nat
    BY DEF ClaimRequests
  <2> DEFINE last == Last(r.targets[1].legacy)
  <2>2. last \in r.start..(r.start + n - 3)
    BY DEF Rewinds
  <2> HIDE DEF last, n
  <2> QED BY <2>1, <2>2
<1>2. PICK p : ByRounds(p, r)
  BY RoundsStepwise DEF HasRounds, GoneBy, RoundsInOrder, ByRounds
<1>3. Stuck(r, first)
  <2>1. LoopOpen(r, first) /\ first.era = r.start /\ first.rewards = <<>>
    BY LoopStarts
  <2> HIDE DEF first
  <2>2. r.start < r.start + r.depth
    BY <1>1
  <2> QED BY <2>1, <2>2 DEF Stuck, LoopOpen, Ended, InRange
<1> DEFINE rest == Round(r, first)
           Good == {m \in Nat : m + 1 <= n => p[m + 1] = rest}
<1>4. Stuck(r, rest) /\ Round(r, rest) = rest
  <2>1. Stuck(r, rest)
    BY <1>3, StuckAgain
  <2> QED BY <1>3, <2>1, StuckAgain
<1> HIDE DEF rest
<1>5. 0 \in Good
  <2>1. 0 + 1 = 1 /\ 1 \in 1..n /\ 1 - 1 = 0
    BY <1>1
  <2> QED BY <1>2, <2>1 DEF ByRounds, rest
<1>6. ASSUME NEW m \in Nat, m \in Good PROVE m + 1 \in Good
  <2> SUFFICES ASSUME (m + 1) + 1 <= n PROVE p[(m + 1) + 1] = rest
    OBVIOUS
  <2>1. (m + 1) + 1 \in 1..n /\ ((m + 1) + 1) - 1 = m + 1 /\ m + 1 <= n
    BY <1>1
  <2>2. p[(m + 1) + 1] = Round(r, p[m + 1])
    BY <1>2, <2>1 DEF ByRounds
  <2> QED BY <1>4, <1>6, <2>1, <2>2
<1>7. Nat \subseteq Good
  <2> HIDE DEF Good
  <2> QED BY <1>5, <1>6, SetInduction
<1>8. n - 1 \in Nat /\ (n - 1) + 1 = n
  BY <1>1
<1>9. p[n] = rest
  <2>1. n - 1 \in Good
    BY <1>7, <1>8
  <2> QED BY <1>1, <1>8, <2>1
<1>10. Rounds(r) = rest
  BY <1>2, <1>9 DEF ByRounds
<1> QED BY <1>4, <1>10 DEF Stuck

LEMMA NominatorTold ==
  ASSUME NEW eras, NEW r \in ClaimRequests(eras), ListsInRange(r)
  PROVE  NominatorClaimsExact(r)
<1> DEFINE claims == ClaimedRewards(r)
           first(e) == {i \in DOMAIN r.targets :
                          /\ NominatorStatus(r.targets[i], e) # Null
                          /\ \A j \in 1..(i - 1) : NominatorStatus(r.targets[j], e) = Null}
           rewinds == {i \in DOMAIN r.targets : Rewinds(r, r.targets[i])}
<1>1. \A e : first(e) = FirstExposed(r, e)
  BY DEF FirstExposed
<1> HIDE DEF first
<1>2. CASE ~Asks(r)
  BY <1>2 DEF NominatorClaimsExact, Asks, AllBonded
<1>3. CASE Asks(r)
  <2>1. claims = Rounds(r).nom
    BY <1>3 DEF ClaimedRewards, Asks
  <2>2. r.start \in Nat /\ r.depth \in Nat
    BY DEF ClaimRequests
  <2>3. ASSUME NoOldLists(r)
        PROVE  /\ Ended(r, Rounds(r)) /\ Once(claims)
               /\ ErasOf(claims) = r.start..(r.start + r.depth - 1)
               /\ \A i \in DOMAIN claims : OfTheFirst(r, claims[i].era, claims[i].status)
    <3>1. ToldOfAll(r, Rounds(r), r.depth)
      BY <1>3, <2>3, NominatorToldAll
    <3> QED BY <2>1, <2>2, <3>1, AllToldOnce
  <2>4. ASSUME r.hub \/ rewinds = {} PROVE Ended(r, Rounds(r))
    <3>1. CASE r.hub
      BY <2>3, <3>1 DEF NoOldLists
    <3>2. CASE rewinds = {}
      <4>1. NoRewinds(r)
        BY <3>2 DEF NoRewinds
      <4> QED BY <1>3, <4>1, NominatorEnds
    <3> QED BY <2>4, <3>1, <3>2
  <2> HIDE DEF claims
  <2>5. ASSUME r.hub \/ \A i \in DOMAIN r.targets : r.targets[i].legacy = <<>>
        PROVE  /\ Once(claims) /\ ErasOf(claims) = r.start..(r.start + r.depth - 1)
               /\ \A i \in DOMAIN claims : \A k \in first(claims[i].era) :
                    claims[i].status = NominatorStatus(r.targets[k], claims[i].era)
    <3>1. NoOldLists(r)
      BY <2>5 DEF NoOldLists
    <3> QED BY <1>1, <2>3, <3>1 DEF OfTheFirst
  <2> HIDE DEF rewinds
  <2> QED BY <2>4, <2>5 DEF NominatorClaimsExact, claims, first, rewinds
<1> QED BY <1>2, <1>3

-----------------------------------------------------------------------------
(* The answer about the eras. *)

\* No old list of a nominated validator is ahead of the range either.
ClaimInputs(eras) ==
  [kind : {"claims"}, request : {r \in ClaimRequests(eras) : ListsInRange(r)}]

\* Whatever eras were claimed, exposed and paged, and whatever old lists the
\* ledgers hold: a validator is told of each of its eras once, a nominator whose
\* validators have no old list of each era by the first of them that was exposed,
\* and the loop over the eras ends if no old list sets it back; nothing is said of
\* lists that do (fetchAccountStakingInfo and its helpers).
THEOREM EveryClaimExact ==
  ASSUME NEW eras, input \in ClaimInputs(eras)
  PROVE  ClaimsExact
<1> DEFINE r == input.request
<1>1. r \in ClaimRequests(eras) /\ ListsInRange(r)
  BY DEF ClaimInputs
<1> HIDE DEF r
<1>2. ValidatorClaimsExact(r) /\ NominatorClaimsExact(r)
  BY <1>1, ValidatorTold, NominatorTold
<1> QED BY <1>2 DEF ClaimsExact, r

-----------------------------------------------------------------------------
(* Traces *)

-----------------------------------------------------------------------------
(* Traces: the spans of a node form a tree. *)

TraceSpans == [id : Nat \ {0}, parent : Nat, name : STRING]

TraceEvents(addresses) ==
  [span : Nat, path : {"index"}, index : Nat]
    \cup [span : Nat, path : {"account"}, address : addresses, data : [Fields -> Int]]
    \cup [span : Nat, path : {"other"}]

UniqueIds(t) == \A i, j \in 1..Len(t.spans) : t.spans[i].id = t.spans[j].id => i = j

Deepens(t, depth) ==
  depth \in [Ids(t) -> Nat] /\ \A s \in ToSet(t.spans) : s.parent \in Ids(t) => depth[s.parent] < depth[s.id]

\* No span is below itself.
Nested(t) == \E depth : Deepens(t, depth)

Traces(addresses) ==
  {t \in [spans : Seq(TraceSpans), events : Seq(TraceEvents(addresses))] :
     /\ UniqueIds(t) /\ Nested(t)
     /\ \A e \in 1..Len(t.events) : t.events[e].span \in Ids(t)}

\* What the lemmas about spans need of a trace.
SpansNested(t) == t.spans \in Seq(TraceSpans) /\ UniqueIds(t) /\ Nested(t)

LEMMA TraceIsNested ==
  ASSUME NEW addresses, NEW t \in Traces(addresses)
  PROVE  SpansNested(t)
BY DEF Traces, SpansNested

LEMMA SpanPlaces ==
  ASSUME NEW t, SpansNested(t)
  PROVE  /\ Len(t.spans) \in Nat /\ DOMAIN t.spans = 1..Len(t.spans)
         /\ ToSet(t.spans) = {t.spans[i] : i \in 1..Len(t.spans)}
         /\ \A i \in 1..Len(t.spans) : /\ t.spans[i].id \in Nat \ {0} /\ t.spans[i].parent \in Nat
                                       /\ t.spans[i].id \in Ids(t)
<1>1. Len(t.spans) \in Nat /\ DOMAIN t.spans = 1..Len(t.spans)
  BY DEF SpansNested
<1>2. ToSet(t.spans) = {t.spans[i] : i \in 1..Len(t.spans)}
  BY <1>1 DEF ToSet
<1>3. ASSUME NEW i \in 1..Len(t.spans)
      PROVE  /\ t.spans[i].id \in Nat \ {0} /\ t.spans[i].parent \in Nat
             /\ t.spans[i].id \in Ids(t)
  <2>1. t.spans[i] \in TraceSpans
    BY <1>3 DEF SpansNested
  <2>2. t.spans[i] \in ToSet(t.spans)
    BY <1>2
  <2> QED BY <2>1, <2>2 DEF TraceSpans, Ids
<1> QED BY <1>1, <1>2, <1>3

SpanAt(t, s, i) == i \in 1..Len(t.spans) /\ s = t.spans[i]
HasPlace(t, s) == \E i : SpanAt(t, s, i)

LEMMA SpanHasPlace ==
  ASSUME NEW t, SpansNested(t), NEW s \in ToSet(t.spans)
  PROVE  HasPlace(t, s)
<1>1. ToSet(t.spans) = {t.spans[i] : i \in 1..Len(t.spans)}
  BY SpanPlaces
<1> QED BY <1>1 DEF HasPlace, SpanAt

LEMMA SpanOfIs ==
  ASSUME NEW t, SpansNested(t), NEW s \in ToSet(t.spans)
  PROVE  SpanOf(t, s.id) = s /\ s.id \in Ids(t) /\ s.id \in Nat \ {0}
<1>1. PICK i : i \in 1..Len(t.spans) /\ s = t.spans[i]
  BY SpanHasPlace DEF HasPlace, SpanAt
<1>2. ASSUME NEW o \in ToSet(t.spans), o.id = s.id PROVE o = s
  <2>1. PICK j : j \in 1..Len(t.spans) /\ o = t.spans[j]
    BY SpanHasPlace DEF HasPlace, SpanAt
  <2>2. i = j
    BY <1>1, <1>2, <2>1 DEF SpansNested, UniqueIds
  <2> QED BY <1>1, <2>1, <2>2
<1>3. (CHOOSE o \in ToSet(t.spans) : o.id = s.id) = s
  BY <1>2
<1>4. SpanOf(t, s.id) = s
  BY <1>3 DEF SpanOf
<1>5. s.id \in Ids(t) /\ s.id \in Nat \ {0}
  BY <1>1, SpanPlaces
<1> QED BY <1>4, <1>5

LEMMA SpanOfId ==
  ASSUME NEW t, SpansNested(t), NEW id \in Ids(t)
  PROVE  /\ SpanOf(t, id) \in ToSet(t.spans) /\ SpanOf(t, id).id = id
         /\ id \in Nat \ {0} /\ SpanOf(t, id).parent \in Nat
<1>1. PICK s \in ToSet(t.spans) : s.id = id
  BY DEF Ids
<1>2. SpanOf(t, id) = s /\ id \in Nat \ {0}
  BY <1>1, SpanOfIs
<1>3. s.parent \in Nat
  <2>1. PICK k : k \in 1..Len(t.spans) /\ s = t.spans[k]
    BY SpanHasPlace DEF HasPlace, SpanAt
  <2> QED BY <2>1, SpanPlaces
<1> QED BY <1>1, <1>2, <1>3

\* The parent of a span.
Up(t, id) == SpanOf(t, id).parent

LEMMA UpIs ==
  ASSUME NEW t, SpansNested(t), ~SpansRefused(t), NEW id \in Ids(t)
  PROVE  Up(t, id) = 0 \/ Up(t, id) \in Ids(t)
<1>1. SpanOf(t, id) \in ToSet(t.spans)
  BY SpanOfId
<1> QED BY <1>1 DEF SpansRefused, Up

LEMMA UpIsHigher ==
  ASSUME NEW t, SpansNested(t), NEW depth, Deepens(t, depth), NEW id \in Ids(t),
         Up(t, id) \in Ids(t)
  PROVE  depth[Up(t, id)] < depth[id] /\ depth[id] \in Nat /\ depth[Up(t, id)] \in Nat
<1>1. SpanOf(t, id) \in ToSet(t.spans) /\ SpanOf(t, id).id = id
  BY SpanOfId
<1> QED BY <1>1 DEF Deepens, Up

-----------------------------------------------------------------------------
(* The children of a span. *)

ChildrenOf(t, id) == {x \in Ids(t) : Up(t, x) # 0 /\ Up(t, x) = id}

\* The ids of what is kept of the spans.
LEMMA IdsKept ==
  ASSUME NEW t, SpansNested(t), NEW places
  PROVE  LET own == Kept(t.spans, places)
             ids == [i \in DOMAIN own |-> own[i].id]
         IN  /\ ids \in SaidOnce(Ids(t)) /\ own \in Seq(TraceSpans)
             /\ ToSet(ids) = {t.spans[k].id : k \in places \cap 1..Len(t.spans)}
             /\ ToSet(own) = {t.spans[k] : k \in places \cap 1..Len(t.spans)}
             /\ Len(ids) = Len(own)
<1> DEFINE n == Len(t.spans)
           own == Kept(t.spans, places)
           ids == [i \in DOMAIN own |-> own[i].id]
           m == Len(own)
<1>1. /\ n \in Nat /\ DOMAIN t.spans = 1..n
      /\ \A i \in 1..n : t.spans[i].id \in Nat \ {0} /\ t.spans[i].id \in Ids(t)
  BY SpanPlaces
<1>2. t.spans \in Seq(TraceSpans) /\ \A i, j \in 1..n : t.spans[i].id = t.spans[j].id => i = j
  BY DEF SpansNested, UniqueIds
<1>3. own \in Seq(TraceSpans) /\ IsListed(own, t.spans, places)
  BY <1>2, KeptHasList
<1>4. PICK at : Lists(at, m, places, n) /\ \A i \in 1..m : own[i] = t.spans[at[i]]
  BY <1>3 DEF IsListed
<1> HIDE DEF own
<1>5. m \in Nat /\ DOMAIN own = 1..m
  BY <1>3
<1> HIDE DEF m, n
<1>6. /\ at \in [1..m -> (1..n) \cap places]
      /\ \A i, j \in 1..m : i < j => at[i] < at[j]
      /\ \A k \in (1..n) \cap places : \E i \in 1..m : at[i] = k
  BY <1>4 DEF Lists
<1>7. ids = [i \in 1..m |-> own[i].id]
  BY <1>5
<1>8. \A i \in 1..m : ids[i] = t.spans[at[i]].id
  BY <1>4, <1>7
<1> HIDE DEF ids
<1>9. \A i \in 1..m : at[i] \in 1..n /\ at[i] \in places
  BY <1>6
<1>10. \A i \in 1..m : ids[i] \in Ids(t)
  BY <1>1, <1>8, <1>9
<1>11. ids \in [1..m -> Ids(t)]
  BY <1>7, <1>10
<1>12. ids \in Seq(Ids(t)) /\ Len(ids) = m /\ DOMAIN ids = 1..m
  BY <1>5, <1>11
<1>13. ASSUME NEW i \in 1..m, NEW j \in 1..m, ids[i] = ids[j] PROVE i = j
  <2>1. at[i] = at[j]
    BY <1>2, <1>8, <1>9, <1>13
  <2>2. at[i] \in Nat /\ at[j] \in Nat
    BY <1>9
  <2>3. i < j => at[i] < at[j]
    BY <1>6
  <2>4. j < i => at[j] < at[i]
    BY <1>6
  <2>5. i < j \/ j < i \/ i = j
    BY <1>5
  <2> QED BY <2>1, <2>2, <2>3, <2>4, <2>5
<1>14. ids \in SaidOnce(Ids(t))
  BY <1>12, <1>13 DEF SaidOnce
<1>15. ToSet(own) = {own[i] : i \in 1..m} /\ ToSet(ids) = {ids[i] : i \in 1..m}
  BY <1>5, <1>12 DEF ToSet
<1>16. ToSet(own) = {t.spans[k] : k \in places \cap 1..n}
  BY <1>4, <1>6, <1>9, <1>15
<1>17. ToSet(ids) = {t.spans[k].id : k \in places \cap 1..n}
  BY <1>6, <1>8, <1>9, <1>15
<1> QED BY <1>3, <1>12, <1>14, <1>16, <1>17 DEF ids, own, m, n

LEMMA ChildrenAre ==
  ASSUME NEW t, SpansNested(t), NEW id
  PROVE  Children(t, id) \in SaidOnce(Ids(t)) /\ ToSet(Children(t, id)) = ChildrenOf(t, id)
<1> DEFINE n == Len(t.spans)
           places == {k \in DOMAIN t.spans : t.spans[k].parent # 0 /\ t.spans[k].parent = id}
           all == {t.spans[k].id : k \in places \cap 1..n}
<1>1. DOMAIN t.spans = 1..n
  BY SpanPlaces
<1>2. Children(t, id) \in SaidOnce(Ids(t)) /\ ToSet(Children(t, id)) = all
  BY IdsKept DEF Children
<1>3. ASSUME NEW k \in 1..n
      PROVE  t.spans[k].id \in Ids(t) /\ Up(t, t.spans[k].id) = t.spans[k].parent
  <2>1. t.spans[k] \in ToSet(t.spans)
    BY SpanPlaces
  <2> QED BY <2>1, SpanOfIs DEF Up
<1>4. ASSUME NEW x \in Ids(t) PROVE \E k \in 1..n : t.spans[k].id = x
  <2>1. PICK s \in ToSet(t.spans) : s.id = x
    BY DEF Ids
  <2>2. PICK k : k \in 1..n /\ s = t.spans[k]
    BY SpanHasPlace DEF HasPlace, SpanAt
  <2> QED BY <2>1, <2>2
<1> HIDE DEF n
<1>5. ASSUME NEW x \in all PROVE x \in ChildrenOf(t, id)
  <2>1. PICK k \in 1..n : k \in places /\ x = t.spans[k].id
    BY <1>5
  <2> QED BY <1>3, <2>1 DEF ChildrenOf
<1>6. ASSUME NEW x \in ChildrenOf(t, id) PROVE x \in all
  <2>1. x \in Ids(t) /\ Up(t, x) # 0 /\ Up(t, x) = id
    BY <1>6 DEF ChildrenOf
  <2>2. PICK k \in 1..n : t.spans[k].id = x
    BY <1>4, <2>1
  <2>3. t.spans[k].parent = Up(t, x)
    BY <1>3, <2>2
  <2>4. k \in places
    BY <1>1, <2>1, <2>3
  <2> QED BY <2>2, <2>4
<1>7. all = ChildrenOf(t, id)
  BY <1>5, <1>6
<1> HIDE DEF all
<1> QED BY <1>2, <1>7

-----------------------------------------------------------------------------

LEMMA LastAndFront ==
  ASSUME NEW T, NEW s \in SaidOnce(T), s # <<>>
  PROVE  /\ Last(s) \in ToSet(s) /\ Front(s) \in SaidOnce(T)
         /\ ToSet(Front(s)) = ToSet(s) \ {Last(s)}
<1> DEFINE n == Len(s)
           front == Front(s)
<1>1. s \in Seq(T) /\ n \in Nat /\ n # 0 /\ DOMAIN s = 1..n
  BY DEF SaidOnce
<1>2. \A j, k \in 1..n : s[j] = s[k] => j = k
  BY DEF SaidOnce
<1>3. Last(s) = s[n] /\ n \in 1..n
  BY <1>1 DEF Last
<1>4. /\ front \in Seq(T) /\ Len(front) = n - 1
      /\ \A k \in 1..(n - 1) : front[k] = s[k]
  BY <1>1 DEF Front
<1>5. DOMAIN front = 1..(n - 1)
  BY <1>4
<1> HIDE DEF front, n
<1>6. front \in SaidOnce(T)
  <2>1. \A k \in 1..(n - 1) : k \in 1..n
    BY <1>1
  <2>2. ASSUME NEW j \in 1..(n - 1), NEW k \in 1..(n - 1), front[j] = front[k] PROVE j = k
    BY <1>2, <1>4, <2>1, <2>2
  <2> QED BY <1>4, <2>2 DEF SaidOnce
<1>7. ToSet(s) = {s[k] : k \in 1..n} /\ ToSet(front) = {front[k] : k \in 1..(n - 1)}
  BY <1>1, <1>5 DEF ToSet
<1>8. ASSUME NEW x \in ToSet(front) PROVE x \in ToSet(s) \ {Last(s)}
  <2>1. PICK k \in 1..(n - 1) : x = s[k]
    BY <1>4, <1>7
  <2>2. k \in 1..n /\ k # n
    BY <1>1
  <2> QED BY <1>2, <1>3, <1>7, <2>1, <2>2
<1>9. ASSUME NEW x \in ToSet(s) \ {Last(s)} PROVE x \in ToSet(front)
  <2>1. PICK k \in 1..n : x = s[k]
    BY <1>7
  <2>2. k \in 1..(n - 1)
    BY <1>1, <1>3, <2>1
  <2> QED BY <1>4, <1>7, <2>1, <2>2
<1> QED BY <1>3, <1>6, <1>7, <1>8, <1>9 DEF front

WalkStates(t) == [stack : Seq(Ids(t)), found : Seq(Ids(t))]

Pushed(t, st) ==
  [stack |-> Front(st.stack) \o Children(t, Last(st.stack)),
   found |-> Append(st.found, Last(st.stack))]

LEMMA PopSpanIs ==
  ASSUME NEW t, SpansNested(t), NEW st \in WalkStates(t)
  PROVE  /\ PopSpan(t, st) \in WalkStates(t)
         /\ PopSpan(t, st) = IF st.stack = <<>> THEN st ELSE Pushed(t, st)
<1>1. st.stack \in Seq(Ids(t)) /\ st.found \in Seq(Ids(t))
  BY DEF WalkStates
<1>2. CASE st.stack = <<>>
  <2>1. PopSpan(t, st) = [st EXCEPT !.stack = <<>>]
    BY <1>2 DEF PopSpan
  <2>2. [st EXCEPT !.stack = <<>>] = st
    BY <1>2 DEF WalkStates
  <2> QED BY <1>2, <2>1, <2>2
<1>3. CASE st.stack # <<>>
  <2> DEFINE cur == Last(st.stack)
             front == Front(st.stack)
             children == Children(t, cur)
  <2>1. cur \in Ids(t) /\ front \in Seq(Ids(t))
    BY <1>1, <1>3 DEF Last, Front
  <2> HIDE DEF cur, front
  <2>2. cur # 0
    BY <2>1, SpanOfId
  <2>3. PopSpan(t, st) = Pushed(t, st)
    BY <1>3, <2>2 DEF PopSpan, Pushed, cur
  <2>4. children \in Seq(Ids(t))
    BY ChildrenAre DEF SaidOnce
  <2> HIDE DEF children
  <2>5. front \o children \in Seq(Ids(t)) /\ Append(st.found, cur) \in Seq(Ids(t))
    BY <1>1, <2>1, <2>4
  <2>6. Pushed(t, st) \in WalkStates(t)
    BY <2>5 DEF Pushed, WalkStates, cur, front, children
  <2> QED BY <1>3, <2>3, <2>6
<1> QED BY <1>2, <1>3

-----------------------------------------------------------------------------
(* findDescendants, one span after the other. *)

FirstWalk(t, root) == [stack |-> Children(t, root), found |-> <<>>]

\* a[m] is the state after m rounds.
WalkedBy(a, t, root) ==
  /\ a[0] = FirstWalk(t, root)
  /\ \A m \in 1..Len(t.spans) : a[m] = PopSpan(t, a[m - 1])
  /\ Descendants(t, root) = a[Len(t.spans)].found
  /\ a \in [0..Len(t.spans) -> WalkStates(t)]

IsWalked(t, root) == \E a : WalkedBy(a, t, root)

LEMMA WalkStepwise ==
  ASSUME NEW t, SpansNested(t), NEW root
  PROVE  IsWalked(t, root)
<1> DEFINE n == Len(t.spans)
           T == WalkStates(t)
           first == FirstWalk(t, root)
           spans == t.spans
           step == [k \in 1..n |-> [st \in T |-> PopSpan(t, st)]]
           Makes(iter) == iter = [S \in SUBSET DOMAIN spans |->
                                    IF S = {} THEN first ELSE PopSpan(t, iter[S \ {Max(S)}])]
<1>1. n \in Nat /\ DOMAIN spans = 1..n
  BY SpanPlaces
<1>2. first \in T
  <2>1. Children(t, root) \in Seq(Ids(t))
    BY ChildrenAre DEF SaidOnce
  <2> QED BY <2>1 DEF FirstWalk, WalkStates
<1>3. \A st \in T : PopSpan(t, st) \in T
  BY PopSpanIs
<1>4. Descendants(t, root) = (CHOOSE iter : Makes(iter))[DOMAIN spans].found
  BY DEF Descendants, FoldLeft, MapThenFoldSet, FirstWalk
<1> HIDE DEF first, n, T, spans
<1>5. step \in [1..n -> [T -> T]]
  BY <1>3
<1>6. PICK f \in [SUBSET (1..n) -> T] : Iterates(f, first, step, n)
  <2> HIDE DEF step
  <2>1. \A st \in [1..n -> [T -> T]] : HasIteration(T, first, st, n)
    <3> TAKE st \in [1..n -> [T -> T]]
    <3> QED BY <1>1, <1>2, IterationExists
  <2>2. HasIteration(T, first, step, n)
    BY <1>5, <2>1
  <2> QED BY <2>2 DEF HasIteration
<1>7. Makes(f)
  <2>1. ASSUME NEW S \in SUBSET (1..n)
        PROVE  f[S] = IF S = {} THEN first ELSE PopSpan(t, f[S \ {Max(S)}])
    <3>1. f[S] = IF S = {} THEN first ELSE step[Max(S)][f[S \ {Max(S)}]]
      BY <1>6 DEF Iterates
    <3>2. S # {} => Max(S) \in 1..n
      BY <1>1, MaxIsLargest
    <3>3. f[S \ {Max(S)}] \in T
      BY <1>6
    <3>4. S # {} => step[Max(S)][f[S \ {Max(S)}]] = PopSpan(t, f[S \ {Max(S)}])
      BY <3>2, <3>3
    <3> HIDE DEF step
    <3> QED BY <3>1, <3>4
  <2> HIDE DEF step
  <2>2. f = [S \in SUBSET (1..n) |-> f[S]]
    BY <1>6
  <2>3. f = [S \in SUBSET (1..n) |-> IF S = {} THEN first ELSE PopSpan(t, f[S \ {Max(S)}])]
    BY <2>1, <2>2
  <2> QED BY <1>1, <2>3
<1>8. PICK iter : Makes(iter) /\ Descendants(t, root) = iter[DOMAIN spans].found
  <2> HIDE DEF Makes
  <2> QED BY <1>4, <1>7
<1> HIDE DEF step
<1> DEFINE a == [m \in 0..n |-> iter[1..m]]
<1>9. a[0] = first
  <2>1. 1..0 = {} /\ {} \in SUBSET DOMAIN spans /\ 0 \in 0..n
    BY <1>1
  <2> QED BY <1>8, <2>1
<1>10. ASSUME NEW m \in 1..n PROVE a[m] = PopSpan(t, a[m - 1])
  <2>1. /\ 1..m \in SUBSET (1..n) /\ 1..m # {}
        /\ Max(1..m) = m /\ (1..m) \ {Max(1..m)} = 1..(m - 1)
    BY <1>1, IterationInOrder
  <2>2. iter[1..m] = PopSpan(t, iter[(1..m) \ {Max(1..m)}])
    BY <1>1, <1>8, <2>1
  <2>3. m \in 0..n /\ m - 1 \in 0..n
    BY <1>1
  <2> QED BY <2>1, <2>2, <2>3
<1>11. Descendants(t, root) = a[n].found
  <2>1. n \in 0..n
    BY <1>1
  <2> QED BY <1>1, <1>8, <2>1
<1>12. a = [m \in 0..n |-> a[m]]
  OBVIOUS
<1> HIDE DEF a
<1>13. Preserved(a, T, n)
  <2>1. ASSUME NEW m \in 1..n, a[m - 1] \in T PROVE a[m] \in T
    BY <1>3, <1>10, <2>1
  <2> QED BY <1>2, <1>9, <2>1 DEF Preserved
<1>14. \A m \in 0..n : a[m] \in T
  BY <1>1, <1>13, PreservedStays DEF StaysIn
<1>15. a \in [0..n -> T]
  BY <1>12, <1>14
<1> QED BY <1>9, <1>10, <1>11, <1>15 DEF IsWalked, WalkedBy, first, n, T

-----------------------------------------------------------------------------
(* What has been found below a span, and what is still on the stack. *)

Frontier(t, depth, root, S, F) ==
  /\ S \subseteq Ids(t) /\ F \subseteq Ids(t) /\ S \cap F = {}
  /\ \A x \in S \cup F : Up(t, x) = root \/ Up(t, x) \in F
  /\ \A x \in Ids(t) : Up(t, x) = root \/ Up(t, x) \in F => x \in S \cup F
  /\ \A x \in S \cup F : depth[root] < depth[x]

LEMMA FrontierStarts ==
  ASSUME NEW t, SpansNested(t), NEW depth, Deepens(t, depth), NEW root \in Ids(t)
  PROVE  Frontier(t, depth, root, ChildrenOf(t, root), {})
<1>1. root # 0
  BY SpanOfId
<1>2. \A x \in ChildrenOf(t, root) : x \in Ids(t) /\ Up(t, x) = root
  BY DEF ChildrenOf
<1>3. \A x \in Ids(t) : Up(t, x) = root => x \in ChildrenOf(t, root)
  BY <1>1 DEF ChildrenOf
<1>4. ASSUME NEW x \in ChildrenOf(t, root) PROVE depth[root] < depth[x]
  BY <1>2, UpIsHigher
<1> QED BY <1>2, <1>3, <1>4 DEF Frontier

LEMMA FrontierGrows ==
  ASSUME NEW t, SpansNested(t), NEW depth, Deepens(t, depth), NEW root \in Ids(t),
         NEW S, NEW F, Frontier(t, depth, root, S, F), NEW cur \in S
  PROVE  /\ ChildrenOf(t, cur) \cap (S \cup F) = {}
         /\ Frontier(t, depth, root, (S \ {cur}) \cup ChildrenOf(t, cur), F \cup {cur})
<1> DEFINE C == ChildrenOf(t, cur)
<1>1. /\ S \subseteq Ids(t) /\ F \subseteq Ids(t) /\ S \cap F = {}
      /\ \A x \in S \cup F : Up(t, x) = root \/ Up(t, x) \in F
      /\ \A x \in Ids(t) : Up(t, x) = root \/ Up(t, x) \in F => x \in S \cup F
      /\ \A x \in S \cup F : depth[root] < depth[x]
  BY DEF Frontier
<1>2. cur \in Ids(t) /\ cur # 0 /\ cur \notin F
  BY <1>1, SpanOfId
<1>3. \A x \in C : x \in Ids(t) /\ Up(t, x) = cur
  BY DEF ChildrenOf
<1>4. \A x \in Ids(t) : Up(t, x) = cur => x \in C
  BY <1>2 DEF ChildrenOf
<1> HIDE DEF C
<1>5. \A x \in Ids(t) : depth[x] \in Nat
  BY DEF Deepens
<1>6. cur # root
  BY <1>1, <1>5
<1>7. ASSUME NEW x \in C PROVE depth[root] < depth[x]
  <2>1. depth[cur] < depth[x]
    BY <1>2, <1>3, UpIsHigher
  <2>2. depth[root] < depth[cur]
    BY <1>1
  <2>3. depth[root] \in Nat /\ depth[cur] \in Nat /\ depth[x] \in Nat
    BY <1>2, <1>3, <1>5
  <2> QED BY <2>1, <2>2, <2>3
<1>8. C \cap (S \cup F) = {}
  BY <1>1, <1>2, <1>3, <1>6
<1> DEFINE S2 == (S \ {cur}) \cup C
           F2 == F \cup {cur}
<1>9. S2 \subseteq Ids(t) /\ F2 \subseteq Ids(t) /\ S2 \cap F2 = {}
  BY <1>1, <1>2, <1>3, <1>8
<1>10. \A x \in S2 \cup F2 : Up(t, x) = root \/ Up(t, x) \in F2
  BY <1>1, <1>3
<1>11. \A x \in Ids(t) : Up(t, x) = root \/ Up(t, x) \in F2 => x \in S2 \cup F2
  BY <1>1, <1>4
<1>12. \A x \in S2 \cup F2 : depth[root] < depth[x]
  BY <1>1, <1>7
<1>13. Frontier(t, depth, root, S2, F2)
  BY <1>9, <1>10, <1>11, <1>12 DEF Frontier
<1> QED BY <1>8, <1>13 DEF C

LEMMA AppendedOnce ==
  ASSUME NEW T, NEW s \in SaidOnce(T), NEW x \in T, x \notin ToSet(s)
  PROVE  /\ Append(s, x) \in SaidOnce(T) /\ ToSet(Append(s, x)) = ToSet(s) \cup {x}
         /\ Len(Append(s, x)) = Len(s) + 1
<1> DEFINE n == Len(s)
           more == Append(s, x)
<1>1. s \in Seq(T) /\ n \in Nat /\ DOMAIN s = 1..n /\ \A j, k \in 1..n : s[j] = s[k] => j = k
  BY DEF SaidOnce
<1>2. /\ more \in Seq(T) /\ Len(more) = n + 1
      /\ more[n + 1] = x /\ \A i \in 1..n : more[i] = s[i]
  BY <1>1, AppendedIs
<1>3. DOMAIN more = 1..(n + 1)
  BY <1>2
<1>4. ToSet(s) = {s[i] : i \in 1..n} /\ ToSet(more) = {more[i] : i \in 1..(n + 1)}
  BY <1>1, <1>3 DEF ToSet
<1> HIDE DEF n, more
<1>5. \A i \in 1..(n + 1) : i \in 1..n \/ i = n + 1
  BY <1>1
<1>6. ASSUME NEW j \in 1..(n + 1), NEW k \in 1..(n + 1), more[j] = more[k] PROVE j = k
  <2>1. \A i \in 1..n : s[i] # x
    BY <1>4
  <2> QED BY <1>1, <1>2, <1>5, <1>6, <2>1
<1>7. ToSet(more) = ToSet(s) \cup {x}
  <2>1. \A i \in 1..n : i \in 1..(n + 1)
    BY <1>1
  <2>2. n + 1 \in 1..(n + 1)
    BY <1>1
  <2>3. ToSet(more) \subseteq ToSet(s) \cup {x}
    BY <1>2, <1>4, <1>5
  <2>4. ASSUME NEW y \in ToSet(s) PROVE y \in ToSet(more)
    <3>1. PICK i \in 1..n : y = s[i]
      BY <1>4
    <3> QED BY <1>2, <1>4, <2>1, <3>1
  <2>5. x \in ToSet(more)
    BY <1>2, <1>4, <2>2
  <2> QED BY <2>3, <2>4, <2>5
<1>8. more \in SaidOnce(T)
  BY <1>2, <1>6 DEF SaidOnce
<1> QED BY <1>2, <1>7, <1>8 DEF n, more

\* There are no more ids than spans.
LEMMA IdsCounted ==
  ASSUME NEW t, SpansNested(t)
  PROVE  IsFiniteSet(Ids(t)) /\ Cardinality(Ids(t)) = Len(t.spans)
<1> DEFINE n == Len(t.spans)
           ids == [i \in 1..n |-> t.spans[i].id]
<1>1. /\ n \in Nat /\ ToSet(t.spans) = {t.spans[i] : i \in 1..n}
      /\ \A i \in 1..n : t.spans[i].id \in Ids(t)
  BY SpanPlaces
<1>2. \A i, j \in 1..n : t.spans[i].id = t.spans[j].id => i = j
  BY DEF SpansNested, UniqueIds
<1>3. Ids(t) = {t.spans[i].id : i \in 1..n}
  BY <1>1 DEF Ids
<1> HIDE DEF n
<1>4. ids \in [1..n -> Ids(t)]
  BY <1>1
<1>5. ids \in Bijection(1..n, Ids(t))
  BY <1>2, <1>3, <1>4 DEF Bijection, Injection, Surjection, IsInjective
<1>6. ExistsBijection(1..n, Ids(t))
  BY <1>5 DEF ExistsBijection
<1>7. IsFiniteSet(Ids(t))
  BY <1>1, <1>6, FS_NatBijection
<1>8. Cardinality(Ids(t)) = n
  BY <1>1, <1>6, FS_CountingElements
<1> QED BY <1>7, <1>8 DEF n

-----------------------------------------------------------------------------
(* Each round finds one span more, until none is left. *)

WalkGood(t, depth, root, st) ==
  /\ st \in WalkStates(t) /\ st.stack \in SaidOnce(Ids(t)) /\ st.found \in SaidOnce(Ids(t))
  /\ Frontier(t, depth, root, ToSet(st.stack), ToSet(st.found))

WalkFinds(t, depth, root, st, m) ==
  WalkGood(t, depth, root, st) /\ (st.stack = <<>> \/ Len(st.found) = m)

LEMMA WalkGoesOn ==
  ASSUME NEW t, SpansNested(t), NEW depth, Deepens(t, depth), NEW root \in Ids(t),
         NEW m \in Nat, NEW st, WalkFinds(t, depth, root, st, m)
  PROVE  WalkFinds(t, depth, root, PopSpan(t, st), m + 1)
<1> DEFINE later == PopSpan(t, st)
           cur == Last(st.stack)
           front == Front(st.stack)
           children == Children(t, cur)
           S == ToSet(st.stack)
           F == ToSet(st.found)
           C == ChildrenOf(t, cur)
<1>1. /\ st \in WalkStates(t) /\ st.stack \in SaidOnce(Ids(t)) /\ st.found \in SaidOnce(Ids(t))
      /\ Frontier(t, depth, root, S, F) /\ (st.stack = <<>> \/ Len(st.found) = m)
  BY DEF WalkFinds, WalkGood
<1>2. CASE st.stack = <<>>
  <2>1. later = st
    BY <1>1, <1>2, PopSpanIs
  <2> QED BY <1>2, <2>1 DEF WalkFinds
<1>3. CASE st.stack # <<>>
  <2>1. later \in WalkStates(t) /\ later = Pushed(t, st)
    BY <1>1, <1>3, PopSpanIs
  <2>2. later.stack = front \o children /\ later.found = Append(st.found, cur)
    BY <2>1 DEF Pushed
  <2>3. cur \in S /\ front \in SaidOnce(Ids(t)) /\ ToSet(front) = S \ {cur}
    BY <1>1, <1>3, LastAndFront
  <2>4. children \in SaidOnce(Ids(t)) /\ ToSet(children) = C
    BY ChildrenAre
  <2> HIDE DEF later, cur, front, children, S, F, C
  <2>5. C \cap (S \cup F) = {} /\ Frontier(t, depth, root, (S \ {cur}) \cup C, F \cup {cur})
    BY <1>1, <2>3, FrontierGrows DEF C
  <2>6. S \cap F = {} /\ S \subseteq Ids(t)
    BY <1>1 DEF Frontier
  <2>7. front \o children \in SaidOnce(Ids(t)) /\ ToSet(front \o children) = (S \ {cur}) \cup C
    <3>1. ToSet(front) \cap ToSet(children) = {}
      BY <2>3, <2>4, <2>5
    <3>2. front \o children \in SaidOnce(Ids(t))
          /\ ToSet(front \o children) = ToSet(front) \cup ToSet(children)
      BY <2>3, <2>4, <3>1, OnceTogether
    <3> DEFINE both == front \o children
    <3> HIDE DEF both
    <3> QED BY <2>3, <2>4, <3>2
  <2>8. /\ Append(st.found, cur) \in SaidOnce(Ids(t))
        /\ ToSet(Append(st.found, cur)) = F \cup {cur}
        /\ Len(Append(st.found, cur)) = Len(st.found) + 1
    <3>1. cur \in Ids(t) /\ cur \notin ToSet(st.found)
      BY <2>3, <2>6 DEF F
    <3> QED BY <1>1, <3>1, AppendedOnce DEF F
  <2> DEFINE both == front \o children
             more == Append(st.found, cur)
  <2> HIDE DEF both, more
  <2>9. WalkGood(t, depth, root, later)
    BY <2>1, <2>2, <2>5, <2>7, <2>8 DEF WalkGood, both, more
  <2>10. Len(later.found) = m + 1
    BY <1>1, <1>3, <2>2, <2>8
  <2> QED BY <2>9, <2>10 DEF WalkFinds, later
<1> QED BY <1>2, <1>3

LEMMA WalkBegins ==
  ASSUME NEW t, SpansNested(t), NEW depth, Deepens(t, depth), NEW root \in Ids(t)
  PROVE  WalkFinds(t, depth, root, FirstWalk(t, root), 0)
<1> DEFINE children == Children(t, root)
           first == FirstWalk(t, root)
<1>1. children \in SaidOnce(Ids(t)) /\ ToSet(children) = ChildrenOf(t, root)
  BY ChildrenAre
<1>2. first.stack = children /\ first.found = <<>>
  BY DEF FirstWalk
<1>3. first \in WalkStates(t)
  <2>1. children \in Seq(Ids(t))
    BY <1>1 DEF SaidOnce
  <2> QED BY <2>1 DEF FirstWalk, WalkStates
<1>4. <<>> \in SaidOnce(Ids(t)) /\ ToSet(<<>>) = {} /\ Len(<<>>) = 0
  BY DEF SaidOnce, ToSet
<1> HIDE DEF children, first
<1>5. Frontier(t, depth, root, ChildrenOf(t, root), {})
  BY FrontierStarts
<1>6. WalkGood(t, depth, root, first)
  BY <1>1, <1>2, <1>3, <1>4, <1>5 DEF WalkGood
<1> QED BY <1>2, <1>4, <1>6 DEF WalkFinds, first

\* After as many rounds as there are spans the stack is empty.
LEMMA WalkEnds ==
  ASSUME NEW t, SpansNested(t), NEW depth, NEW root, NEW st,
         WalkFinds(t, depth, root, st, Len(t.spans))
  PROVE  st.stack = <<>>
<1> SUFFICES ASSUME st.stack # <<>> PROVE FALSE
  OBVIOUS
<1> DEFINE n == Len(t.spans)
           cur == Last(st.stack)
           more == Append(st.found, cur)
<1>1. /\ st.stack \in SaidOnce(Ids(t)) /\ st.found \in SaidOnce(Ids(t))
      /\ ToSet(st.stack) \cap ToSet(st.found) = {} /\ ToSet(st.stack) \subseteq Ids(t)
      /\ ToSet(st.found) \subseteq Ids(t) /\ Len(st.found) = n
  BY DEF WalkFinds, WalkGood, Frontier
<1>2. cur \in ToSet(st.stack)
  <2>1. st.stack \in SaidOnce(Ids(t))
    BY <1>1
  <2> HIDE DEF n, more
  <2> QED BY <2>1, LastAndFront
<1> HIDE DEF cur
<1>3. /\ more \in SaidOnce(Ids(t)) /\ ToSet(more) = ToSet(st.found) \cup {cur}
      /\ Len(more) = n + 1
  <2>1. cur \in Ids(t) /\ cur \notin ToSet(st.found)
    BY <1>1, <1>2
  <2> QED BY <1>1, <2>1, AppendedOnce
<1> HIDE DEF more
<1>4. Cardinality(ToSet(more)) = n + 1
  BY <1>3, OnceCounts
<1>5. ToSet(more) \in SUBSET Ids(t)
  BY <1>1, <1>2, <1>3
<1>6. IsFiniteSet(Ids(t)) /\ Cardinality(Ids(t)) = n
  BY IdsCounted
<1>7. Cardinality(ToSet(more)) <= Cardinality(Ids(t))
  BY <1>5, <1>6, FS_Subset
<1>8. n \in Nat
  BY SpanPlaces
<1> HIDE DEF n
<1> QED BY <1>4, <1>6, <1>7, <1>8

\* D is what is below root: closed under children and under parents up to root.
BelowRoot(t, depth, root, D) == Frontier(t, depth, root, {}, D)

LEMMA DescendantsAre ==
  ASSUME NEW t, SpansNested(t), NEW depth, Deepens(t, depth), NEW root \in Ids(t)
  PROVE  BelowRoot(t, depth, root, ToSet(Descendants(t, root)))
<1> DEFINE n == Len(t.spans)
<1>1. n \in Nat
  BY SpanPlaces
<1>2. IsWalked(t, root)
  BY WalkStepwise
<1>3. PICK a : /\ a[0] = FirstWalk(t, root)
               /\ \A m \in 1..n : a[m] = PopSpan(t, a[m - 1])
               /\ Descendants(t, root) = a[n].found
  BY <1>2 DEF IsWalked, WalkedBy
<1> HIDE DEF n
<1> DEFINE Good == {m \in Nat : m <= n => WalkFinds(t, depth, root, a[m], m)}
<1>4. 0 \in Good
  BY <1>3, WalkBegins
<1>5. ASSUME NEW m \in Nat, m \in Good PROVE m + 1 \in Good
  <2> SUFFICES ASSUME m + 1 <= n PROVE WalkFinds(t, depth, root, a[m + 1], m + 1)
    OBVIOUS
  <2>1. m + 1 \in 1..n /\ (m + 1) - 1 = m /\ m <= n
    BY <1>1
  <2>2. a[m + 1] = PopSpan(t, a[m])
    BY <1>3, <2>1
  <2>3. WalkFinds(t, depth, root, a[m], m)
    BY <1>5, <2>1
  <2> QED BY <2>2, <2>3, WalkGoesOn
<1>6. Nat \subseteq Good
  <2> HIDE DEF Good
  <2> QED BY <1>4, <1>5, SetInduction
<1>7. WalkFinds(t, depth, root, a[n], n)
  BY <1>1, <1>6
<1>8. a[n].stack = <<>>
  BY <1>7, WalkEnds DEF n
<1>9. ToSet(<<>>) = {}
  BY DEF ToSet
<1>10. Frontier(t, depth, root, {}, ToSet(a[n].found))
  BY <1>7, <1>8, <1>9 DEF WalkFinds, WalkGood
<1> QED BY <1>3, <1>10 DEF BelowRoot

-----------------------------------------------------------------------------
(* The way from a span up to the root. *)

Climb(t, path) ==
  IF SpanOf(t, Last(path)).parent = 0 THEN path ELSE Append(path, SpanOf(t, Last(path)).parent)

Climbs(t, id) ==
  {path \in Seq(Ids(t)) :
     /\ Len(path) # 0 /\ path[1] = id
     /\ \A k \in 1..(Len(path) - 1) : path[k + 1] = Up(t, path[k])}

LEMMA ClimbIs ==
  ASSUME NEW t, SpansNested(t), ~SpansRefused(t), NEW id, NEW path \in Climbs(t, id)
  PROVE  Climb(t, path) \in Climbs(t, id)
<1> DEFINE n == Len(path)
           top == Last(path)
           more == Append(path, Up(t, top))
<1>1. /\ path \in Seq(Ids(t)) /\ n \in Nat /\ n # 0 /\ path[1] = id
      /\ \A k \in 1..(n - 1) : path[k + 1] = Up(t, path[k])
  BY DEF Climbs
<1>2. n \in 1..n /\ 1 \in 1..n /\ top = path[n] /\ top \in Ids(t)
  BY <1>1 DEF Last
<1> HIDE DEF n, top
<1>3. CASE Up(t, top) = 0
  <2>1. Climb(t, path) = path
    BY <1>3 DEF Climb, Up, top
  <2> QED BY <2>1
<1>4. CASE Up(t, top) # 0
  <2>1. Climb(t, path) = more
    BY <1>4 DEF Climb, Up, top
  <2>2. Up(t, top) \in Ids(t)
    BY <1>2, <1>4, UpIs
  <2>3. /\ more \in Seq(Ids(t)) /\ Len(more) = n + 1
        /\ more[n + 1] = Up(t, top) /\ \A k \in 1..n : more[k] = path[k]
    BY <1>1, <2>2, AppendedIs DEF n
  <2> HIDE DEF more
  <2>4. ASSUME NEW k \in 1..((n + 1) - 1) PROVE more[k + 1] = Up(t, more[k])
    <3>1. CASE k = n
      BY <1>2, <2>3, <3>1
    <3>2. CASE k # n
      <4>1. k \in 1..(n - 1) /\ k \in 1..n /\ k + 1 \in 1..n
        BY <1>1, <3>2
      <4> QED BY <1>1, <2>3, <4>1
    <3> QED BY <3>1, <3>2
  <2>5. more[1] = id /\ Len(more) # 0
    BY <1>1, <1>2, <2>3
  <2>6. more \in Climbs(t, id)
    BY <2>3, <2>4, <2>5 DEF Climbs
  <2> QED BY <2>1, <2>6
<1> QED BY <1>3, <1>4

LEMMA PathClimbs ==
  ASSUME NEW t, SpansNested(t), ~SpansRefused(t), NEW id \in Ids(t)
  PROVE  Path(t, id) \in Climbs(t, id)
<1> DEFINE n == Len(t.spans)
           T == Climbs(t, id)
           first == <<id>>
           spans == t.spans
           step == [k \in 1..n |-> [path \in T |-> Climb(t, path)]]
           Makes(iter) == iter = [S \in SUBSET DOMAIN spans |->
                                    IF S = {} THEN first ELSE Climb(t, iter[S \ {Max(S)}])]
<1>1. n \in Nat /\ DOMAIN spans = 1..n
  BY SpanPlaces
<1>2. first \in T
  <2>1. first \in Seq(Ids(t)) /\ Len(first) = 1 /\ first[1] = id /\ 1..(1 - 1) = {}
    OBVIOUS
  <2> HIDE DEF first
  <2>2. 1..(Len(first) - 1) = {} /\ Len(first) # 0
    BY <2>1
  <2>3. \A k \in 1..(Len(first) - 1) : first[k + 1] = Up(t, first[k])
    BY <2>2
  <2> QED BY <2>1, <2>2, <2>3 DEF Climbs
<1>3. \A path \in T : Climb(t, path) \in T
  BY ClimbIs
<1>4. Path(t, id) = (CHOOSE iter : Makes(iter))[DOMAIN spans]
  BY DEF Path, FoldLeft, MapThenFoldSet, Climb
<1> HIDE DEF first, n, T, spans
<1>5. step \in [1..n -> [T -> T]]
  BY <1>3
<1>6. PICK f \in [SUBSET (1..n) -> T] : Iterates(f, first, step, n)
  <2> HIDE DEF step
  <2>1. \A st \in [1..n -> [T -> T]] : HasIteration(T, first, st, n)
    <3> TAKE st \in [1..n -> [T -> T]]
    <3> QED BY <1>1, <1>2, IterationExists
  <2>2. HasIteration(T, first, step, n)
    BY <1>5, <2>1
  <2> QED BY <2>2 DEF HasIteration
<1>7. Makes(f)
  <2>1. ASSUME NEW S \in SUBSET (1..n)
        PROVE  f[S] = IF S = {} THEN first ELSE Climb(t, f[S \ {Max(S)}])
    <3>1. f[S] = IF S = {} THEN first ELSE step[Max(S)][f[S \ {Max(S)}]]
      BY <1>6 DEF Iterates
    <3>2. S # {} => Max(S) \in 1..n
      BY <1>1, MaxIsLargest
    <3>3. f[S \ {Max(S)}] \in T
      BY <1>6
    <3>4. S # {} => step[Max(S)][f[S \ {Max(S)}]] = Climb(t, f[S \ {Max(S)}])
      BY <3>2, <3>3
    <3> HIDE DEF step
    <3> QED BY <3>1, <3>4
  <2> HIDE DEF step
  <2>2. f = [S \in SUBSET (1..n) |-> f[S]]
    BY <1>6
  <2>3. f = [S \in SUBSET (1..n) |-> IF S = {} THEN first ELSE Climb(t, f[S \ {Max(S)}])]
    BY <2>1, <2>2
  <2> QED BY <1>1, <2>3
<1>8. PICK iter : Makes(iter) /\ Path(t, id) = iter[DOMAIN spans]
  <2> HIDE DEF Makes
  <2> QED BY <1>4, <1>7
<1> HIDE DEF step
<1> DEFINE a == [m \in 0..n |-> iter[1..m]]
<1>9. a[0] = first
  <2>1. 1..0 = {} /\ {} \in SUBSET DOMAIN spans /\ 0 \in 0..n
    BY <1>1
  <2> QED BY <1>8, <2>1
<1>10. ASSUME NEW m \in 1..n PROVE a[m] = Climb(t, a[m - 1])
  <2>1. /\ 1..m \in SUBSET (1..n) /\ 1..m # {}
        /\ Max(1..m) = m /\ (1..m) \ {Max(1..m)} = 1..(m - 1)
    BY <1>1, IterationInOrder
  <2>2. iter[1..m] = Climb(t, iter[(1..m) \ {Max(1..m)}])
    BY <1>1, <1>8, <2>1
  <2>3. m \in 0..n /\ m - 1 \in 0..n
    BY <1>1
  <2> QED BY <2>1, <2>2, <2>3
<1>11. Path(t, id) = a[n] /\ n \in 0..n
  <2>1. n \in 0..n
    BY <1>1
  <2> QED BY <1>1, <1>8, <2>1
<1> HIDE DEF a
<1>12. Preserved(a, T, n)
  <2>1. ASSUME NEW m \in 1..n, a[m - 1] \in T PROVE a[m] \in T
    BY <1>3, <1>10, <2>1
  <2> QED BY <1>2, <1>9, <2>1 DEF Preserved
<1>13. a[n] \in T
  BY <1>1, <1>11, <1>12, PreservedStays DEF StaysIn
<1> QED BY <1>11, <1>13 DEF T

-----------------------------------------------------------------------------
(* The spans of an action group. *)

Grouped(t, depth, root, G) ==
  /\ G \subseteq Ids(t) /\ root \in G
  /\ \A x \in G : x = root \/ Up(t, x) \in G
  /\ \A x \in Ids(t) : Up(t, x) \in G => x \in G
  /\ \A x \in G : depth[root] <= depth[x]

LEMMA GroupIs ==
  ASSUME NEW t, SpansNested(t), NEW depth, Deepens(t, depth), NEW p \in ToSet(t.spans)
  PROVE  Grouped(t, depth, p.id, GroupOf(t, p))
<1> DEFINE D == ToSet(Descendants(t, p.id))
<1>1. p.id \in Ids(t)
  BY SpanOfIs
<1>2. BelowRoot(t, depth, p.id, D)
  BY <1>1, DescendantsAre
<1>3. GroupOf(t, p) = {p.id} \cup D
  BY DEF GroupOf
<1> HIDE DEF D
<1>4. /\ D \subseteq Ids(t)
      /\ \A x \in D : Up(t, x) = p.id \/ Up(t, x) \in D
      /\ \A x \in Ids(t) : Up(t, x) = p.id \/ Up(t, x) \in D => x \in D
      /\ \A x \in D : depth[p.id] < depth[x]
  BY <1>2 DEF BelowRoot, Frontier
<1>5. \A x \in Ids(t) : depth[x] \in Nat
  BY DEF Deepens
<1>6. \A x \in {p.id} \cup D : depth[p.id] <= depth[x]
  BY <1>1, <1>4, <1>5
<1> QED BY <1>1, <1>3, <1>4, <1>6 DEF Grouped

\* A span from which the way up comes by the root of a group is in that group.
LEMMA OnTheWayUp ==
  ASSUME NEW t, SpansNested(t), ~SpansRefused(t), NEW depth, NEW root, NEW G,
         Grouped(t, depth, root, G), NEW x \in Ids(t), root \in ToSet(Path(t, x))
  PROVE  x \in G
<1> DEFINE path == Path(t, x)
           n == Len(path)
<1>1. /\ path \in Seq(Ids(t)) /\ path[1] = x /\ n \in Nat
      /\ \A k \in 1..(n - 1) : path[k + 1] = Up(t, path[k])
  BY PathClimbs DEF Climbs
<1> HIDE DEF path
<1>2. DOMAIN path = 1..n /\ \A k \in 1..n : path[k] \in Ids(t)
  BY <1>1
<1> HIDE DEF n
<1>3. PICK m \in 1..n : path[m] = root
  BY <1>2 DEF ToSet, path
<1> DEFINE Good == {j \in Nat : j < m => path[m - j] \in G}
<1>4. 0 \in Good
  <2>1. m - 0 = m
    OBVIOUS
  <2> QED BY <1>3, <2>1 DEF Grouped
<1>5. ASSUME NEW j \in Nat, j \in Good PROVE j + 1 \in Good
  <2> SUFFICES ASSUME j + 1 < m PROVE path[m - (j + 1)] \in G
    OBVIOUS
  <2> DEFINE k == m - (j + 1)
  <2>1. k \in 1..(n - 1) /\ k \in 1..n /\ k + 1 = m - j /\ j < m
    BY <1>1
  <2>2. path[m - j] \in G
    BY <1>5, <2>1
  <2>3. Up(t, path[k]) = path[m - j]
    BY <1>1, <2>1
  <2> HIDE DEF k
  <2>4. path[k] \in G
    BY <1>2, <2>1, <2>2, <2>3 DEF Grouped
  <2> QED BY <2>4 DEF k
<1>6. Nat \subseteq Good
  <2> HIDE DEF Good
  <2> QED BY <1>4, <1>5, SetInduction
<1>7. m - 1 \in Nat /\ m - 1 < m /\ m - (m - 1) = 1
  BY <1>1
<1>8. path[m - (m - 1)] \in G
  BY <1>6, <1>7
<1> QED BY <1>1, <1>7, <1>8

-----------------------------------------------------------------------------
(* The primary spans. *)

LEMMA PrimariesAre ==
  ASSUME NEW t, SpansNested(t), ~SpansRefused(t), NEW p \in ToSet(Primaries(t))
  PROVE  /\ p \in ToSet(t.spans) /\ p \in TraceSpans /\ Up(t, p.id) \in Ids(t)
         /\ Up(t, p.id) = Head(ExecuteBlocks(t)).id
<1> DEFINE n == Len(t.spans)
           blocks == {k \in DOMAIN t.spans : t.spans[k].name = "execute_block"}
           top == Head(ExecuteBlocks(t))
           places == {k \in DOMAIN t.spans : t.spans[k].parent = top.id}
<1>1. /\ DOMAIN t.spans = 1..n /\ ToSet(t.spans) = {t.spans[i] : i \in 1..n}
      /\ t.spans \in Seq(TraceSpans)
  BY SpanPlaces DEF SpansNested
<1>2. ToSet(ExecuteBlocks(t)) = {t.spans[k] : k \in blocks \cap 1..n}
      /\ ExecuteBlocks(t) \in Seq(TraceSpans)
  BY IdsKept DEF ExecuteBlocks
<1>3. top \in ToSet(ExecuteBlocks(t))
  <2>1. Len(ExecuteBlocks(t)) = 1
    BY DEF SpansRefused
  <2> DEFINE all == ExecuteBlocks(t)
  <2> HIDE DEF all
  <2>2. all \in Seq(TraceSpans) /\ Len(all) = 1
    BY <1>2, <2>1 DEF all
  <2>3. Head(all) = all[1] /\ 1 \in DOMAIN all
    BY <2>2
  <2> QED BY <2>3 DEF ToSet, all
<1> HIDE DEF n
<1>4. top \in ToSet(t.spans)
  BY <1>1, <1>2, <1>3
<1> HIDE DEF top
<1>5. ToSet(Primaries(t)) = {t.spans[k] : k \in places \cap 1..n}
  BY IdsKept DEF Primaries, top, n
<1>6. PICK k \in 1..n : p = t.spans[k] /\ k \in places
  BY <1>5
<1>7. p \in ToSet(t.spans) /\ p.parent = top.id
  BY <1>1, <1>6
<1>8. p \in TraceSpans
  BY <1>1, <1>6 DEF n
<1>9. Up(t, p.id) = p.parent
  BY <1>7, SpanOfIs DEF Up
<1>10. top.id \in Ids(t)
  BY <1>4, SpanOfIs
<1> QED BY <1>7, <1>8, <1>9, <1>10 DEF top

LEMMA GroupsDisjoint ==
  ASSUME NEW t, SpansNested(t), ~SpansRefused(t), NEW p \in ToSet(Primaries(t)),
         NEW q \in ToSet(Primaries(t)), NEW x \in GroupOf(t, p), x \in GroupOf(t, q)
  PROVE  p = q
<1> DEFINE P == GroupOf(t, p)
           Q == GroupOf(t, q)
<1>1. PICK depth : Deepens(t, depth)
  BY DEF SpansNested, Nested
<1>2. /\ p \in ToSet(t.spans) /\ q \in ToSet(t.spans) /\ Up(t, p.id) = Up(t, q.id)
      /\ Up(t, p.id) \in Ids(t)
  BY PrimariesAre
<1>3. Grouped(t, depth, p.id, P) /\ Grouped(t, depth, q.id, Q)
  BY <1>1, <1>2, GroupIs
<1> HIDE DEF P, Q
<1>4. \A y \in Ids(t) : depth[y] \in Nat
  BY <1>1 DEF Deepens
<1>5. p.id \in Ids(t) /\ q.id \in Ids(t) /\ SpanOf(t, p.id) = p /\ SpanOf(t, q.id) = q
  BY <1>2, SpanOfIs
<1>6. p.id = q.id => p = q
  BY <1>5
<1> DEFINE R == Up(t, p.id)
<1>7. depth[R] < depth[p.id] /\ depth[R] < depth[q.id] /\ depth[R] \in Nat
  <2>1. depth[Up(t, p.id)] < depth[p.id] /\ depth[Up(t, p.id)] \in Nat
    BY <1>1, <1>2, <1>5, UpIsHigher
  <2>2. depth[Up(t, q.id)] < depth[q.id]
    BY <1>1, <1>2, <1>5, UpIsHigher
  <2> QED BY <1>2, <2>1, <2>2
<1>8. R \notin P /\ R \notin Q
  <2>1. \A y \in P : depth[p.id] <= depth[y]
    BY <1>3 DEF Grouped
  <2>2. \A y \in Q : depth[q.id] <= depth[y]
    BY <1>3 DEF Grouped
  <2>3. depth[p.id] \in Nat /\ depth[q.id] \in Nat
    BY <1>4, <1>5
  <2> HIDE DEF R
  <2>4. ~(depth[p.id] <= depth[R]) /\ ~(depth[q.id] <= depth[R])
    BY <1>7, <2>3
  <2> QED BY <2>1, <2>2, <2>4
<1> DEFINE Good == {m \in Nat : \A y \in P \cap Q : depth[y] <= m => p = q}
<1>9. ASSUME NEW y \in P \cap Q, p # q PROVE Up(t, y) \in P \cap Q /\ depth[Up(t, y)] < depth[y]
  <2>1. y # p.id
    <3> SUFFICES ASSUME y = p.id PROVE FALSE
      OBVIOUS
    <3>1. y # q.id
      BY <1>6, <1>9
    <3>2. Up(t, y) \in Q
      BY <1>3, <1>9, <3>1 DEF Grouped
    <3> QED BY <1>8, <3>2
  <2>2. y # q.id
    <3> SUFFICES ASSUME y = q.id PROVE FALSE
      OBVIOUS
    <3>1. Up(t, y) \in P
      BY <1>3, <1>9, <2>1 DEF Grouped
    <3> QED BY <1>2, <1>8, <3>1
  <2>3. Up(t, y) \in P /\ Up(t, y) \in Q
    BY <1>3, <1>9, <2>1, <2>2 DEF Grouped
  <2>4. y \in Ids(t) /\ Up(t, y) \in Ids(t)
    BY <1>3, <1>9, <2>3 DEF Grouped
  <2> QED BY <1>1, <2>3, <2>4, UpIsHigher
<1>10. 0 \in Good
  <2> SUFFICES ASSUME NEW y \in P \cap Q, depth[y] <= 0, p # q PROVE FALSE
    OBVIOUS
  <2>1. Up(t, y) \in P \cap Q /\ depth[Up(t, y)] < depth[y]
    BY <1>9
  <2>2. depth[y] \in Nat /\ depth[Up(t, y)] \in Nat
    BY <1>3, <1>4, <2>1 DEF Grouped
  <2> QED BY <2>1, <2>2
<1>11. ASSUME NEW m \in Nat, m \in Good PROVE m + 1 \in Good
  <2> SUFFICES ASSUME NEW y \in P \cap Q, depth[y] <= m + 1, p # q PROVE FALSE
    OBVIOUS
  <2>1. Up(t, y) \in P \cap Q /\ depth[Up(t, y)] < depth[y]
    BY <1>9
  <2>2. depth[y] \in Nat /\ depth[Up(t, y)] \in Nat
    BY <1>3, <1>4, <2>1 DEF Grouped
  <2>3. depth[Up(t, y)] <= m
    BY <2>1, <2>2
  <2> QED BY <1>11, <2>1, <2>3
<1>12. Nat \subseteq Good
  <2> HIDE DEF Good
  <2> QED BY <1>10, <1>11, SetInduction
<1>13. x \in P \cap Q /\ depth[x] \in Nat
  BY <1>3, <1>4 DEF P, Q, Grouped
<1>14. depth[x] \in Good /\ depth[x] <= depth[x]
  BY <1>12, <1>13
<1> QED BY <1>13, <1>14

-----------------------------------------------------------------------------
(* Sums over some of the places of a sequence. *)

Taken(d, K) == [k \in 1..Len(d) |-> IF k \in K THEN d[k] ELSE 0]

LEMMA TakenIs ==
  ASSUME NEW d \in Seq(Int), NEW K
  PROVE  /\ Taken(d, K) \in Seq(Int) /\ Len(Taken(d, K)) = Len(d) /\ Sum(Taken(d, K)) \in Int
         /\ \A k \in 1..Len(d) : Taken(d, K)[k] = IF k \in K THEN d[k] ELSE 0
<1> DEFINE n == Len(d)
<1>1. n \in Nat /\ \A k \in 1..n : d[k] \in Int
  OBVIOUS
<1>2. Taken(d, K) = [k \in 1..n |-> IF k \in K THEN d[k] ELSE 0]
  BY DEF Taken
<1> HIDE DEF n
<1>3. Taken(d, K) \in Seq(Int) /\ Len(Taken(d, K)) = n
  BY <1>1, <1>2
<1>4. Sum(Taken(d, K)) \in Int
  BY <1>3, SumIsNumber
<1>5. \A k \in 1..n : Taken(d, K)[k] = IF k \in K THEN d[k] ELSE 0
  BY <1>2
<1> QED BY <1>3, <1>4, <1>5 DEF n

\* What is zero but at one place adds up to what is there.
LEMMA SumOfOne ==
  ASSUME NEW s \in Seq(Int), NEW j \in 1..Len(s), \A k \in 1..Len(s) : k # j => s[k] = 0
  PROVE  Sum(s) = s[j]
<1> DEFINE n == Len(s)
<1>1. AddsUpTo(Sum(s), s)
  BY SumAddsUp
<1>2. n \in Nat /\ \A k \in 1..n : s[k] \in Int
  OBVIOUS
<1>3. PICK p : /\ p \in [0..n -> Int] /\ p[0] = 0 /\ \A m \in 1..n : p[m] = p[m - 1] + s[m]
               /\ Sum(s) = p[n]
  BY <1>1 DEF AddsUpTo, AddsUp
<1> HIDE DEF n
<1> DEFINE good(m) == p[m] = IF m < j THEN 0 ELSE s[j]
           Good == {m \in Nat : m <= n => good(m)}
<1>4. j \in 1..n /\ s[j] \in Int /\ \A k \in 1..n : k # j => s[k] = 0
  BY <1>2 DEF n
<1>5. 0 \in Good
  BY <1>2, <1>3, <1>4
<1>6. ASSUME NEW m \in Nat, m \in Good PROVE m + 1 \in Good
  <2> SUFFICES ASSUME m + 1 <= n PROVE good(m + 1)
    OBVIOUS
  <2>1. m + 1 \in 1..n /\ (m + 1) - 1 = m /\ m <= n
    BY <1>2
  <2>2. p[m + 1] = p[m] + s[m + 1] /\ good(m)
    BY <1>3, <1>6, <2>1
  <2>3. CASE m + 1 = j
    <3>1. m < j /\ ~(m + 1 < j)
      BY <2>3
    <3> QED BY <1>4, <2>2, <2>3, <3>1
  <2>4. CASE m + 1 # j
    <3>1. s[m + 1] = 0 /\ (m < j <=> m + 1 < j)
      BY <1>4, <2>1, <2>4
    <3>2. p[m] \in Int
      BY <1>4, <2>2
    <3> QED BY <2>2, <3>1, <3>2
  <2> QED BY <2>3, <2>4
<1>7. Nat \subseteq Good
  <2> HIDE DEF Good
  <2> QED BY <1>5, <1>6, SetInduction
<1>8. good(n) /\ ~(n < j)
  BY <1>2, <1>4, <1>7
<1> QED BY <1>3, <1>8

LEMMA TakenNone ==
  ASSUME NEW d \in Seq(Int)
  PROVE  Sum(Taken(d, {})) = 0
<1> DEFINE u == Taken(d, {})
<1>1. u \in Seq(Int) /\ Sum(u) \in Int /\ \A k \in 1..Len(u) : u[k] = 0
  BY TakenIs
<1> HIDE DEF u
<1>2. \A k \in 1..Len(u) : u[k] = u[k] - u[k]
  BY <1>1
<1>3. Sum(u) = Sum(u) - Sum(u)
  BY <1>1, <1>2, SumOfDifferences
<1> QED BY <1>1, <1>3 DEF u

LEMMA TakenWithout ==
  ASSUME NEW d \in Seq(Int), NEW K, NEW j \in 1..Len(d), j \in K
  PROVE  Sum(Taken(d, K)) = d[j] + Sum(Taken(d, K \ {j}))
<1> DEFINE n == Len(d)
           s == Taken(d, K)
           less == Taken(d, K \ {j})
           u == [k \in 1..n |-> IF k = j THEN d[j] ELSE 0]
<1>1. n \in Nat /\ \A k \in 1..n : d[k] \in Int
  OBVIOUS
<1>2. /\ s \in Seq(Int) /\ Len(s) = n /\ Sum(s) \in Int
      /\ \A k \in 1..n : s[k] = IF k \in K THEN d[k] ELSE 0
  BY TakenIs
<1>3. /\ less \in Seq(Int) /\ Len(less) = n /\ Sum(less) \in Int
      /\ \A k \in 1..n : less[k] = IF k \in K \ {j} THEN d[k] ELSE 0
  BY TakenIs
<1> HIDE DEF s, less
<1>4. d[j] \in Int
  OBVIOUS
<1>5. j \in 1..n
  OBVIOUS
<1> HIDE DEF n
<1>6. u \in Seq(Int) /\ Len(u) = n
  BY <1>1, <1>4
<1>7. \A k \in 1..n : u[k] = IF k = j THEN d[j] ELSE 0
  OBVIOUS
<1> HIDE DEF u
<1>8. \A k \in 1..n : u[k] = s[k] - less[k]
  <2> TAKE k \in 1..n
  <2>1. /\ d[k] \in Int /\ u[k] = IF k = j THEN d[j] ELSE 0
        /\ s[k] = IF k \in K THEN d[k] ELSE 0
        /\ less[k] = IF k \in K \ {j} THEN d[k] ELSE 0
    BY <1>1, <1>2, <1>3, <1>7
  <2>2. CASE k = j
    <3>1. u[k] = d[k] /\ s[k] = d[k] /\ less[k] = 0
      BY <2>1, <2>2
    <3> QED BY <2>1, <3>1
  <2>3. CASE k # j
    <3>1. u[k] = 0 /\ s[k] = less[k] /\ (s[k] = d[k] \/ s[k] = 0)
      BY <2>1, <2>3
    <3> QED BY <2>1, <3>1
  <2> QED BY <2>2, <2>3
<1>9. Sum(u) = Sum(s) - Sum(less)
  <2>1. Len(s) = Len(u) /\ Len(less) = Len(u) /\ \A k \in 1..Len(u) : u[k] = s[k] - less[k]
    BY <1>2, <1>3, <1>6, <1>8
  <2>2. s \in Seq(Int) /\ less \in Seq(Int) /\ u \in Seq(Int)
    BY <1>2, <1>3, <1>6
  <2> QED BY <2>1, <2>2, SumOfDifferences
<1>10. Sum(u) = u[j]
  BY <1>5, <1>6, <1>7, SumOfOne
<1>11. u[j] = d[j]
  BY <1>5, <1>7
<1> QED BY <1>2, <1>3, <1>4, <1>9, <1>10, <1>11 DEF s, less

\* Differences of consecutive numbers add up to that of the last and the first.
LEMMA Telescopes ==
  ASSUME NEW n \in Nat, 1 <= n, NEW v \in [1..n -> Int], NEW d \in Seq(Int), Len(d) = n,
         d[1] = 0, \A i \in 2..n : d[i] = v[i] - v[i - 1]
  PROVE  Sum(d) = v[n] - v[1]
<1>1. AddsUpTo(Sum(d), d)
  BY SumAddsUp
<1>2. PICK p : /\ p \in [0..n -> Int] /\ p[0] = 0 /\ \A m \in 1..n : p[m] = p[m - 1] + d[m]
               /\ Sum(d) = p[n]
  BY <1>1 DEF AddsUpTo, AddsUp
<1>3. \A i \in 1..n : v[i] \in Int
  OBVIOUS
<1> DEFINE Good == {m \in Nat : m + 1 <= n => p[m + 1] = v[m + 1] - v[1]}
<1>4. 0 \in Good
  <2>1. 1 \in 1..n /\ 1 - 1 = 0 /\ 0 + 1 = 1
    OBVIOUS
  <2>2. p[1] = p[0] + d[1]
    BY <1>2, <2>1
  <2>3. p[1] = 0 /\ v[1] - v[1] = 0
    BY <1>2, <1>3, <2>1, <2>2
  <2> QED BY <2>1, <2>3
<1>5. ASSUME NEW m \in Nat, m \in Good PROVE m + 1 \in Good
  <2> SUFFICES ASSUME (m + 1) + 1 <= n PROVE p[(m + 1) + 1] = v[(m + 1) + 1] - v[1]
    OBVIOUS
  <2> DEFINE i == (m + 1) + 1
  <2>1. i \in 1..n /\ i \in 2..n /\ i - 1 = m + 1 /\ m + 1 <= n /\ m + 1 \in 1..n /\ 1 \in 1..n
    OBVIOUS
  <2>2. p[m + 1] = v[m + 1] - v[1]
    BY <1>5, <2>1
  <2> HIDE DEF i
  <2>3. p[i] = p[m + 1] + d[i]
    BY <1>2, <2>1
  <2>4. d[i] = v[i] - v[m + 1]
    BY <2>1
  <2>5. v[i] \in Int /\ v[m + 1] \in Int /\ v[1] \in Int
    BY <1>3, <2>1
  <2>6. p[i] = v[i] - v[1]
    BY <2>2, <2>3, <2>4, <2>5
  <2> QED BY <2>6 DEF i
<1>6. Nat \subseteq Good
  <2> HIDE DEF Good
  <2> QED BY <1>4, <1>5, SetInduction
<1>7. n - 1 \in Nat /\ (n - 1) + 1 = n
  OBVIOUS
<1>8. p[n] = v[n] - v[1]
  <2>1. n - 1 \in Good
    BY <1>6, <1>7
  <2> QED BY <1>7, <2>1
<1> QED BY <1>2, <1>8

-----------------------------------------------------------------------------
(* Sums over a set of records, one of each place. *)

\* o[i] is the record of place i, and d[i] its value.
Values(o, I, d) ==
  /\ d \in Seq(Int) /\ I \subseteq 1..Len(d)
  /\ \A i, j \in I : o[i] = o[j] => i = j
  /\ \A i \in I : o[i].value = d[i]

Places(o, I, S) == {i \in I : o[i] \in S}

WorthOf(S, o, I, d) == Sum(Taken(d, Places(o, I, S)))

LEMMA ValueWithout ==
  ASSUME NEW o, NEW I, NEW d, Values(o, I, d), NEW S \in SUBSET {o[i] : i \in I}, NEW x \in S
  PROVE  WorthOf(S, o, I, d) = x.value + WorthOf(S \ {x}, o, I, d)
<1>1. PICK j \in I : x = o[j]
  OBVIOUS
<1>2. Places(o, I, S \ {x}) = Places(o, I, S) \ {j}
  BY <1>1 DEF Places, Values
<1>3. j \in Places(o, I, S) /\ j \in 1..Len(d) /\ d \in Seq(Int) /\ x.value = d[j]
  BY <1>1 DEF Places, Values
<1>4. Sum(Taken(d, Places(o, I, S))) = d[j] + Sum(Taken(d, Places(o, I, S) \ {j}))
  BY <1>3, TakenWithout
<1> QED BY <1>2, <1>3, <1>4 DEF WorthOf

LEMMA FoldOfValues ==
  ASSUME NEW o, NEW I, NEW d, Values(o, I, d)
  PROVE  FoldSet(LAMBDA op, sum : op.value + sum, 0, {o[i] : i \in I})
           = WorthOf({o[i] : i \in I}, o, I, d)
<1> DEFINE ops == {o[i] : i \in I}
           G(S) == WorthOf(S, o, I, d)
           some(S) == CHOOSE x \in S : TRUE
           Makes(iter) == iter = [S \in SUBSET ops |->
                                    IF S = {} THEN 0
                                    ELSE some(S).value + iter[S \ {some(S)}]]
<1>1. FoldSet(LAMBDA op, sum : op.value + sum, 0, ops) = (CHOOSE iter : Makes(iter))[ops]
  BY DEF FoldSet, MapThenFoldSet
<1>2. G({}) = 0
  <2>1. Places(o, I, {}) = {}
    BY DEF Places
  <2> QED BY <2>1, TakenNone DEF WorthOf, Values
<1>3. ASSUME NEW S \in SUBSET ops, S # {} PROVE some(S) \in S
  BY <1>3
<1>4. ASSUME NEW S \in SUBSET ops, NEW x \in S PROVE G(S) = x.value + G(S \ {x})
  BY <1>4, ValueWithout
<1>5. IsFiniteSet(ops)
  <2> DEFINE n == Len(d)
             f == [i \in I |-> o[i]]
  <2>1. I \in SUBSET (1..n) /\ n \in Nat
    BY DEF Values
  <2> HIDE DEF n
  <2>2. IsFiniteSet(1..n)
    BY <2>1, FS_Interval
  <2>3. IsFiniteSet(I)
    BY <2>1, <2>2, FS_Subset
  <2>4. f \in Surjection(I, ops)
    BY DEF Surjection
  <2> QED BY <2>3, <2>4, FS_Surjection
<1> HIDE DEF ops, G, some
<1> DEFINE f == [S \in SUBSET ops |-> G(S)]
<1>6. Makes(f)
  <2>1. ASSUME NEW S \in SUBSET ops
        PROVE  G(S) = IF S = {} THEN 0 ELSE some(S).value + f[S \ {some(S)}]
    <3>1. CASE S = {}
      BY <1>2, <3>1
    <3>2. CASE S # {}
      <4>1. some(S) \in S /\ S \ {some(S)} \in SUBSET ops
        BY <1>3, <3>2
      <4>2. f[S \ {some(S)}] = G(S \ {some(S)})
        BY <4>1
      <4> HIDE DEF f
      <4> QED BY <1>4, <3>2, <4>1, <4>2
    <3> QED BY <3>1, <3>2
  <2>2. f = [S \in SUBSET ops |-> IF S = {} THEN 0 ELSE some(S).value + f[S \ {some(S)}]]
    BY <2>1
  <2> HIDE DEF f
  <2> QED BY <2>2
<1>7. PICK iter : Makes(iter)
                  /\ FoldSet(LAMBDA op, sum : op.value + sum, 0, ops) = iter[ops]
  <2> HIDE DEF Makes, f
  <2> QED BY <1>1, <1>6
<1> DEFINE Good == {m \in Nat : \A S \in SUBSET ops : Cardinality(S) = m => iter[S] = G(S)}
<1>8. \A S \in SUBSET ops : IsFiniteSet(S)
  BY <1>5, FS_Subset
<1>9. 0 \in Good
  <2> SUFFICES ASSUME NEW S \in SUBSET ops, Cardinality(S) = 0 PROVE iter[S] = G(S)
    OBVIOUS
  <2>1. S = {}
    BY <1>8, FS_EmptySet
  <2> QED BY <1>2, <1>7, <2>1
<1>10. ASSUME NEW m \in Nat, m \in Good PROVE m + 1 \in Good
  <2> SUFFICES ASSUME NEW S \in SUBSET ops, Cardinality(S) = m + 1 PROVE iter[S] = G(S)
    OBVIOUS
  <2>1. S # {}
    <3>1. Cardinality({}) = 0
      BY FS_EmptySet
    <3> QED BY <3>1
  <2> DEFINE x == some(S)
  <2>2. x \in S
    BY <1>3, <2>1
  <2>3. iter[S] = x.value + iter[S \ {x}]
    BY <1>7, <2>1
  <2> HIDE DEF x
  <2>4. Cardinality(S \ {x}) = m
    <3>1. IsFiniteSet(S)
      BY <1>8
    <3>2. Cardinality(S \ {x}) = Cardinality(S) - 1
      BY <2>2, <3>1, FS_RemoveElement
    <3> QED BY <3>2
  <2>5. iter[S \ {x}] = G(S \ {x})
    BY <1>10, <2>4
  <2> QED BY <1>4, <2>2, <2>3, <2>5
<1>11. Nat \subseteq Good
  <2> HIDE DEF Good
  <2> QED BY <1>9, <1>10, SetInduction
<1>12. iter[ops] = G(ops)
  <2>1. Cardinality(ops) \in Nat
    BY <1>5, FS_CardinalityType
  <2> QED BY <1>11, <2>1
<1> QED BY <1>7, <1>12 DEF G, ops

-----------------------------------------------------------------------------
(* The accesses to an account and their operations. *)

\* s lists the accesses to account a, each once.
AccessesTo(s, t, a, addresses) ==
  /\ s \in Seq(Nat) /\ 1 <= Len(s)
  /\ \A i \in 1..Len(s) : /\ s[i] \in 1..Len(t.events)
                          /\ t.events[s[i]].data \in [Fields -> Int]
  /\ \A i, j \in 1..Len(s) : s[i] = s[j] => i = j

LEMMA AccountEventsAre ==
  ASSUME NEW addresses, NEW t \in Traces(addresses), NEW a \in Addresses(t)
  PROVE  AccessesTo(AccountEvents(t, a), t, a, addresses)
<1> DEFINE N == Len(t.events)
           all == [e \in DOMAIN t.events |-> e]
           places == {e \in DOMAIN t.events : t.events[e].path = "account"
                                              /\ t.events[e].address = a}
           s == AccountEvents(t, a)
           m == Len(s)
<1>1. /\ t.events \in Seq(TraceEvents(addresses)) /\ N \in Nat /\ DOMAIN t.events = 1..N
      /\ \A e \in 1..N : t.events[e] \in TraceEvents(addresses)
  BY DEF Traces
<1>2. all = [e \in 1..N |-> e]
  BY <1>1
<1>3. PICK e0 \in 1..N : e0 \in places
  BY <1>1 DEF Addresses
<1>4. \A e \in places : e \in 1..N /\ t.events[e].data \in [Fields -> Int]
  BY <1>1 DEF TraceEvents
<1> HIDE DEF N
<1>5. all \in Seq(Nat) /\ Len(all) = N
  BY <1>1, <1>2
<1>6. \A e \in 1..N : all[e] = e
  BY <1>2
<1>7. s = Kept(all, places)
  BY DEF AccountEvents
<1> HIDE DEF all, places, s
<1>8. s \in Seq(Nat) /\ IsListed(s, all, places)
  BY <1>5, <1>7, KeptHasList
<1>9. PICK at : Lists(at, m, places, N) /\ \A i \in 1..m : s[i] = all[at[i]]
  BY <1>5, <1>8 DEF IsListed
<1>10. m \in Nat
  BY <1>8
<1> HIDE DEF m
<1>11. /\ at \in [1..m -> (1..N) \cap places]
       /\ \A i, j \in 1..m : i < j => at[i] < at[j]
       /\ \A k \in (1..N) \cap places : \E i \in 1..m : at[i] = k
  BY <1>9 DEF Lists
<1>12. \A i \in 1..m : at[i] \in 1..N /\ at[i] \in places
  BY <1>11
<1>13. \A i \in 1..m : s[i] = at[i]
  BY <1>6, <1>9, <1>12
<1>14. 1 <= m
  <2>1. PICK i \in 1..m : at[i] = e0
    BY <1>3, <1>11
  <2> QED BY <1>10
<1>15. ASSUME NEW i \in 1..m, NEW j \in 1..m, s[i] = s[j] PROVE i = j
  <2>1. at[i] = at[j] /\ at[i] \in Nat /\ at[j] \in Nat
    BY <1>12, <1>13, <1>15
  <2>2. (i < j => at[i] < at[j]) /\ (j < i => at[j] < at[i])
    BY <1>11
  <2>3. i < j \/ j < i \/ i = j
    BY <1>10
  <2> QED BY <2>1, <2>2, <2>3
<1>16. \A i \in 1..m : s[i] \in 1..N /\ t.events[s[i]].data \in [Fields -> Int]
  BY <1>4, <1>12, <1>13
<1> QED BY <1>8, <1>14, <1>15, <1>16 DEF AccessesTo, s, m, N

ChangeAt(t, a, i, f) ==
  t.events[AccountEvents(t, a)[i]].data[f] - t.events[AccountEvents(t, a)[i - 1]].data[f]

OperationAt(t, a, i, f) ==
  [eventIndex |-> AccountEvents(t, a)[i], address |-> a, field |-> f,
   value |-> ChangeAt(t, a, i, f), parentSpan |-> t.events[AccountEvents(t, a)[i]].span,
   at |-> Attribution(t, AccountEvents(t, a)[i])]

ChangedAt(t, a, f) == {i \in DOMAIN AccountEvents(t, a) \ {1} : ChangeAt(t, a, i, f) # 0}

LEMMA OperationFields ==
  ASSUME NEW t, NEW a, NEW i, NEW f
  PROVE  /\ OperationAt(t, a, i, f).eventIndex = AccountEvents(t, a)[i]
         /\ OperationAt(t, a, i, f).address = a /\ OperationAt(t, a, i, f).field = f
         /\ OperationAt(t, a, i, f).value = ChangeAt(t, a, i, f)
         /\ OperationAt(t, a, i, f).parentSpan = t.events[AccountEvents(t, a)[i]].span
         /\ OperationAt(t, a, i, f).at = Attribution(t, AccountEvents(t, a)[i])
BY DEF OperationAt

IsOperation(op, t, a) == \E f \in Fields : \E i \in ChangedAt(t, a, f) : op = OperationAt(t, a, i, f)

LEMMA OperationsAre ==
  ASSUME NEW t, NEW a, NEW op
  PROVE  op \in OperationsOf(t, a) <=> IsOperation(op, t, a)
<1> DEFINE changes == {c \in (DOMAIN AccountEvents(t, a) \ {1}) \X Fields : ChangeAt(t, a, c[1], c[2]) # 0}
<1>1. OperationsOf(t, a) = {OperationAt(t, a, c[1], c[2]) : c \in changes}
  BY DEF OperationsOf, OperationAt, ChangeAt
<1>2. ASSUME NEW c \in changes PROVE c[2] \in Fields /\ c[1] \in ChangedAt(t, a, c[2])
  BY DEF ChangedAt
<1>3. ASSUME NEW f \in Fields, NEW i \in ChangedAt(t, a, f)
      PROVE  <<i, f>> \in changes /\ <<i, f>>[1] = i /\ <<i, f>>[2] = f
  BY DEF ChangedAt
<1> HIDE DEF changes
<1>4. op \in OperationsOf(t, a) => IsOperation(op, t, a)
  BY <1>1, <1>2 DEF IsOperation
<1>5. ASSUME IsOperation(op, t, a) PROVE op \in OperationsOf(t, a)
  <2>0. PICK f \in Fields : \E i \in ChangedAt(t, a, f) : op = OperationAt(t, a, i, f)
    BY <1>5 DEF IsOperation
  <2>1. PICK i \in ChangedAt(t, a, f) : op = OperationAt(t, a, i, f)
    BY <2>0
  <2> DEFINE c == <<i, f>>
  <2>2. c \in changes /\ op = OperationAt(t, a, c[1], c[2])
    BY <1>3, <2>1
  <2> HIDE DEF c
  <2> QED BY <1>1, <2>2
<1> QED BY <1>4, <1>5

LEMMA OperationsTold ==
  ASSUME NEW t, ActionsAndOps(t) # Error, NEW op
  PROVE  op \in ActionsAndOps(t).operations <=> \E a \in Addresses(t) : IsOperation(op, t, a)
<1> DEFINE answer == [actions |-> ActionsOf(t),
                      operations |-> UNION {OperationsOf(t, a) : a \in Addresses(t)}]
<1>1. ActionsAndOps(t) = answer
  BY DEF ActionsAndOps
<1>2. ActionsAndOps(t).operations = UNION {OperationsOf(t, a) : a \in Addresses(t)}
  BY <1>1
<1> QED BY <1>2, OperationsAre

LEMMA Conserves ==
  ASSUME NEW addresses, NEW t \in Traces(addresses)
  PROVE  OperationsConserve(t)
<1> SUFFICES ASSUME ActionsAndOps(t) # Error, NEW a \in Addresses(t), NEW f \in Fields
             PROVE  FoldSet(LAMBDA op, sum : op.value + sum, 0,
                            {op \in ActionsAndOps(t).operations : op.address = a /\ op.field = f})
                      = t.events[Last(AccountEvents(t, a))].data[f]
                        - t.events[Head(AccountEvents(t, a))].data[f]
  BY DEF OperationsConserve
<1> DEFINE ops == {op \in ActionsAndOps(t).operations : op.address = a /\ op.field = f}
           s == AccountEvents(t, a)
           n == Len(s)
           I == ChangedAt(t, a, f)
           o == [i \in 1..n |-> OperationAt(t, a, i, f)]
           v == [i \in 1..n |-> t.events[s[i]].data[f]]
           d == [i \in 1..n |-> IF i = 1 THEN 0 ELSE ChangeAt(t, a, i, f)]
<1>1. AccessesTo(s, t, a, addresses)
  BY AccountEventsAre
<1>2. s \in Seq(Nat) /\ n \in Nat /\ 1 <= n /\ DOMAIN s = 1..n
  BY <1>1 DEF AccessesTo
<1>3. \A i \in 1..n : t.events[s[i]].data \in [Fields -> Int]
  BY <1>1 DEF AccessesTo
<1>4. \A i, j \in 1..n : s[i] = s[j] => i = j
  BY <1>1 DEF AccessesTo
<1>5. Last(s) = s[n] /\ Head(s) = s[1]
  BY <1>2 DEF Last
<1>6. I = {i \in (1..n) \ {1} : ChangeAt(t, a, i, f) # 0}
  BY <1>2 DEF ChangedAt
<1>7. \A i : ChangeAt(t, a, i, f) = t.events[s[i]].data[f] - t.events[s[i - 1]].data[f]
  BY DEF ChangeAt
<1>8. \A i : OperationAt(t, a, i, f).eventIndex = s[i]
  BY OperationFields
<1> HIDE DEF s, n, I
<1>9. \A i \in 1..n : v[i] = t.events[s[i]].data[f] /\ v[i] \in Int
  BY <1>3
<1>10. v \in [1..n -> Int]
  BY <1>3
<1>11. \A i \in 1..n : o[i] = OperationAt(t, a, i, f)
  OBVIOUS
<1>12. \A i \in 1..n : d[i] = IF i = 1 THEN 0 ELSE ChangeAt(t, a, i, f)
  OBVIOUS
<1>121. d = [i \in 1..n |-> d[i]]
  OBVIOUS
<1> HIDE DEF o, v, d
<1>13. ASSUME NEW i \in (1..n) \ {1}
       PROVE  /\ i \in 2..n /\ i - 1 \in 1..n /\ d[i] = v[i] - v[i - 1] /\ d[i] \in Int
              /\ d[i] = ChangeAt(t, a, i, f)
  <2>1. i \in 2..n /\ i - 1 \in 1..n /\ i \in 1..n
    BY <1>2
  <2>2. d[i] = ChangeAt(t, a, i, f)
    BY <1>12, <2>1
  <2>3. v[i] = t.events[s[i]].data[f] /\ v[i - 1] = t.events[s[i - 1]].data[f]
        /\ v[i] \in Int /\ v[i - 1] \in Int
    BY <1>9, <2>1
  <2>4. d[i] = v[i] - v[i - 1]
    BY <1>7, <2>2, <2>3
  <2>5. d[i] \in Int
    BY <2>3, <2>4
  <2> QED BY <2>1, <2>2, <2>4, <2>5
<1>14. 1 \in 1..n /\ d[1] = 0
  BY <1>2, <1>12
<1>15. ASSUME NEW i \in 1..n PROVE d[i] \in Int
  <2>1. i # 1 => i \in (1..n) \ {1}
    OBVIOUS
  <2> QED BY <1>13, <1>14, <2>1
<1>16. d \in Seq(Int) /\ Len(d) = n
  <2>1. d \in [1..n -> Int]
    BY <1>15, <1>121
  <2> QED BY <1>2, <2>1
<1>17. \A i \in 2..n : i \in (1..n) \ {1}
  BY <1>2
<1>18. Sum(d) = v[n] - v[1]
  <2>1. \A i \in 2..n : d[i] = v[i] - v[i - 1]
    BY <1>13, <1>17
  <2> QED BY <1>2, <1>10, <1>14, <1>16, <2>1, Telescopes
<1>19. \A i \in I : i \in 1..n /\ i \in (1..n) \ {1}
  BY <1>6
<1>20. Values(o, I, d)
  <2>1. I \subseteq 1..Len(d)
    BY <1>16, <1>19
  <2>2. ASSUME NEW i \in I, NEW j \in I, o[i] = o[j] PROVE i = j
    <3>1. i \in 1..n /\ j \in 1..n
      BY <1>19
    <3>2. s[i] = s[j]
      BY <1>8, <1>11, <2>2, <3>1
    <3> QED BY <1>4, <3>1, <3>2
  <2>3. ASSUME NEW i \in I PROVE o[i].value = d[i]
    <3>1. i \in 1..n /\ i \in (1..n) \ {1}
      BY <1>19
    <3>2. o[i].value = ChangeAt(t, a, i, f)
      BY <1>11, <3>1, OperationFields
    <3> QED BY <1>13, <3>1, <3>2
  <2> QED BY <1>16, <2>1, <2>2, <2>3 DEF Values
<1>21. ops = {o[i] : i \in I}
  <2>1. ASSUME NEW op \in ops PROVE op \in {o[i] : i \in I}
    <3>1. PICK b \in Addresses(t) : IsOperation(op, t, b)
      BY OperationsTold
    <3>0. PICK g \in Fields : \E i \in ChangedAt(t, b, g) : op = OperationAt(t, b, i, g)
      BY <3>1 DEF IsOperation
    <3>2. PICK i \in ChangedAt(t, b, g) : op = OperationAt(t, b, i, g)
      BY <3>0
    <3>3. b = a /\ g = f
      BY <3>2, OperationFields
    <3>4. i \in I
      BY <3>2, <3>3 DEF I
    <3> QED BY <1>11, <1>19, <3>2, <3>3, <3>4
  <2>2. ASSUME NEW i \in I PROVE o[i] \in ops
    <3>1. o[i] = OperationAt(t, a, i, f)
      BY <1>11, <1>19
    <3>2. IsOperation(o[i], t, a)
      BY <3>1 DEF IsOperation, I
    <3>3. o[i] \in ActionsAndOps(t).operations
      BY <3>2, OperationsTold
    <3>4. o[i].address = a /\ o[i].field = f
      BY <3>1, OperationFields
    <3> QED BY <3>3, <3>4
  <2> HIDE DEF ops
  <2> QED BY <2>1, <2>2
<1> HIDE DEF ops
<1>22. FoldSet(LAMBDA op, sum : op.value + sum, 0, {o[i] : i \in I}) = WorthOf({o[i] : i \in I}, o, I, d)
  BY <1>20, FoldOfValues
<1>23. Places(o, I, {o[i] : i \in I}) = I
  BY DEF Places
<1>24. Taken(d, I) = d
  <2>1. Taken(d, I) \in Seq(Int) /\ Len(Taken(d, I)) = n
    BY <1>16, TakenIs
  <2>2. \A i \in 1..n : Taken(d, I)[i] = IF i \in I THEN d[i] ELSE 0
    BY <1>16, TakenIs
  <2>3. ASSUME NEW i \in 1..n PROVE Taken(d, I)[i] = d[i]
    <3>1. CASE i \in I
      BY <2>2, <3>1
    <3>2. CASE i \notin I
      <4>1. i = 1 \/ ChangeAt(t, a, i, f) = 0
        BY <1>6, <3>2
      <4>2. d[i] = 0
        BY <1>12, <1>13, <1>14, <4>1
      <4> QED BY <2>2, <3>2, <4>2
    <3> QED BY <3>1, <3>2
  <2>4. DOMAIN d = 1..n /\ d = [i \in 1..n |-> d[i]]
    BY <1>16
  <2>5. DOMAIN Taken(d, I) = 1..n /\ Taken(d, I) = [i \in 1..n |-> Taken(d, I)[i]]
    BY <2>1
  <2> QED BY <2>3, <2>4, <2>5
<1>25. FoldSet(LAMBDA op, sum : op.value + sum, 0, ops) = Sum(d)
  BY <1>21, <1>22, <1>23, <1>24 DEF WorthOf
<1>26. v[n] = t.events[Last(s)].data[f] /\ v[1] = t.events[Head(s)].data[f]
  BY <1>2, <1>5, <1>9
<1>27. FoldSet(LAMBDA op, sum : op.value + sum, 0, ops)
         = t.events[Last(s)].data[f] - t.events[Head(s)].data[f]
  BY <1>18, <1>25, <1>26
<1> QED BY <1>27 DEF ops, s

-----------------------------------------------------------------------------
(* The extrinsic or hook of an operation. *)

LEMMA IndexOfSpanIs ==
  ASSUME NEW addresses, NEW t \in Traces(addresses), NEW id
  PROVE  IndexOfSpan(t, id) \in Nat \cup {Null}
<1> DEFINE N == Len(t.events)
           reads == {e \in EventsOf(t, id) : t.events[e].path = "index"}
<1>1. /\ N \in Nat /\ DOMAIN t.events = 1..N
      /\ \A e \in 1..N : t.events[e] \in TraceEvents(addresses)
  BY DEF Traces
<1>2. \A e \in reads : e \in 1..N /\ t.events[e].index \in Nat
  BY <1>1 DEF EventsOf, TraceEvents
<1>3. IndexOfSpan(t, id) = IF reads = {} THEN Null ELSE t.events[Max(reads)].index
  BY DEF IndexOfSpan
<1> HIDE DEF N, reads
<1>4. reads # {} => Max(reads) \in reads
  <2>1. reads \in SUBSET (1..N)
    BY <1>2
  <2> QED BY <1>1, <2>1, MaxIsLargest
<1> QED BY <1>2, <1>3, <1>4

LEMMA DescendantsAreIds ==
  ASSUME NEW t, SpansNested(t), NEW root
  PROVE  Descendants(t, root) \in Seq(Ids(t))
<1>1. PICK a : WalkedBy(a, t, root)
  BY WalkStepwise DEF IsWalked
<1> DEFINE n == Len(t.spans)
<1>2. n \in Nat
  BY SpanPlaces
<1>3. Descendants(t, root) = a[n].found /\ a \in [0..n -> WalkStates(t)]
  BY <1>1 DEF WalkedBy
<1> HIDE DEF n
<1>4. n \in 0..n
  BY <1>2
<1>5. a[n] \in WalkStates(t)
  BY <1>3, <1>4
<1> QED BY <1>3, <1>5 DEF WalkStates

Attributions == [primarySpan : Nat, phase : STRING, extrinsicIndex : Nat \cup {Null}]

AttributionTo(t, p) ==
  [primarySpan |-> Action(t, p).primarySpan, phase |-> Action(t, p).phase,
   extrinsicIndex |-> Action(t, p).extrinsicIndex]

LEMMA ActionFields ==
  ASSUME NEW t, NEW p
  PROVE  /\ Action(t, p).primarySpan = p.id /\ Action(t, p).phase = ActionPhase(t, p)
         /\ Action(t, p).extrinsicIndex
              = IF IsExtrinsic(p) /\ IndicesOf(t, GroupOf(t, p)) # {}
                THEN CHOOSE i \in IndicesOf(t, GroupOf(t, p)) : TRUE ELSE Null
BY DEF Action

Claims(t, p, e) == EventsOf(t, p.id) # {} /\ \E id \in GroupOf(t, p) : e \in EventsOf(t, id)

LEMMA ActionEvents ==
  ASSUME NEW t, NEW p, NEW e
  PROVE  e \in Action(t, p).events <=> Claims(t, p, e)
<1>1. Action(t, p).events = IF EventsOf(t, p.id) = {} THEN {}
                            ELSE UNION {EventsOf(t, id) : id \in GroupOf(t, p)}
  BY DEF Action
<1> QED BY <1>1 DEF Claims

LEMMA AttributionFields ==
  ASSUME NEW t, NEW p
  PROVE  /\ AttributionTo(t, p).primarySpan = p.id
         /\ AttributionTo(t, p).phase = ActionPhase(t, p)
         /\ AttributionTo(t, p).extrinsicIndex = Action(t, p).extrinsicIndex
BY DEF AttributionTo, Action

LEMMA PhaseIs ==
  ASSUME NEW t, SpansNested(t), NEW p \in TraceSpans
  PROVE  ActionPhase(t, p) \in STRING
<1> DEFINE below == Descendants(t, p.id)
<1>1. p.name \in STRING
  BY DEF TraceSpans
<1>2. below \in Seq(Ids(t))
  BY DescendantsAreIds
<1>3. ActionPhase(t, p) = IF IsExtrinsic(p) \/ below = <<>> THEN p.name
                          ELSE SpanOf(t, Head(below)).name
  BY DEF ActionPhase
<1> HIDE DEF below
<1>4. ASSUME below # <<>> PROVE SpanOf(t, Head(below)).name \in STRING
  <2>1. Head(below) \in Ids(t)
    BY <1>2, <1>4
  <2>2. SpanOf(t, Head(below)) \in ToSet(t.spans)
    BY <2>1, SpanOfId
  <2>3. PICK k : k \in 1..Len(t.spans) /\ SpanOf(t, Head(below)) = t.spans[k]
    BY <2>2, SpanHasPlace DEF HasPlace, SpanAt
  <2>4. t.spans[k] \in TraceSpans
    BY <2>3 DEF SpansNested
  <2> QED BY <2>3, <2>4 DEF TraceSpans
<1> QED BY <1>1, <1>3, <1>4

LEMMA AttributionIsTyped ==
  ASSUME NEW addresses, NEW t \in Traces(addresses), NEW p \in TraceSpans
  PROVE  AttributionTo(t, p) \in Attributions /\ AttributionTo(t, p) # Null
<1> DEFINE indices == IndicesOf(t, GroupOf(t, p))
           index == Action(t, p).extrinsicIndex
<1>1. indices \subseteq Nat
  BY IndexOfSpanIs DEF IndicesOf
<1>2. index = IF IsExtrinsic(p) /\ indices # {} THEN CHOOSE i \in indices : TRUE ELSE Null
  BY ActionFields
<1> HIDE DEF indices, index
<1>3. index \in Nat \cup {Null}
  BY <1>1, <1>2
<1>4. p.id \in Nat
  BY DEF TraceSpans
<1>5. ActionPhase(t, p) \in STRING
  BY PhaseIs, TraceIsNested
<1>6. Action(t, p).primarySpan \in Nat /\ Action(t, p).phase \in STRING
  BY <1>4, <1>5, ActionFields
<1>7. AttributionTo(t, p) \in Attributions
  BY <1>3, <1>6 DEF AttributionTo, Attributions, index
<1> QED BY <1>7, AttributionAssumption DEF Attributions

\* The one action that claims an event below a primary span is the one of that span.
LEMMA EventIsAttributed ==
  ASSUME NEW addresses, NEW t \in Traces(addresses), ~SpansRefused(t),
         NEW p \in ToSet(Primaries(t)), EventsOf(t, p.id) # {},
         NEW e \in 1..Len(t.events), p.id \in ToSet(Path(t, t.events[e].span))
  PROVE  Attribution(t, e) = AttributionTo(t, p)
<1> DEFINE x == t.events[e].span
           actions == ToSet(ActionsOf(t))
           found == {a \in actions : e \in a.events}
<1>1. SpansNested(t) /\ x \in Ids(t)
  BY TraceIsNested DEF Traces
<1>2. PICK depth : Deepens(t, depth)
  BY <1>1 DEF SpansNested, Nested
<1>3. p \in ToSet(t.spans)
  BY <1>1, PrimariesAre
<1>4. Grouped(t, depth, p.id, GroupOf(t, p))
  BY <1>1, <1>2, <1>3, GroupIs
<1>5. x \in GroupOf(t, p)
  BY <1>1, <1>4, OnTheWayUp
<1>6. \A id : e \in EventsOf(t, id) <=> id = x
  <2>1. DOMAIN t.events = 1..Len(t.events)
    BY DEF Traces
  <2> QED BY <2>1 DEF EventsOf
<1>7. ToSet(Primaries(t)) = {Primaries(t)[k] : k \in DOMAIN Primaries(t)}
  BY DEF ToSet
<1>8. actions = {Action(t, Primaries(t)[k]) : k \in DOMAIN Primaries(t)}
  BY DEF ToSet, ActionsOf
<1> HIDE DEF actions
<1>9. \A a \in actions : \E q \in ToSet(Primaries(t)) : a = Action(t, q)
  BY <1>7, <1>8
<1>10. Action(t, p) \in actions
  BY <1>7, <1>8
<1> HIDE DEF x
<1>11. e \in Action(t, p).events
  BY <1>5, <1>6, ActionEvents DEF Claims
<1>12. ASSUME NEW a \in found PROVE a = Action(t, p)
  <2>1. PICK q \in ToSet(Primaries(t)) : a = Action(t, q)
    BY <1>9
  <2>2. e \in Action(t, q).events
    BY <2>1
  <2>3. PICK id \in GroupOf(t, q) : e \in EventsOf(t, id)
    BY <2>2, ActionEvents DEF Claims
  <2>4. x \in GroupOf(t, q)
    BY <1>6, <2>3
  <2>5. p = q
    BY <1>1, <1>5, <2>4, GroupsDisjoint
  <2> QED BY <2>1, <2>5
<1>13. Action(t, p) \in found
  BY <1>10, <1>11
<1>14. Attribution(t, e)
         = IF found = {} THEN Null
           ELSE LET a == CHOOSE a \in found : TRUE
                IN  [primarySpan |-> a.primarySpan, phase |-> a.phase,
                     extrinsicIndex |-> a.extrinsicIndex]
  BY DEF Attribution, actions
<1> HIDE DEF found
<1>15. found # {} /\ (CHOOSE a \in found : TRUE) = Action(t, p)
  BY <1>12, <1>13
<1> QED BY <1>14, <1>15 DEF AttributionTo

LEMMA GroupOfTrace ==
  ASSUME NEW t, SpansNested(t), NEW p \in ToSet(t.spans)
  PROVE  GroupOf(t, p) \subseteq Ids(t)
<1>1. PICK depth : Deepens(t, depth)
  BY DEF SpansNested, Nested
<1> QED BY <1>1, GroupIs DEF Grouped

LEMMA OneIndex ==
  ASSUME NEW addresses, NEW t \in Traces(addresses), NEW p \in ToSet(t.spans),
         IsExtrinsic(p), ~IndexRefused(t, p), NEW id \in GroupOf(t, p),
         IndexOfSpan(t, id) # Null
  PROVE  Action(t, p).extrinsicIndex = IndexOfSpan(t, id)
<1> DEFINE G == GroupOf(t, p)
           indices == IndicesOf(t, G)
           all == {IndexOfSpan(t, i) : i \in G}
           f == [i \in G |-> IndexOfSpan(t, i)]
<1>1. SpansNested(t)
  BY TraceIsNested
<1>2. IsFiniteSet(G)
  <2>1. G \subseteq Ids(t) /\ IsFiniteSet(Ids(t))
    BY <1>1, GroupOfTrace, IdsCounted
  <2> HIDE DEF G
  <2> QED BY <2>1, FS_Subset
<1>3. Cardinality(indices) <= 1 /\ ~(Cardinality(indices) > 1)
  <2>1. ~(Cardinality(indices) > 1)
    BY DEF IndexRefused
  <2>2. IsFiniteSet(indices)
    <3> HIDE DEF G
    <3>1. f \in Surjection(G, all)
      BY DEF Surjection
    <3>2. IsFiniteSet(all)
      BY <1>2, <3>1, FS_Surjection
    <3>3. indices \subseteq all
      BY DEF IndicesOf
    <3> HIDE DEF indices, all
    <3> QED BY <3>2, <3>3, FS_Subset
  <2>3. Cardinality(indices) \in Nat
    <3> HIDE DEF indices
    <3> QED BY <2>2, FS_CardinalityType
  <2> HIDE DEF indices
  <2> QED BY <2>1, <2>3
<1>4. IndexOfSpan(t, id) \in indices
  BY DEF IndicesOf
<1>5. IsFiniteSet(indices)
  <2> HIDE DEF G
  <2>1. f \in Surjection(G, all)
    BY DEF Surjection
  <2>2. IsFiniteSet(all)
    BY <1>2, <2>1, FS_Surjection
  <2>3. indices \subseteq all
    BY DEF IndicesOf
  <2> HIDE DEF indices, all
  <2> QED BY <2>2, <2>3, FS_Subset
<1>6. Action(t, p).extrinsicIndex = IF indices # {} THEN CHOOSE i \in indices : TRUE ELSE Null
  BY ActionFields
<1> HIDE DEF indices, G
<1> DEFINE chosen == CHOOSE i \in indices : TRUE
<1>7. chosen \in indices
  BY <1>4
<1> HIDE DEF chosen
<1>8. Cardinality(indices \ {chosen}) = Cardinality(indices) - 1 /\ IsFiniteSet(indices \ {chosen})
  BY <1>5, <1>7, FS_RemoveElement
<1>9. Cardinality(indices) \in Nat /\ Cardinality(indices \ {chosen}) \in Nat
  BY <1>5, <1>8, FS_CardinalityType
<1>10. Cardinality(indices \ {chosen}) = 0
  BY <1>3, <1>8, <1>9
<1>11. indices \ {chosen} = {}
  BY <1>8, <1>10, FS_EmptySet
<1>12. IndexOfSpan(t, id) = chosen
  BY <1>4, <1>11
<1> QED BY <1>4, <1>6, <1>12 DEF chosen

LEMMA Attributes ==
  ASSUME NEW addresses, NEW t \in Traces(addresses)
  PROVE  OperationsAttributed(t)
<1> SUFFICES ASSUME ActionsAndOps(t) # Error, NEW op \in ActionsAndOps(t).operations,
                    NEW p \in ToSet(Primaries(t)), EventsOf(t, p.id) # {},
                    p.id \in ToSet(Path(t, op.parentSpan))
             PROVE  /\ op.at # Null /\ op.at.primarySpan = p.id
                    /\ IsExtrinsic(p) => op.at.phase = "apply_extrinsic"
                    /\ \A id \in Ids(t) :
                         IsExtrinsic(p) /\ p.id \in ToSet(Path(t, id)) /\ IndexOfSpan(t, id) # Null
                         => op.at.extrinsicIndex = IndexOfSpan(t, id)
  BY DEF OperationsAttributed
<1>1. SpansNested(t)
  BY TraceIsNested
<1>2. ~SpansRefused(t) /\ \A k \in DOMAIN Primaries(t) : ~IndexRefused(t, Primaries(t)[k])
  BY DEF ActionsAndOps
<1>3. ~IndexRefused(t, p)
  BY <1>2 DEF ToSet
<1>4. PICK a \in Addresses(t) : IsOperation(op, t, a)
  BY OperationsTold
<1>5. PICK f \in Fields : \E i \in ChangedAt(t, a, f) : op = OperationAt(t, a, i, f)
  BY <1>4 DEF IsOperation
<1>6. PICK i \in ChangedAt(t, a, f) : op = OperationAt(t, a, i, f)
  BY <1>5
<1> DEFINE s == AccountEvents(t, a)
           e == s[i]
<1>7. op.parentSpan = t.events[e].span /\ op.at = Attribution(t, e)
  BY <1>6, OperationFields
<1>8. e \in 1..Len(t.events)
  <2>1. AccessesTo(s, t, a, addresses)
    BY AccountEventsAre
  <2>2. i \in DOMAIN s
    BY <1>6 DEF ChangedAt
  <2>3. i \in 1..Len(s)
    BY <2>1, <2>2 DEF AccessesTo
  <2> QED BY <2>1, <2>3 DEF AccessesTo
<1> HIDE DEF e
<1>9. op.at = AttributionTo(t, p)
  BY <1>2, <1>7, <1>8, EventIsAttributed
<1>10. p \in ToSet(t.spans) /\ p \in TraceSpans
  BY <1>1, <1>2, PrimariesAre
<1>11. op.at # Null
  BY <1>9, <1>10, AttributionIsTyped
<1>12. /\ op.at.primarySpan = p.id /\ op.at.phase = ActionPhase(t, p)
       /\ op.at.extrinsicIndex = Action(t, p).extrinsicIndex
  BY <1>9, AttributionFields
<1>13. IsExtrinsic(p) => op.at.phase = "apply_extrinsic"
  BY <1>12 DEF ActionPhase, IsExtrinsic
<1>14. ASSUME NEW id \in Ids(t), IsExtrinsic(p), p.id \in ToSet(Path(t, id)),
              IndexOfSpan(t, id) # Null
       PROVE  op.at.extrinsicIndex = IndexOfSpan(t, id)
  <2>1. PICK depth : Deepens(t, depth)
    BY <1>1 DEF SpansNested, Nested
  <2>2. Grouped(t, depth, p.id, GroupOf(t, p))
    BY <1>1, <1>10, <2>1, GroupIs
  <2>3. id \in GroupOf(t, p)
    BY <1>1, <1>2, <1>14, <2>2, OnTheWayUp
  <2>4. Action(t, p).extrinsicIndex = IndexOfSpan(t, id)
    BY <1>3, <1>10, <1>14, <2>3, OneIndex
  <2> QED BY <1>12, <2>4
<1> QED BY <1>11, <1>12, <1>13, <1>14

TraceInputs(addresses) == [kind : {"trace"}, trace : Traces(addresses)]

\* The operations of a block's trace tell the change of each balance over the
\* block, no change twice, and each is told of the extrinsic or hook in whose
\* span it happened, at any depth below it.
THEOREM EveryOperationExact ==
  ASSUME NEW addresses, input \in TraceInputs(addresses)
  PROVE  OperationsExact
<1>1. input.trace \in Traces(addresses)
  BY DEF TraceInputs
<1>2. OperationsConserve(input.trace)
  BY <1>1, Conserves
<1>3. OperationsAttributed(input.trace)
  BY <1>1, Attributes
<1> QED BY <1>2, <1>3 DEF OperationsExact
=============================================================================
