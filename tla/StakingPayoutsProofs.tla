------------------------- MODULE StakingPayoutsProofs -------------------------
(***************************************************************************)
(* For every chain state and every request: no era is read where it is     *)
(* pruned or not yet paid; the ledger cache that all lookups share never   *)
(* changes what one of them finds; the answer's eras ascend and none that  *)
(* was paid for is left out; and each pays exactly what the account has at *)
(* stake.  The second holds for a reason its author did not want: every    *)
(* lookup of a chain looks into the cache before the first of them has put *)
(* a ledger there, so none takes the short way and the cache spares no     *)
(* query.  The last needs what the loops compute, for lists of any length: *)
(* how the nominations of an account lie in the list they are flattened    *)
(* into, and what place the counting of deriveEraPayouts gives to each.    *)
(***************************************************************************)
EXTENDS StakingPayouts, FiniteSetTheorems, FunctionTheorems, NaturalsInduction,
        SequenceTheorems, WellFoundedInduction, TLAPS

LookupStates == {"none", "prefs", "bonded", "ledger", "done", "failed"}

LookupsTyped ==
  /\ world \in Worlds /\ request \in Requests /\ chain \in Chains
  /\ pc \in {"idle", "general", "lookups", "answered", "refused"}
  /\ lookup \in [Tasks -> LookupStates]
  /\ ledger \in [Tasks -> BOOLEAN]

\* What Check let through.
Asked == pc \in {"general", "lookups", "answered"} =>
           ~Refused /\ range = <<FirstAsked, LastAsked>>

\* A lookup is under way only after its chain's lookups were started, which
\* was with an empty cache.
CacheSound ==
  /\ cache \subseteq world.ledgers[chain]
  /\ pc \in {"idle", "general"} => cache = {}
  /\ \A t \in Tasks : lookup[t] \in {"prefs", "bonded", "ledger"} =>
                      pc \in {"lookups", "refused"} /\ t \in Lookups(chain)
  /\ \A t \in Tasks : lookup[t] # "prefs"
  /\ \A t \in Tasks : lookup[t] \in {"bonded", "ledger"} => ~ledger[t]

IInv == LookupsTyped /\ Asked /\ CacheSound /\ LookupsExact

LEMMA InitEstablishes == Init => IInv
<1> SUFFICES ASSUME Init PROVE IInv
  OBVIOUS
<1>1. LookupsTyped
  BY DEF Init, LookupsTyped, LookupStates, Chains
<1> QED
  BY <1>1 DEF Init, IInv, Asked, CacheSound, LookupsExact

\* The world and the request stay, and Refused is about them only.
LEMMA RefusedStays ==
  ASSUME UNCHANGED <<world, request>>
  PROVE  /\ Refused' = Refused /\ FirstAsked' = FirstAsked /\ LastAsked' = LastAsked
BY DEF Refused, EraTooLarge, ParametersDisabled, InHistory, EraArg, SanitizedDepth,
       FirstAsked, LastAsked

\* What a lookup is about depends on the chain that is fetched and the range.
LEMMA LookupsStay ==
  ASSUME UNCHANGED <<world, request, range, chain>>
  PROVE  /\ Lookups(chain)' = Lookups(chain)
         /\ \A t \in Tasks : Validator(t)' = Validator(t)
<1>1. \A t \in Tasks : Validator(t)' = Validator(t)
  BY DEF Validator, Info
<1>2. Part(chain)' = Part(chain)
  BY DEF Part
<1>3. \A t \in Tasks : NominatedExposures(Info(chain, t[1]))' = NominatedExposures(Info(chain, t[1]))
  BY DEF Info
<1> QED
  BY <1>1, <1>2, <1>3 DEF Lookups

LEMMA StepKeeps == IInv /\ [Next]_vars => IInv'
<1> SUFFICES ASSUME IInv, [Next]_vars PROVE IInv'
  OBVIOUS
<1> USE DEF IInv
<1>0. UNCHANGED <<world, request>>
  BY DEF Next, Check, FetchCommissions, DerivePayouts, Deliver, ReadFails, Done,
     PrefsAnswered, LedgerAnswered, vars
<1>a. world.ledgers[chain] \subseteq world.bonded[chain]
  BY StakingAssumption DEF LookupsTyped
<1>1. CASE Check
  <2>1. LookupsTyped' /\ cache' = {}
    BY <1>1 DEF Check, GoTo, Chains, LookupsTyped, CacheSound
  <2>2. Asked'
    BY <1>0, <1>1, RefusedStays DEF Check, GoTo, Asked
  <2>3. \A t \in Tasks : lookup'[t] \notin {"prefs", "bonded", "ledger"}
    BY <1>1 DEF Check, CacheSound
  <2>4. pc' # "lookups"
    BY <1>1 DEF Check, GoTo
  <2> QED
    BY <2>1, <2>2, <2>3, <2>4 DEF CacheSound, LookupsExact
<1>2. CASE FetchCommissions
  <2>1. Asked'
    BY <1>0, <1>2, RefusedStays DEF FetchCommissions, Asked
  <2>2. chain' = chain /\ Lookups(chain)' = Lookups(chain) /\ \A t \in Tasks : Validator(t)' = Validator(t)
    BY <1>2, LookupsStay DEF FetchCommissions
  <2>3. /\ LookupsTyped'
        /\ \A t \in Tasks : /\ lookup'[t] \in {"none", "prefs", "bonded"}
                            /\ lookup'[t] # "none" => t \in Lookups(chain)
                            /\ lookup'[t] = "prefs" => Validator(t) \in cache
    BY <1>2 DEF FetchCommissions, LookupsTyped, LookupStates
  <2>4. CacheSound'
    BY <1>0, <1>2, <2>2, <2>3 DEF FetchCommissions, CacheSound
  <2>5. LookupsExact'
    <3>1. Lookups(chain)' \subseteq Tasks
      BY DEF Lookups
    <3> QED
      BY <2>3, <3>1 DEF LookupsExact
  <2> QED
    BY <2>1, <2>3, <2>4, <2>5
<1>3. CASE DerivePayouts
  <2>1. /\ pc = "lookups" /\ pc' # "lookups" /\ UNCHANGED lookup
        /\ cache' = {} \/ UNCHANGED <<cache, chain>>
        /\ \A t \in Lookups(chain) : lookup[t] = "done"
    BY <1>3 DEF DerivePayouts, Deliver, LookupsIn, GoTo
  <2>2. LookupsTyped'
    BY <1>3 DEF DerivePayouts, Deliver, LookupsIn, GoTo, Chains, LookupsTyped
  <2>3. Asked'
    BY <1>0, <1>3, RefusedStays DEF DerivePayouts, Deliver, LookupsIn, GoTo, Asked
  <2>4. \A t \in Tasks : lookup'[t] \notin {"prefs", "bonded", "ledger"}
    BY <2>1 DEF CacheSound
  <2>5. CacheSound'
    BY <1>0, <2>1, <2>4, <1>3 DEF DerivePayouts, Deliver, LookupsIn, GoTo, CacheSound
  <2> QED
    BY <2>1, <2>2, <2>3, <2>5 DEF LookupsExact
<1>4. CASE ReadFails
  <2>1. chain' = chain /\ Lookups(chain)' = Lookups(chain) /\ \A t \in Tasks : Validator(t)' = Validator(t)
    BY <1>4, LookupsStay DEF ReadFails
  <2>2. /\ pc' = "refused" /\ UNCHANGED <<cache, ledger>> /\ LookupsTyped'
        /\ \A t \in Tasks : lookup'[t] \in {lookup[t], "failed"}
    BY <1>4 DEF ReadFails, LookupsTyped, LookupStates
  <2>3. CacheSound'
    BY <1>0, <2>1, <2>2 DEF CacheSound
  <2> QED
    BY <2>2, <2>3 DEF Asked, LookupsExact
<1>5. CASE Done \/ UNCHANGED vars
  <2>1. UNCHANGED vars
    BY <1>5 DEF Done
  <2>2. chain' = chain /\ Lookups(chain)' = Lookups(chain) /\ \A t \in Tasks : Validator(t)' = Validator(t)
    BY <2>1, LookupsStay DEF vars
  <2>3. Asked'
    BY <1>0, <2>1, RefusedStays DEF vars, Asked
  <2>4. LookupsTyped' /\ CacheSound'
    BY <2>1, <2>2 DEF vars, LookupsTyped, CacheSound
  <2>5. LookupsExact'
    <3>1. Lookups(chain) \subseteq Tasks
      BY DEF Lookups
    <3> QED
      BY <2>1, <2>2, <3>1 DEF vars, LookupsExact
  <2> QED
    BY <2>3, <2>4, <2>5
<1>6. ASSUME NEW t \in Tasks, PrefsAnswered(t) PROVE IInv'
  <2>1. chain' = chain /\ Lookups(chain)' = Lookups(chain) /\ \A u \in Tasks : Validator(u)' = Validator(u)
    BY <1>6, LookupsStay DEF PrefsAnswered
  <2>2. Asked'
    BY <1>0, <1>6, RefusedStays DEF PrefsAnswered, Asked
  <2>3. LookupsTyped'
    BY <1>6 DEF PrefsAnswered, LookupsTyped, LookupStates
  <2>a. (lookup[t] = "prefs") \in BOOLEAN
    OBVIOUS
  <2>4. /\ lookup[t] \in {"prefs", "bonded"} /\ pc' = pc /\ cache' = cache
        /\ lookup'[t] \in {"ledger", "done"}
        /\ lookup'[t] = "ledger" => lookup[t] = "bonded" /\ ~ledger'[t]
        /\ lookup'[t] = "done" => lookup[t] = "prefs" \/ Validator(t) \notin world.bonded[chain]
        /\ lookup'[t] = "done" => (ledger'[t] <=> lookup[t] = "prefs")
        /\ \A u \in Tasks : u # t => lookup'[u] = lookup[u] /\ ledger'[u] = ledger[u]
    <3>1. CASE lookup[t] = "bonded" /\ Validator(t) \in world.bonded[chain]
      BY <1>6, <3>1 DEF PrefsAnswered, LookupsTyped, CacheSound
    <3>2. CASE ~(lookup[t] = "bonded" /\ Validator(t) \in world.bonded[chain])
      BY <1>6, <2>a, <3>2 DEF PrefsAnswered, LookupsTyped
    <3> QED
      BY <3>1, <3>2
  <2>5. CacheSound'
    BY <1>0, <2>1, <2>4 DEF CacheSound
  <2>6. LookupsExact'
    <3>1. Lookups(chain) \subseteq Tasks
      BY DEF Lookups
    <3>2. lookup'[t] = "done" => (ledger'[t] <=> Validator(t) \in world.ledgers[chain])
      BY <1>a, <2>4 DEF CacheSound
    <3> QED
      BY <1>0, <2>1, <2>4, <3>1, <3>2 DEF LookupsExact
  <2> QED
    BY <2>2, <2>3, <2>5, <2>6
<1>7. ASSUME NEW t \in Tasks, LedgerAnswered(t) PROVE IInv'
  <2>1. chain' = chain /\ Lookups(chain)' = Lookups(chain) /\ \A u \in Tasks : Validator(u)' = Validator(u)
    BY <1>7, LookupsStay DEF LedgerAnswered
  <2>2. Asked'
    BY <1>0, <1>7, RefusedStays DEF LedgerAnswered, Asked
  <2>3. LookupsTyped'
    BY <1>7 DEF LedgerAnswered, LookupsTyped, LookupStates
  <2>4. /\ pc' = pc /\ lookup'[t] = "done" /\ lookup[t] = "ledger"
        /\ cache' \subseteq world.ledgers[chain]
        /\ Validator(t) \in world.ledgers[chain] => ledger'[t] = TRUE
        /\ Validator(t) \notin world.ledgers[chain] => ledger'[t] = ledger[t]
        /\ \A u \in Tasks : u # t => lookup'[u] = lookup[u] /\ ledger'[u] = ledger[u]
    BY <1>7 DEF LedgerAnswered, LookupsTyped, CacheSound
  <2>5. CacheSound'
    BY <1>0, <2>1, <2>4 DEF CacheSound
  <2>6. LookupsExact'
    <3>1. Lookups(chain) \subseteq Tasks
      BY DEF Lookups
    <3>2. ledger'[t] <=> Validator(t) \in world.ledgers[chain]
      BY <2>4 DEF CacheSound
    <3> QED
      BY <1>0, <2>1, <2>4, <3>1, <3>2 DEF LookupsExact
  <2> QED
    BY <2>2, <2>3, <2>5, <2>6
<1> QED
  BY <1>1, <1>2, <1>3, <1>4, <1>5, <1>6, <1>7 DEF Next

\* The inductive invariant: what was asked is accepted, and every lookup that
\* takes the short way, or is done, agrees with what the node knows.
THEOREM PayoutsInvariant == Spec => []IInv
BY InitEstablishes, StepKeeps, PTL DEF Spec

\* The request, its lookups and what they found keep their types.
THEOREM TypeCorrect == Spec => []LookupsTyped
<1>1. IInv => LookupsTyped
  BY DEF IInv
<1> QED
  BY <1>1, PayoutsInvariant, PTL

\* In whatever order the lookups of all eras are answered, the ledger cache
\* they share makes none of them find or miss a ledger.
THEOREM SharedCacheIsHarmless == Spec => []LookupsExact
<1>1. IInv => LookupsExact
  BY DEF IInv
<1> QED
  BY <1>1, PayoutsInvariant, PTL

\* No lookup is ever answered from the ledger cache.
THEOREM CacheIsNeverHit == Spec => [](\A t \in Tasks : lookup[t] # "prefs")
<1>1. IInv => \A t \in Tasks : lookup[t] # "prefs"
  BY DEF IInv, CacheSound
<1> QED
  BY <1>1, PayoutsInvariant, PTL

\* The sorts of the numbers a request is computed from.
LEMMA NumbersTyped ==
  ASSUME LookupsTyped
  PROVE  /\ world.current \in Nat /\ world.active \in Int /\ world.historyDepth \in Nat
         /\ world.first \in Nat /\ world.last \in Nat
         /\ request.depth \in Nat \cup {Absent} /\ request.era \in Nat \cup {Absent}
         /\ ModernEra \in Nat
<1>1. world \in World /\ request \in Request
  BY WorldsAssumption, RequestsAssumption DEF LookupsTyped
<1> QED
  BY <1>1, NumbersAssumption DEF World, Request

\* Every era that is read from the chain that is asked is one it keeps and
\* has paid.
THEOREM ReadsAreKept == Spec => []ReadsKept
<1>1. IInv => ReadsKept
  <2> SUFFICES ASSUME IInv, pc \in {"general", "lookups", "answered"}, chain = "own",
                      NEW e \in Part("own")
               PROVE  /\ world.historyDepth # 0 => e >= world.current - world.historyDepth
                      /\ e # 0 => e < world.active
    BY DEF ReadsKept
  <2>1. /\ world.current \in Nat /\ world.active \in Int /\ world.historyDepth \in Nat
        /\ world.first \in Nat /\ ModernEra \in Nat
        /\ request.depth \in Nat \cup {Absent} /\ request.era \in Nat \cup {Absent}
    BY NumbersTyped DEF IInv
  <2>2. /\ ~EraTooLarge /\ InHistory(EraArg, SanitizedDepth)
        /\ range = <<FirstAsked, LastAsked>>
    BY DEF IInv, Asked, Refused
  <2>3. EraArg \in Int /\ EraArg <= world.active - 1
    BY <2>1, <2>2 DEF EraTooLarge, EraArg
  <2>4. SanitizedDepth \in Int
    BY <2>1 DEF SanitizedDepth, Lesser
  <2>5. /\ FirstAsked \in Int /\ LastAsked \in Int
        /\ FirstAsked >= EraArg - (SanitizedDepth - 1)
        /\ LastAsked = 0 \/ LastAsked <= world.active - 1
    BY <2>3, <2>4 DEF FirstAsked, LastAsked, Greater
  <2>6. e \in Int /\ FirstAsked <= e /\ e <= LastAsked /\ e >= FirstAsked
    BY <2>1, <2>2, <2>5 DEF Part, Greater
  <2>7. e # 0 => e < world.active
    <3>1. FirstAsked >= 0
      BY <2>3, <2>4 DEF FirstAsked, Greater
    <3> QED
      BY <2>1, <2>5, <2>6, <3>1
  <2>8. world.historyDepth # 0 => e >= world.current - world.historyDepth
    BY <2>1, <2>2, <2>3, <2>4, <2>5, <2>6 DEF InHistory
  <2> QED
    BY <2>7, <2>8
<1> QED
  BY <1>1, PayoutsInvariant, PTL

-----------------------------------------------------------------------------
(* Numbers in their order. *)

\* The elements of S that do not come after e.
UpTo(S, e) == {f \in S : f <= e}

\* The eras of a finite set have the numbers from 1 to its size.
LEMMA EraRanks ==
  ASSUME NEW S \in SUBSET Nat, IsFiniteSet(S)
  PROVE  /\ Cardinality(S) \in Nat
         /\ \A k \in 1..Cardinality(S) : \E e \in S : Cardinality(UpTo(S, e)) = k
         /\ \A e \in S : Cardinality(UpTo(S, e)) \in 1..Cardinality(S)
         /\ \A d, e \in S : Cardinality(UpTo(S, d)) < Cardinality(UpTo(S, e))
                              <=> d < e
<1> DEFINE n == Cardinality(S)
           r == [e \in S |-> Cardinality(UpTo(S, e))]
<1>1. n \in Nat /\ IsFiniteSet(1..n) /\ Cardinality(1..n) = n
  BY FS_CardinalityType, FS_Interval
<1>2. \A e \in S : /\ IsFiniteSet(UpTo(S, e)) /\ Cardinality(UpTo(S, e)) \in 1..n
  <2> TAKE e \in S
  <2>1. UpTo(S, e) \in SUBSET S /\ e \in UpTo(S, e)
    <3>1. e \in Nat
      OBVIOUS
    <3> QED
      BY <3>1 DEF UpTo
  <2>2. /\ IsFiniteSet(UpTo(S, e)) /\ Cardinality(UpTo(S, e)) \in Nat
        /\ Cardinality(UpTo(S, e)) <= n /\ Cardinality(UpTo(S, e)) # 0
    BY <2>1, FS_Subset, FS_CardinalityType, FS_EmptySet
  <2> QED
    BY <1>1, <2>2
<1>3. \A d, e \in S : d < e => Cardinality(UpTo(S, d)) < Cardinality(UpTo(S, e))
  <2> SUFFICES ASSUME NEW d \in S, NEW e \in S, d < e
               PROVE  Cardinality(UpTo(S, d)) < Cardinality(UpTo(S, e))
    OBVIOUS
  <2>1. UpTo(S, d) \in SUBSET UpTo(S, e) /\ e \in UpTo(S, e) /\ e \notin UpTo(S, d)
    <3>1. d \in Nat /\ e \in Nat
      OBVIOUS
    <3>2. e \in UpTo(S, e) /\ e \notin UpTo(S, d)
      BY <3>1 DEF UpTo
    <3>3. ASSUME NEW f \in UpTo(S, d)
          PROVE  f \in UpTo(S, e)
      <4>1. f \in S /\ f <= d /\ f \in Nat
        BY DEF UpTo
      <4>2. f <= e
        BY <3>1, <4>1
      <4> QED
        BY <4>1, <4>2 DEF UpTo
    <3> QED
      BY <3>2, <3>3
  <2>2. UpTo(S, d) # UpTo(S, e)
    BY <2>1
  <2>3. /\ Cardinality(UpTo(S, d)) <= Cardinality(UpTo(S, e))
        /\ Cardinality(UpTo(S, d)) # Cardinality(UpTo(S, e))
    BY <1>2, <2>1, <2>2, FS_Subset
  <2>4. Cardinality(UpTo(S, d)) \in Nat /\ Cardinality(UpTo(S, e)) \in Nat
    BY <1>1, <1>2
  <2> HIDE DEF n
  <2> QED
    BY <2>3, <2>4
<1>4. \A d, e \in S : Cardinality(UpTo(S, d)) < Cardinality(UpTo(S, e)) <=> d < e
  <2> SUFFICES ASSUME NEW d \in S, NEW e \in S, ~(d < e)
               PROVE  ~(Cardinality(UpTo(S, d)) < Cardinality(UpTo(S, e)))
    BY <1>3
  <2>1. Cardinality(UpTo(S, d)) \in Nat /\ Cardinality(UpTo(S, e)) \in Nat
    BY <1>1, <1>2
  <2>2. d = e \/ e < d
    <3>1. d \in Nat /\ e \in Nat
      OBVIOUS
    <3> QED
      BY <3>1
  <2> HIDE DEF n
  <2> QED
    BY <1>3, <2>1, <2>2
<1>5. r \in Injection(S, 1..n)
  <2>1. \A d, e \in S : r[d] = r[e] => d = e
    <3> SUFFICES ASSUME NEW d \in S, NEW e \in S, d # e PROVE r[d] # r[e]
      OBVIOUS
    <3>1. d < e \/ e < d
      <4>1. d \in Nat /\ e \in Nat
        OBVIOUS
      <4> QED
        BY <4>1
    <3>2. Cardinality(UpTo(S, d)) \in Nat /\ Cardinality(UpTo(S, e)) \in Nat
      BY <1>1, <1>2
    <3> HIDE DEF n
    <3> QED
      BY <1>3, <3>1, <3>2
  <2> QED
    BY <1>2, <2>1 DEF Injection, IsInjective
<1>6. r \in Surjection(S, 1..n)
  <2> HIDE DEF r, n
  <2> QED
    BY <1>1, <1>5, FS_Injection DEF n
<1>7. \A k \in 1..n : \E e \in S : Cardinality(UpTo(S, e)) = k
  BY <1>6 DEF Surjection
<1> QED
  BY <1>1, <1>2, <1>4, <1>7

\* Ascending enumerates the set, in order.
LEMMA AscendingEnumerates ==
  ASSUME NEW S \in SUBSET Nat, IsFiniteSet(S)
  PROVE  /\ Cardinality(S) \in Nat /\ DOMAIN Ascending(S) = 1..Cardinality(S)
         /\ \A k \in DOMAIN Ascending(S) : Ascending(S)[k] \in S
         /\ \A e \in S : \E k \in DOMAIN Ascending(S) : Ascending(S)[k] = e
         /\ \A j, k \in DOMAIN Ascending(S) : j < k => Ascending(S)[j] < Ascending(S)[k]
<1> DEFINE n == Cardinality(S)
           rank(e) == Cardinality(UpTo(S, e))
           at == [k \in 1..n |-> CHOOSE e \in S : rank(e) = k]
           s == Ascending(S)
<1>1. /\ n \in Nat /\ \A k \in 1..n : \E e \in S : rank(e) = k
      /\ \A d, e \in S : rank(d) < rank(e) <=> d < e
  BY EraRanks
<1>2. \A k \in 1..n : at[k] \in S /\ rank(at[k]) = k
  BY <1>1
<1>3. at \in [1..n -> S]
  BY <1>2
<1> HIDE DEF rank
<1>4. \A j, k \in DOMAIN at : j < k => at[j] < at[k]
  <2> SUFFICES ASSUME NEW j \in 1..n, NEW k \in 1..n, j < k
               PROVE  at[j] < at[k]
    BY <1>3
  <2>1. at[j] \in S /\ at[k] \in S /\ rank(at[j]) = j /\ rank(at[k]) = k
    BY <1>2
  <2> HIDE DEF at, n
  <2> QED
    BY <1>1, <2>1
<1> HIDE DEF at
<1>5. s \in [1..n -> S] /\ \A j, k \in DOMAIN s : j < k => s[j] < s[k]
  BY <1>3, <1>4 DEF Ascending
<1> HIDE DEF s
<1>6. DOMAIN s = 1..n /\ \A j, k \in 1..n : j < k => s[j] < s[k]
  <2>1. DOMAIN s = 1..n
    BY <1>5
  <2> QED
    BY <1>5, <2>1, Zenon
<1>7. s \in Injection(1..n, S)
  <2> SUFFICES ASSUME NEW j \in 1..n, NEW k \in 1..n, j < k
               PROVE  s[j] # s[k]
    <3>1. \A j, k \in 1..n : j # k => j < k \/ k < j
      <4> HIDE DEF n
      <4> QED
        BY <1>1
    <3> QED
      BY <1>5, <3>1, Zenon DEF Injection, IsInjective
  <2>1. s[j] < s[k] /\ s[j] \in Nat /\ s[k] \in Nat
    BY <1>5, <1>6
  <2> HIDE DEF n
  <2> QED
    BY <2>1
<1>8. s \in Surjection(1..n, S)
  <2>1. IsFiniteSet(1..n) /\ Cardinality(1..n) = n
    BY <1>1, FS_Interval
  <2> QED
    BY <1>7, <2>1, FS_Injection
<1>9. n = Cardinality(S)
  OBVIOUS
<1> HIDE DEF n
<1>10. \A e \in S : \E k \in 1..n : s[k] = e
  BY <1>8 DEF Surjection
<1>11. DOMAIN s = 1..n /\ \A k \in 1..n : s[k] \in S
  BY <1>5
<1> QED
  BY <1>1, <1>5, <1>9, <1>10, <1>11 DEF s

\* The sort leaves eras that ascend where they are.
LEMMA AscendingErasStay ==
  ASSUME NEW T, NEW s \in Seq(T), \A i \in DOMAIN s : s[i].era \in Nat,
         \A i, j \in DOMAIN s : i < j => s[i].era < s[j].era
  PROVE  SortedByEra(s) = s
<1> DEFINE rank(i) == Cardinality({j \in DOMAIN s :
                         \/ s[j].era < s[i].era
                         \/ s[j].era = s[i].era /\ j <= i})
<1>1. DOMAIN s = 1..Len(s) /\ Len(s) \in Nat
  OBVIOUS
<1>2. ASSUME NEW i \in DOMAIN s
      PROVE  rank(i) = i
  <2>1. {j \in DOMAIN s : \/ s[j].era < s[i].era
                          \/ s[j].era = s[i].era /\ j <= i} = 1..i
    <3>1. \A j \in DOMAIN s : j < i => s[j].era < s[i].era
      OBVIOUS
    <3>2. \A j \in DOMAIN s : i < j => s[i].era < s[j].era
      OBVIOUS
    <3>3. \A j \in DOMAIN s : s[j].era \in Nat
      OBVIOUS
    <3> HIDE DEF rank
    <3> QED
      BY <1>1, <3>1, <3>2, <3>3
  <2>2. Cardinality(1..i) = i
    BY <1>1, FS_Interval
  <2> QED
    BY <2>1, <2>2
<1>3. SortedByEra(s) = [k \in DOMAIN s |-> s[CHOOSE i \in DOMAIN s : rank(i) = k]]
  BY DEF SortedByEra
<1> HIDE DEF rank
<1>4. \A k \in DOMAIN s : (CHOOSE i \in DOMAIN s : rank(i) = k) = k
  BY <1>2
<1>5. SortedByEra(s) = [k \in DOMAIN s |-> s[k]]
  BY <1>3, <1>4
<1> QED
  BY <1>1, <1>5

-----------------------------------------------------------------------------
(* The eras of an answer. *)

\* s is a list of payouts of ascending eras.
History(s) ==
  /\ s \in Seq(ToSet(s))
  /\ \A i \in DOMAIN s : s[i].era \in Nat
  /\ \A i, j \in DOMAIN s : i < j => s[i].era < s[j].era

\* s answers the eras of S whose reward chain c has recorded.
Tells(s, c, S) ==
  \A e \in S : Info(c, e).reward => \E i \in DOMAIN s : s[i].era = e /\ ~s[i].message

\* What is collected before the lookups of a chain are in: nothing of the
\* relay chain's, or all of it when the Asset Hub is asked next.
Collected ==
  /\ pc \in {"idle", "refused"} \/ History(payouts)
  /\ pc = "idle" => payouts = <<>>
  /\ pc \in {"general", "lookups"} =>
       /\ chain = "relay" => request.migrated /\ payouts = <<>>
       /\ ~request.migrated => payouts = <<>>
       /\ \A i \in DOMAIN payouts : payouts[i].era < world.last
       /\ chain = "own" /\ request.migrated => Tells(payouts, "relay", Part("relay"))
  /\ pc = "answered" =>
       /\ request.migrated => Tells(payouts, "relay", Part("relay"))
       /\ Tells(payouts, "own", Part("own"))

HInv == IInv /\ Collected

\* A sequence is a sequence over its own elements.
LEMMA OverItsElements ==
  ASSUME NEW S, NEW u \in Seq(S)
  PROVE  u \in Seq(ToSet(u))
<1> DEFINE n == Len(u)
<1>1. n \in Nat /\ u \in [1..n -> ToSet(u)]
  BY LenProperties DEF ToSet
<1> HIDE DEF n
<1> QED
  BY <1>1

\* The entries of u are those of s and those of t.
Joined(u, s, t) ==
  /\ \A i \in DOMAIN s : \E k \in DOMAIN u : u[k] = s[i]
  /\ \A j \in DOMAIN t : \E k \in DOMAIN u : u[k] = t[j]
  /\ \A k \in DOMAIN u : \/ \E i \in DOMAIN s : u[k] = s[i]
                         \/ \E j \in DOMAIN t : u[k] = t[j]

\* Every entry of s is of an earlier era than all of t.
Before(s, t) == \A i \in DOMAIN s, j \in DOMAIN t : s[i].era < t[j].era

\* Two lists of payouts one after the other, when the second begins later.
LEMMA HistoriesAppend ==
  ASSUME NEW s, NEW t, NEW u, u = s \o t, History(s), History(t), Before(s, t)
  PROVE  History(u) /\ Joined(u, s, t)
<1> DEFINE S == ToSet(s) \cup ToSet(t)
<1>1. s \in Seq(S) /\ t \in Seq(S)
  BY SeqMonotonic DEF History
<1> HIDE DEF S
<1>2. /\ Len(s) \in Nat /\ Len(t) \in Nat /\ DOMAIN s = 1..Len(s) /\ DOMAIN t = 1..Len(t)
  BY <1>1
<1>3. /\ u \in Seq(S) /\ Len(u) = Len(s) + Len(t) /\ DOMAIN u = 1..(Len(s) + Len(t))
      /\ \A k \in 1..(Len(s) + Len(t)) : u[k] = IF k <= Len(s) THEN s[k] ELSE t[k - Len(s)]
  BY <1>1, ConcatProperties, LenProperties
<1>4. u \in Seq(ToSet(u))
  BY <1>3, OverItsElements, Zenon
<1>5. \A k \in DOMAIN u : \/ k \in DOMAIN s /\ u[k] = s[k]
                          \/ k - Len(s) \in DOMAIN t /\ u[k] = t[k - Len(s)] /\ k > Len(s)
  BY <1>2, <1>3
<1>6. \A k \in DOMAIN u : u[k].era \in Nat
  BY <1>5 DEF History
<1>7. ASSUME NEW j \in DOMAIN u, NEW k \in DOMAIN u, j < k
      PROVE  u[j].era < u[k].era
  <2>1. j \in Nat /\ k \in Nat
    BY <1>3
  <2>2. CASE k \in DOMAIN s
    <3>1. j \in DOMAIN s /\ u[j] = s[j] /\ u[k] = s[k]
      BY <1>2, <1>3, <1>7, <2>1, <2>2
    <3> QED
      BY <1>7, <2>2, <3>1 DEF History
  <2>3. CASE k \notin DOMAIN s /\ j \in DOMAIN s
    <3>1. k - Len(s) \in DOMAIN t /\ u[k] = t[k - Len(s)] /\ u[j] = s[j]
      BY <1>2, <1>3, <2>1, <2>3
    <3> QED
      BY <2>3, <3>1 DEF Before
  <2>4. CASE k \notin DOMAIN s /\ j \notin DOMAIN s
    <3>1. /\ k - Len(s) \in DOMAIN t /\ u[k] = t[k - Len(s)]
          /\ j - Len(s) \in DOMAIN t /\ u[j] = t[j - Len(s)]
      BY <1>5, <2>4
    <3>2. j - Len(s) < k - Len(s)
      BY <1>2, <1>7, <2>1
    <3> QED
      BY <3>1, <3>2 DEF History
  <2> QED
    BY <2>2, <2>3, <2>4
<1>8. \A i \in DOMAIN s : i \in DOMAIN u /\ u[i] = s[i]
  BY <1>2, <1>3
<1>9. \A j \in DOMAIN t : j + Len(s) \in DOMAIN u /\ u[j + Len(s)] = t[j]
  <2> TAKE j \in DOMAIN t
  <2>1. j \in Nat /\ j + Len(s) \in DOMAIN u /\ ~(j + Len(s) <= Len(s)) /\ (j + Len(s)) - Len(s) = j
    BY <1>2, <1>3
  <2> QED
    BY <1>3, <2>1
<1>10. History(u)
  BY <1>4, <1>6, <1>7 DEF History
<1> QED
  BY <1>5, <1>8, <1>9, <1>10 DEF Joined

\* The eras a request is let through with are eras there are.
LEMMA AskedAreEras ==
  ASSUME LookupsTyped, ~Refused
  PROVE  /\ FirstAsked \in Nat /\ LastAsked \in Nat /\ LastAsked <= LastEra /\ LastEra \in Nat
         /\ world.last \in Nat /\ world.first \in Nat /\ world.first >= world.last /\ world.last > 0
<1>1. /\ world.current \in Nat /\ world.active \in Int /\ world.historyDepth \in Nat
      /\ world.first \in Nat /\ world.last \in Nat /\ ModernEra \in Nat
      /\ request.depth \in Nat \cup {Absent} /\ request.era \in Nat \cup {Absent}
  BY NumbersTyped
<1>2. world.first >= world.last /\ world.last > 0 /\ world.active <= LastEra + 1 /\ LastEra \in Nat
  BY StakingAssumption, NumbersAssumption DEF LookupsTyped
<1>3. EraArg \in Int /\ EraArg <= LastEra
  BY <1>1, <1>2 DEF Refused, EraTooLarge, EraArg
<1>4. SanitizedDepth \in Int
  BY <1>1 DEF SanitizedDepth, Lesser
<1> QED
  BY <1>1, <1>2, <1>3, <1>4 DEF FirstAsked, LastAsked, Greater

LEMMA PartsAreEras ==
  ASSUME IInv, pc \in {"general", "lookups", "answered"}
  PROVE  /\ range[1] \in Nat /\ range[2] \in Nat
         /\ \A c \in Chains : Part(c) \subseteq Eras /\ Part(c) \subseteq range[1]..range[2]
         /\ world.last \in Nat /\ world.first \in Nat /\ world.first >= world.last /\ world.last > 0
         /\ \A c \in Chains : Part(c) \subseteq Nat /\ IsFiniteSet(Part(c))
<1>1. /\ FirstAsked \in Nat /\ LastAsked \in Nat /\ LastAsked <= LastEra /\ LastEra \in Nat
      /\ world.last \in Nat /\ world.first \in Nat /\ world.first >= world.last /\ world.last > 0
  BY AskedAreEras DEF IInv, Asked
<1>2. range[1] = FirstAsked /\ range[2] = LastAsked
  BY DEF IInv, Asked
<1>3. \A c \in Chains : Part(c) \subseteq range[1]..range[2]
  BY <1>1, <1>2 DEF Part, Lesser, Greater, Chains
<1>4. range[1]..range[2] \subseteq Eras /\ range[1]..range[2] \subseteq Nat
  BY <1>1, <1>2 DEF Eras
<1>5. IsFiniteSet(range[1]..range[2])
  BY <1>1, <1>2, FS_Interval
<1> QED
  BY <1>1, <1>2, <1>3, <1>4, <1>5, FS_Subset

\* What a chain's part of the answer holds.
LEMMA DerivedTells ==
  ASSUME IInv, pc = "lookups", NEW c \in Chains
  PROVE  /\ History(Derived(c))
         /\ \A k \in DOMAIN Derived(c) : Derived(c)[k].era \in Told(c)
         /\ Tells(Derived(c), c, Part(c))
<1> DEFINE S == Told(c)
           a == Ascending(S)
           d == Derived(c)
<1>1. S \in SUBSET Nat /\ S \subseteq Part(c) /\ IsFiniteSet(S)
  <2>1. S \in SUBSET Part(c)
    BY DEF Told
  <2> QED
    BY <2>1, PartsAreEras, FS_Subset
<1>2. /\ Cardinality(S) \in Nat /\ DOMAIN a = 1..Cardinality(S)
      /\ \A k \in DOMAIN a : a[k] \in S
      /\ \A e \in S : \E k \in DOMAIN a : a[k] = e
      /\ \A j, k \in DOMAIN a : j < k => a[j] < a[k]
  <2> HIDE DEF S
  <2> QED
    BY <1>1, AscendingEnumerates
<1>3. DOMAIN d = DOMAIN a /\ \A k \in DOMAIN a : d[k] = EraPayouts(c, a[k])
  BY DEF Derived
<1>4. \A e : EraPayouts(c, e).era = e /\ EraPayouts(c, e).message = NoReward(c, e)
  BY DEF EraPayouts
<1>5. d = [k \in 1..Cardinality(S) |-> d[k]]
  BY <1>2, <1>3 DEF Derived
<1> HIDE DEF a, d, S
<1>6. d \in Seq(ToSet(d))
  <2>1. d \in [1..Cardinality(S) -> ToSet(d)]
    BY <1>2, <1>3, <1>5 DEF ToSet
  <2> QED
    BY <1>2, <2>1
<1>7. \A k \in DOMAIN d : d[k].era = a[k] /\ d[k].message = NoReward(c, a[k]) /\ a[k] \in Nat
  BY <1>1, <1>2, <1>3, <1>4
<1>8. History(d)
  BY <1>2, <1>3, <1>6, <1>7 DEF History
<1>9. ASSUME NEW e \in Part(c), Info(c, e).reward
      PROVE  \E k \in DOMAIN d : d[k].era = e /\ ~d[k].message
  <2>1. ~NoReward(c, e)
    BY <1>9 DEF NoReward
  <2>2. e \in S
    BY <1>4, <2>1 DEF S, Told
  <2> QED
    BY <1>2, <1>3, <1>7, <2>1, <2>2
<1> QED
  BY <1>2, <1>3, <1>7, <1>8, <1>9 DEF Tells, d, S

\* The relay chain's part tells of eras before its last one, the Asset Hub's of
\* none before its first.
LEMMA PartsApart ==
  ASSUME IInv, pc = "lookups", request.migrated
  PROVE  /\ \A e \in Told("relay") : e < world.last
         /\ \A e \in Told("own") : world.last <= e
<1>1. /\ range[1] \in Nat /\ range[2] \in Nat /\ world.last \in Nat /\ world.first \in Nat
      /\ world.first >= world.last /\ world.last > 0
      /\ Part("relay") \subseteq Eras /\ Part("own") \subseteq Nat /\ Part("relay") \subseteq Nat
  BY PartsAreEras DEF Chains
<1>2. ASSUME NEW e \in Told("relay") PROVE e < world.last
  <2>1. e \in Part("relay") /\ (Info("relay", e).reward \/ e = 0) /\ e \in Eras /\ e \in Nat
    BY <1>1 DEF Told, EraPayouts, NoReward
  <2>2. e >= world.last => ~Info("relay", e).reward
    BY <2>1, StakingAssumption DEF IInv, LookupsTyped, Info
  <2> QED
    BY <1>1, <2>1, <2>2
<1>3. ASSUME NEW e \in Told("own") PROVE world.last <= e
  <2>1. e \in Greater(range[1], world.first)..range[2]
    BY DEF Told, Part
  <2> QED
    BY <1>1, <2>1 DEF Greater
<1> QED
  BY <1>2, <1>3

LEMMA DeliverCollects ==
  ASSUME HInv, DerivePayouts
  PROVE  Collected' /\ Joined(payouts', payouts, Derived(chain))
<1> USE DEF HInv
<1> DEFINE d == Derived(chain)
           u == payouts \o d
<1>1. /\ pc = "lookups" /\ chain \in Chains /\ UNCHANGED <<world, request, range>>
      /\ IF chain = "relay" /\ Part("own") # {}
         THEN GoTo("own") /\ payouts' = u
         ELSE /\ pc' = "answered" /\ payouts' = SortedByEra(u) /\ UNCHANGED <<chain, cache>>
  BY DEF DerivePayouts, Deliver, LookupsIn, IInv, LookupsTyped
<1>2. /\ History(d) /\ Tells(d, chain, Part(chain))
      /\ \A k \in DOMAIN d : d[k].era \in Told(chain) /\ d[k].era \in Nat
  BY <1>1, DerivedTells DEF History
<1>3. History(payouts)
  BY <1>1 DEF Collected
<1>4. Before(payouts, d)
  <2> SUFFICES ASSUME NEW i \in DOMAIN payouts, NEW j \in DOMAIN d
               PROVE  payouts[i].era < d[j].era
    BY DEF Before
  <2>1. payouts # <<>>
    OBVIOUS
  <2>2. request.migrated /\ chain = "own" /\ payouts[i].era < world.last
    BY <1>1, <2>1 DEF Collected, Chains
  <2>3. world.last <= d[j].era /\ world.last \in Nat
    BY <1>1, <1>2, <2>2, PartsApart, PartsAreEras
  <2>4. payouts[i].era \in Nat /\ d[j].era \in Nat
    BY <1>2, <1>3 DEF History
  <2> QED
    BY <2>2, <2>3, <2>4
<1> HIDE DEF d, u
<1>5. History(u) /\ Joined(u, payouts, d)
  <2>1. u = payouts \o d
    BY DEF u
  <2>2. History(d)
    BY <1>2
  <2> QED
    BY <1>3, <1>4, <2>1, <2>2, HistoriesAppend, Zenon
<1>6. payouts' = u
  <2>1. SortedByEra(u) = u
    BY <1>5, AscendingErasStay DEF Joined, History
  <2> QED
    BY <1>1, <2>1
<1>7. Tells(u, chain, Part(chain))
  BY <1>2, <1>5 DEF Joined, Tells
<1>8. \A c \in Chains : Part(c)' = Part(c)
  BY <1>1 DEF Part
<1>9. \A s, c, S : Tells(s, c, S)' <=> Tells(s', c, S')
  BY <1>1 DEF Tells, Info
<1>10. ASSUME chain = "relay", Part("own") # {}
       PROVE  Collected'
  <2>1. pc' = "general" /\ chain' = "own" /\ request.migrated /\ payouts = <<>>
    BY <1>1, <1>10 DEF GoTo, Collected
  <2>2. \A k \in DOMAIN u : u[k].era < world.last
    <3>1. \A e \in Told("relay") : e < world.last
      BY <1>1, <2>1, PartsApart
    <3>2. DOMAIN payouts = {}
      BY <2>1
    <3> QED
      BY <1>2, <1>5, <1>10, <3>1, <3>2 DEF Joined
  <2>3. Tells(u, "relay", Part("relay"))
    BY <1>7, <1>10
  <2> QED
    BY <1>1, <1>5, <1>6, <1>8, <2>1, <2>2, <2>3 DEF Joined, Collected, Chains, History, Tells, Info
<1>11. ASSUME ~(chain = "relay" /\ Part("own") # {})
       PROVE  Collected'
  <2>1. pc' = "answered" /\ chain' = chain
    BY <1>1, <1>11
  <2>2. request.migrated => Tells(u, "relay", Part("relay"))
    <3>1. CASE chain = "relay"
      BY <1>7, <3>1
    <3>2. CASE chain = "own"
      BY <1>1, <1>5, <3>2 DEF Joined, Collected, Tells
    <3> QED
      BY <1>1, <3>1, <3>2 DEF Chains
  <2>3. Tells(u, "own", Part("own"))
    <3>1. CASE chain = "own"
      BY <1>7, <3>1
    <3>2. CASE chain = "relay"
      BY <1>11, <3>2 DEF Tells
    <3> QED
      BY <1>1, <3>1, <3>2 DEF Chains
  <2> QED
    BY <1>1, <1>5, <1>6, <1>8, <2>1, <2>2, <2>3 DEF Joined, Collected, Chains, History, Tells, Info
<1>12. Joined(payouts', payouts, Derived(chain))
  BY <1>5, <1>6 DEF d
<1> QED
  BY <1>10, <1>11, <1>12

LEMMA HistoryKept == HInv /\ [Next]_vars => HInv'
<1> SUFFICES ASSUME HInv, [Next]_vars PROVE HInv'
  OBVIOUS
<1> USE DEF HInv
<1>1. IInv'
  BY StepKeeps
<1>2. CASE Check
  <2>1. /\ pc = "idle" /\ payouts = <<>> /\ payouts' = <<>> /\ UNCHANGED <<world, request>>
        /\ pc' \in {"refused", "general"}
    BY <1>2 DEF Check, GoTo, Collected
  <2>2. History(payouts')
    BY <2>1 DEF History, ToSet
  <2>3. CASE pc' = "refused"
    BY <1>1, <2>1, <2>2, <2>3 DEF Collected
  <2>4. CASE pc' = "general"
    <3>1. /\ range' = <<FirstAsked, LastAsked>> /\ ~Refused
          /\ chain' = IF request.migrated /\ FirstAsked <= world.last THEN "relay" ELSE "own"
      BY <1>2, <2>1, <2>4 DEF Check, GoTo
    <3>2. chain' = "own" /\ request.migrated => Part("relay")' = {}
      <4> SUFFICES ASSUME chain' = "own", request.migrated
                   PROVE  Part("relay")' = {}
        OBVIOUS
      <4>1. ~(FirstAsked <= world.last)
        BY <3>1
      <4>2. range'[1] \in Nat /\ range'[2] \in Nat /\ world.last \in Nat
        BY <3>1, AskedAreEras DEF IInv
      <4>3. range'[1] = FirstAsked
        BY <3>1
      <4> QED
        BY <2>1, <4>1, <4>2, <4>3 DEF Part, Lesser
    <3> QED
      BY <1>1, <2>1, <2>2, <2>4, <3>1, <3>2 DEF Collected, Tells
  <2> QED
    BY <2>1, <2>3, <2>4, <1>1
<1>3. CASE DerivePayouts
  BY <1>1, <1>3, DeliverCollects
<1>4. CASE \/ FetchCommissions \/ ReadFails \/ Done \/ UNCHANGED vars
           \/ \E t \in Tasks : PrefsAnswered(t) \/ LedgerAnswered(t)
  <2>1. /\ UNCHANGED <<world, request, range, chain, payouts>>
        /\ \/ pc' = "refused" /\ pc # "idle"
           \/ pc' = pc
           \/ pc = "general" /\ pc' = "lookups"
    BY <1>4 DEF FetchCommissions, ReadFails, Done, vars, PrefsAnswered, LedgerAnswered
  <2>2. History(payouts)' = History(payouts)
    BY <2>1 DEF History, ToSet
  <2>3. \A c \in Chains : Part(c)' = Part(c)
    BY <2>1 DEF Part
  <2>4. /\ Tells(payouts, "relay", Part("relay")) => Tells(payouts, "relay", Part("relay"))'
        /\ Tells(payouts, "own", Part("own")) => Tells(payouts, "own", Part("own"))'
    BY <2>1, <2>3 DEF Tells, Info, Chains
  <2> QED
    BY <1>1, <2>1, <2>2, <2>4 DEF Collected
<1> QED
  BY <1>2, <1>3, <1>4 DEF Next

\* The inductive invariant of the answer: the eras that are collected ascend,
\* and none that was paid for is left out.
THEOREM HistoryInvariant == Spec => []HInv
<1>1. Init => HInv
  BY InitEstablishes DEF Init, HInv, Collected
<1> QED
  BY <1>1, HistoryKept, PTL DEF Spec

\* An answer has no era twice, though the last era of the relay chain and the
\* first of the Asset Hub are one era, and none out of order; an era of the
\* range whose reward was recorded is answered from the chain that recorded it.
THEOREM HistoryIsWhole == Spec => []WholeHistory
<1>1. HInv => WholeHistory
  <2> SUFFICES ASSUME HInv, pc = "answered"
               PROVE  WholeHistory
    BY DEF WholeHistory, Answered
  <2>1. /\ History(payouts)
        /\ request.migrated => Tells(payouts, "relay", Part("relay"))
        /\ Tells(payouts, "own", Part("own"))
    BY DEF HInv, Collected
  <2>2. range[1] \in Nat /\ range[2] \in Nat /\ world.last \in Nat /\ world.first \in Nat
    BY PartsAreEras DEF HInv
  <2>3. ASSUME NEW e \in range[1]..range[2], Info(Recorder(e), e).reward,
               request.migrated /\ e >= world.last => e >= world.first
        PROVE  \E i \in DOMAIN payouts : payouts[i].era = e /\ ~payouts[i].message
    <3>1. CASE request.migrated /\ e < world.last
      <4>1. e \in Part("relay") /\ Recorder(e) = "relay"
        BY <2>2, <3>1 DEF Part, Lesser, Recorder
      <4> QED
        BY <2>1, <2>3, <3>1, <4>1 DEF Tells
    <3>2. CASE request.migrated /\ ~(e < world.last)
      <4>1. e \in Part("own") /\ Recorder(e) = "own"
        BY <2>2, <2>3, <3>2 DEF Part, Greater, Recorder
      <4> QED
        BY <2>1, <2>3, <4>1 DEF Tells
    <3>3. CASE ~request.migrated
      <4>1. e \in Part("own") /\ Recorder(e) = "own"
        BY <2>2, <3>3 DEF Part, Recorder
      <4> QED
        BY <2>1, <2>3, <4>1 DEF Tells
    <3> QED
      BY <3>1, <3>2, <3>3
  <2> QED
    BY <2>1, <2>3 DEF WholeHistory, History
<1> QED
  BY <1>1, HistoryInvariant, PTL

-----------------------------------------------------------------------------
(* How the nominations of an account lie in the list of all. *)

\* Induction over the numbers, for a set: the least number outside S would be
\* the successor of one inside.
LEMMA SetInduction ==
  ASSUME NEW S, 0 \in S, \A n \in Nat : n \in S => n + 1 \in S
  PROVE  Nat \subseteq S
<1> DEFINE T == Nat \ S
           R == OpToRel(<, Nat)
<1>1. SUFFICES ASSUME T # {} PROVE FALSE
  OBVIOUS
<1>2. PICK x \in T : \A y \in T : ~(<<y, x>> \in R)
  <2>1. IsWellFoundedOn(R, Nat)
    BY NatLessThanWellFounded
  <2>2. T \subseteq Nat
    OBVIOUS
  <2> HIDE DEF R
  <2> QED BY <2>1, <2>2, <1>1, WFMin
<1>3. x \in Nat /\ x \notin S /\ x # 0
  BY <1>2
<1>4. x - 1 \in Nat /\ x - 1 \notin S
  <2>1. x - 1 \in Nat
    BY <1>3
  <2> QED BY <1>3, <2>1
<1>5. <<x - 1, x>> \in R
  BY <1>3, <1>4 DEF OpToRel
<1> QED BY <1>2, <1>4, <1>5

\* f[i] concatenates the first i sequences of ss.
Concatenates(f, ss, n) ==
  f = [i \in 1..n |-> IF i = 1 THEN ss[i] ELSE f[i - 1] \o ss[i]]

\* There is such a function for every number of sequences.
LEMMA ConcatenationExists ==
  ASSUME NEW ss, NEW n \in Nat
  PROVE  \E f : Concatenates(f, ss, n)
<1> DEFINE Have == {m \in Nat : \E f : Concatenates(f, ss, m)}
<1>1. 0 \in Have
  <2>1. Concatenates([i \in 1..0 |-> 0], ss, 0)
    BY DEF Concatenates
  <2> QED
    BY <2>1
<1>2. ASSUME NEW m \in Nat, m \in Have
      PROVE  m + 1 \in Have
  <2>1. PICK f : Concatenates(f, ss, m)
    BY <1>2
  <2> DEFINE g == [i \in 1..m + 1 |-> IF i = m + 1
                                      THEN IF i = 1 THEN ss[i] ELSE f[m] \o ss[i]
                                      ELSE f[i]]
  <2>2. \A i \in 1..m + 1 : g[i] = IF i = 1 THEN ss[i] ELSE g[i - 1] \o ss[i]
    <3> TAKE i \in 1..m + 1
    <3>1. CASE i = m + 1
      BY <3>1
    <3>2. CASE i # m + 1
      <4>1. i \in 1..m /\ g[i] = f[i]
        BY <3>2
      <4>2. f[i] = IF i = 1 THEN ss[i] ELSE f[i - 1] \o ss[i]
        BY <2>1, <4>1 DEF Concatenates
      <4>3. i # 1 => g[i - 1] = f[i - 1]
        BY <4>1
      <4> HIDE DEF g
      <4> QED
        BY <4>1, <4>2, <4>3
    <3> QED
      BY <3>1, <3>2
  <2>3. g = [i \in 1..m + 1 |-> g[i]]
    OBVIOUS
  <2> HIDE DEF g
  <2>4. g = [i \in 1..m + 1 |-> IF i = 1 THEN ss[i] ELSE g[i - 1] \o ss[i]]
    BY <2>2, <2>3
  <2>5. Concatenates(g, ss, m + 1)
    BY <2>4 DEF Concatenates
  <2> QED
    BY <2>5
<1> HIDE DEF Have
<1>3. Nat \subseteq Have
  BY <1>1, <1>2, SetInduction
<1> QED
  BY <1>3 DEF Have

\* A function on 1..n is a sequence of length n.
LEMMA FunctionsAreSeqs ==
  ASSUME NEW T, NEW n \in Nat, NEW f \in [1..n -> T]
  PROVE  f \in Seq(T) /\ Len(f) = n /\ DOMAIN f = 1..n
OBVIOUS

\* The places of v in s.
Places(s, v) == {k \in DOMAIN s : s[k] = v}

\* s is made of m blocks, the i-th of them size[i] times lab[i].
Blocked(s, size, lab, m) ==
  /\ \A v : (\A i \in 1..m : lab[i] = v => size[i] = 0) => Places(s, v) = {}
  /\ \A q \in 1..m :
       size[q] # 0 /\ (\A i \in 1..m : lab[i] = lab[q] /\ size[i] # 0 => i = q)
       => \E a \in Nat : Places(s, lab[q]) = a + 1..a + size[q]

\* t is the m-th block.
IsBlock(t, size, lab, m) == t = [k \in 1..size[m] |-> lab[m]]

\* One more block is appended.
LEMMA OneBlockMore ==
  ASSUME NEW S, NEW n \in Nat, NEW size \in [1..n -> Nat], NEW lab \in [1..n -> S],
         NEW m \in Nat, m + 1 <= n, NEW s \in Seq(S), Blocked(s, size, lab, m),
         NEW t, IsBlock(t, size, lab, m + 1),
         NEW u, u = s \o t
  PROVE  u \in Seq(S) /\ Blocked(u, size, lab, m + 1)
<1>1. m + 1 \in 1..n /\ size[m + 1] \in Nat /\ lab[m + 1] \in S
  OBVIOUS
<1>2. /\ t \in Seq(S) /\ Len(t) = size[m + 1] /\ DOMAIN t = 1..size[m + 1]
      /\ \A k \in 1..size[m + 1] : t[k] = lab[m + 1]
  <2>1. t \in [1..size[m + 1] -> S]
    BY <1>1 DEF IsBlock
  <2>2. \A k \in 1..size[m + 1] : t[k] = lab[m + 1]
    BY DEF IsBlock
  <2> QED
    BY <1>1, <2>1, <2>2, FunctionsAreSeqs
<1>3. Len(s) \in Nat /\ DOMAIN s = 1..Len(s)
  OBVIOUS
<1>4. /\ u \in Seq(S) /\ Len(u) = Len(s) + size[m + 1] /\ DOMAIN u = 1..(Len(s) + size[m + 1])
      /\ \A k \in 1..(Len(s) + size[m + 1]) :
           u[k] = IF k <= Len(s) THEN s[k] ELSE t[k - Len(s)]
  <2>1. /\ s \o t \in Seq(S) /\ Len(s \o t) = Len(s) + Len(t)
        /\ \A k \in 1..(Len(s) + Len(t)) :
             (s \o t)[k] = IF k <= Len(s) THEN s[k] ELSE t[k - Len(s)]
    BY <1>2, ConcatProperties
  <2>2. u \in Seq(S) /\ Len(u) = Len(s) + Len(t)
        /\ \A k \in 1..(Len(s) + Len(t)) :
             u[k] = IF k <= Len(s) THEN s[k] ELSE t[k - Len(s)]
    BY <2>1
  <2>3. DOMAIN u = 1..Len(u)
    BY <2>2, LenProperties
  <2> QED
    BY <1>2, <2>2, <2>3
<1>5. \A k \in DOMAIN s : k \in DOMAIN u /\ u[k] = s[k]
  BY <1>1, <1>3, <1>4
<1>6. \A k \in DOMAIN u : k \in DOMAIN s \/ (k \in (Len(s) + 1)..(Len(s) + size[m + 1]) /\ u[k] = lab[m + 1])
  BY <1>1, <1>2, <1>3, <1>4
<1>7. \A k \in (Len(s) + 1)..(Len(s) + size[m + 1]) : k \in DOMAIN u /\ u[k] = lab[m + 1]
  BY <1>1, <1>2, <1>3, <1>4
<1>8. \A v : lab[m + 1] # v \/ size[m + 1] = 0 => Places(u, v) = Places(s, v)
  <2> TAKE v
  <2> HAVE lab[m + 1] # v \/ size[m + 1] = 0
  <2>1. size[m + 1] = 0 => DOMAIN u = DOMAIN s
    <3>1. size[m + 1] = 0 => Len(s) + size[m + 1] = Len(s)
      BY <1>3
    <3> QED
      BY <1>3, <1>4, <3>1
  <2> QED
    BY <1>5, <1>6, <2>1 DEF Places
<1>9. Places(s, lab[m + 1]) = {} => Places(u, lab[m + 1]) = (Len(s) + 1)..(Len(s) + size[m + 1])
  BY <1>3, <1>5, <1>6, <1>7 DEF Places
<1>10. 1..m \subseteq 1..m + 1 /\ m + 1 \in 1..m + 1 /\ m + 1 \notin 1..m
       /\ \A i \in 1..m + 1 : i \in 1..m \/ i = m + 1
  OBVIOUS
<1>11. ASSUME NEW v, \A i \in 1..m + 1 : lab[i] = v => size[i] = 0
       PROVE  Places(u, v) = {}
  BY <1>8, <1>10, <1>11 DEF Blocked
<1>12. ASSUME NEW q \in 1..m + 1, size[q] # 0,
              \A i \in 1..m + 1 : lab[i] = lab[q] /\ size[i] # 0 => i = q
       PROVE  \E a \in Nat : Places(u, lab[q]) = a + 1..a + size[q]
  <2>1. CASE q = m + 1
    <3>1. Places(s, lab[q]) = {}
      BY <1>10, <1>12, <2>1 DEF Blocked
    <3> QED
      BY <1>3, <1>9, <2>1, <3>1
  <2>2. CASE q # m + 1
    <3>1. q \in 1..m /\ (lab[m + 1] # lab[q] \/ size[m + 1] = 0)
      BY <1>10, <1>12, <2>2
    <3>2. \A i \in 1..m : lab[i] = lab[q] /\ size[i] # 0 => i = q
      BY <1>10, <1>12
    <3>3. \E a \in Nat : Places(s, lab[q]) = a + 1..a + size[q]
      BY <1>12, <3>1, <3>2 DEF Blocked
    <3> QED
      BY <1>8, <3>1, <3>3
  <2> QED
    BY <2>1, <2>2
<1> QED
  BY <1>4, <1>11, <1>12, Zenon DEF Blocked

\* FlattenSeq of blocks is made of the blocks.
LEMMA FlattenSeqOfBlocks ==
  ASSUME NEW S, NEW n \in Nat, NEW size \in [1..n -> Nat], NEW lab \in [1..n -> S],
         NEW ss, ss = [i \in 1..n |-> [k \in 1..size[i] |-> lab[i]]]
  PROVE  FlattenSeq(ss) \in Seq(S) /\ Blocked(FlattenSeq(ss), size, lab, n)
<1>1. Len(ss) = n /\ DOMAIN ss = 1..n
  <2>1. ss \in [1..n -> ToSet(ss)]
    BY DEF ToSet
  <2> QED
    BY <2>1, FunctionsAreSeqs
<1>2. CASE n = 0
  <2>1. FlattenSeq(ss) = ss /\ ss = <<>>
    BY <1>1, <1>2 DEF FlattenSeq
  <2>2. Blocked(<<>>, size, lab, 0)
    BY DEF Blocked, Places
  <2>3. <<>> \in Seq(S)
    OBVIOUS
  <2> QED
    BY <1>2, <2>1, <2>2, <2>3, Zenon
<1>3. CASE n # 0
  <2> DEFINE f == CHOOSE g : Concatenates(g, ss, n)
  <2>1. Concatenates(f, ss, n)
    BY ConcatenationExists
  <2>2. FlattenSeq(ss) = f[n]
    BY <1>1, <1>3 DEF FlattenSeq, Concatenates
  <2> HIDE DEF f
  <2>3. \A i \in 1..n : f[i] = IF i = 1 THEN ss[i] ELSE f[i - 1] \o ss[i]
    BY <2>1 DEF Concatenates
  <2> DEFINE Good == {k \in Nat : k + 1 \in 1..n => f[k + 1] \in Seq(S) /\ Blocked(f[k + 1], size, lab, k + 1)}
  <2>4. 0 \in Good
    <3>1. f[1] = ss[1] /\ 1 \in 1..n
      BY <1>3, <2>3
    <3>2. ss[1] = [k \in 1..size[1] |-> lab[1]] /\ ss[1] \in Seq(S)
      <4> DEFINE b == [k \in 1..size[1] |-> lab[1]]
      <4>1. ss[1] = b
        BY <3>1
      <4>2. b \in [1..size[1] -> S] /\ size[1] \in Nat
        BY <3>1
      <4>3. b \in Seq(S)
        <5> HIDE DEF b
        <5> QED
          BY <4>2, FunctionsAreSeqs
      <4> QED
        BY <4>1, <4>3
    <3>3. ss[1] = <<>> \o ss[1]
      BY <3>2, ConcatEmptySeq
    <3>4. <<>> \in Seq(S) /\ Blocked(<<>>, size, lab, 0)
      BY DEF Blocked, Places
    <3>5. ss[1] = [k \in 1..size[0 + 1] |-> lab[0 + 1]] /\ 0 + 1 <= n /\ 0 \in Nat
      BY <1>3, <3>2
    <3>6. ss[1] \in Seq(S) /\ Blocked(ss[1], size, lab, 0 + 1)
      <4> DEFINE t == ss[1]
                 w == <<>>
      <4>1. /\ w \in Seq(S) /\ Blocked(w, size, lab, 0) /\ t = w \o t
            /\ IsBlock(t, size, lab, 0 + 1) /\ 0 + 1 <= n /\ 0 \in Nat
        BY <3>3, <3>4, <3>5 DEF IsBlock
      <4> HIDE DEF t, w
      <4>2. t \in Seq(S) /\ Blocked(t, size, lab, 0 + 1)
        BY <4>1, OneBlockMore, Zenon
      <4> QED
        BY <4>2 DEF t
    <3> QED
      BY <3>1, <3>6
  <2>5. ASSUME NEW k \in Nat, k \in Good
        PROVE  k + 1 \in Good
    <3>1. SUFFICES ASSUME k + 2 \in 1..n
                   PROVE  f[k + 2] \in Seq(S) /\ Blocked(f[k + 2], size, lab, k + 2)
      BY SMT
    <3>2. /\ k + 1 \in 1..n /\ k + 2 # 1 /\ (k + 2) - 1 = k + 1 /\ (k + 1) + 1 = k + 2
          /\ (k + 1) + 1 <= n /\ k + 1 \in Nat
      BY <3>1
    <3>3. f[k + 2] = f[k + 1] \o ss[k + 2]
      BY <2>3, <3>1, <3>2
    <3>4. f[k + 1] \in Seq(S) /\ Blocked(f[k + 1], size, lab, k + 1)
      BY <2>5, <3>2
    <3>5. ss[k + 2] = [j \in 1..size[(k + 1) + 1] |-> lab[(k + 1) + 1]]
      BY <3>1, <3>2
    <3>6. f[k + 2] \in Seq(S) /\ Blocked(f[k + 2], size, lab, (k + 1) + 1)
      <4> DEFINE t == ss[k + 2]
                 w == f[k + 1]
                 u == f[k + 2]
      <4>1. /\ w \in Seq(S) /\ Blocked(w, size, lab, k + 1) /\ u = w \o t
            /\ IsBlock(t, size, lab, (k + 1) + 1)
            /\ (k + 1) + 1 <= n /\ k + 1 \in Nat
        BY <3>2, <3>3, <3>4, <3>5 DEF IsBlock
      <4> HIDE DEF t, w, u
      <4>2. u \in Seq(S) /\ Blocked(u, size, lab, (k + 1) + 1)
        BY <4>1, OneBlockMore, Zenon
      <4> QED
        BY <4>2 DEF u
    <3> QED
      BY <3>2, <3>6
  <2> HIDE DEF Good
  <2>6. n - 1 \in Good
    <3>1. n - 1 \in Nat
      BY <1>3
    <3> QED
      BY <2>4, <2>5, <3>1, SetInduction
  <2>7. n - 1 + 1 = n /\ n \in 1..n
    BY <1>3
  <2> QED
    BY <2>2, <2>6, <2>7 DEF Good
<1> QED
  BY <1>2, <1>3

-----------------------------------------------------------------------------
(* The places the loops give to the nominations of one validator. *)

\* A list of ascending numbers has at place k the k-th of them.
LEMMA Ordinals ==
  ASSUME NEW O \in SUBSET Nat, NEW n \in Nat, NEW f \in [1..n -> O],
         \A j, k \in 1..n : j < k => f[j] < f[k],
         \A o \in O : \E k \in 1..n : f[k] = o
  PROVE  /\ Cardinality(O) = n
         /\ \A k \in 1..n : Cardinality(UpTo(O, f[k])) = k
<1>1. \A k \in 1..n : f[k] \in Nat /\ f[k] \in O
  OBVIOUS
<1>2. \A j, k \in 1..n : f[j] = f[k] => j = k
  <2> SUFFICES ASSUME NEW j \in 1..n, NEW k \in 1..n, j < k
               PROVE  f[j] # f[k]
    <3>1. \A j, k \in 1..n : j # k => j < k \/ k < j
      OBVIOUS
    <3> QED
      BY <3>1, Zenon
  <2> QED
    BY <1>1
<1>3. \A k \in 0..n : IsFiniteSet(1..k) /\ Cardinality(1..k) = k
  BY FS_Interval
<1>4. Cardinality(O) = n
  <2>1. f \in Bijection(1..n, O)
    BY <1>2 DEF Bijection, Injection, Surjection, IsInjective
  <2> QED
    BY <1>3, <2>1, FS_Bijection, Fun_ExistsBij
<1>5. ASSUME NEW k \in 1..n
      PROVE  Cardinality(UpTo(O, f[k])) = k
  <2> DEFINE U == UpTo(O, f[k])
             g == [j \in 1..k |-> f[j]]
  <2>1. \A j \in 1..n : j <= k <=> f[j] <= f[k]
    <3> TAKE j \in 1..n
    <3>1. j < k \/ j = k \/ k < j
      OBVIOUS
    <3>2. f[j] \in Nat /\ f[k] \in Nat
      BY <1>1
    <3>3. CASE j < k
      BY <3>2, <3>3
    <3>4. CASE j = k
      BY <3>2, <3>4
    <3>5. CASE k < j
      <4>1. f[k] < f[j] /\ ~(j <= k)
        BY <3>5
      <4> QED
        BY <3>2, <4>1
    <3> QED
      BY <3>1, <3>3, <3>4, <3>5
  <2>2. \A j \in 1..k : j \in 1..n /\ j <= k
    OBVIOUS
  <2>3. \A j \in 1..n : j <= k => j \in 1..k
    OBVIOUS
  <2>4. g \in [1..k -> U]
    BY <1>1, <2>1, <2>2 DEF UpTo
  <2>5. \A i, j \in 1..k : g[i] = g[j] => i = j
    BY <1>2, <2>2
  <2>6. \A o \in U : \E j \in 1..k : g[j] = o
    <3> TAKE o \in U
    <3>1. o \in O /\ o <= f[k]
      BY DEF UpTo
    <3>2. PICK j \in 1..n : f[j] = o
      BY <3>1
    <3>3. j \in 1..k
      BY <2>1, <2>3, <3>1, <3>2
    <3> QED
      BY <3>2, <3>3
  <2> HIDE DEF g, U
  <2>7. g \in Bijection(1..k, U)
    BY <2>4, <2>5, <2>6 DEF Bijection, Injection, Surjection, IsInjective
  <2>8. IsFiniteSet(1..k) /\ Cardinality(1..k) = k
    BY <1>3
  <2> QED
    BY <2>7, <2>8, FS_Bijection, Fun_ExistsBij DEF U
<1> QED
  BY <1>4, <1>5

\* f lists the elements of O in order.
Lists(f, n, O) ==
  /\ f \in [1..n -> O]
  /\ \A j, k \in 1..n : j < k => f[j] < f[k]
  /\ \A o \in O : \E k \in 1..n : f[k] = o

\* The numbers of an interval, in order.
LEMMA IntervalInOrder ==
  ASSUME NEW a \in Nat, NEW m \in Nat, NEW n \in Nat, NEW f, Lists(f, n, a + 1..a + m)
  PROVE  n = m /\ \A k \in 1..n : f[k] = a + k
<1> DEFINE O == a + 1..a + m
<1>1. O \in SUBSET Nat /\ f \in [1..n -> O] /\ \A o \in O : \E k \in 1..n : f[k] = o
  BY DEF Lists
<1>2. \A x \in a..a + m : IsFiniteSet(a + 1..x) /\ Cardinality(a + 1..x) = x - a
  <2> TAKE x \in a..a + m
  <2>1. IsFiniteSet(a + 1..x) /\ Cardinality(a + 1..x) = IF a + 1 > x THEN 0 ELSE x - (a + 1) + 1
    BY FS_Interval
  <2> QED
    BY <2>1
<1>3. Cardinality(O) = m
  BY <1>2
<1>4. \A x \in O : UpTo(O, x) = a + 1..x
  BY DEF UpTo
<1>5. \A k \in 1..n : f[k] \in O /\ f[k] \in a..a + m /\ f[k] \in Nat
  BY <1>1
<1>6. \A j, k \in 1..n : j < k => f[j] < f[k]
  BY DEF Lists
<1> HIDE DEF O
<1>7. Cardinality(O) = n /\ \A k \in 1..n : Cardinality(UpTo(O, f[k])) = k
  BY <1>1, <1>6, Ordinals
<1> QED
  BY SMTT(30), <1>2, <1>3, <1>4, <1>5, <1>7

\* The places at which the ascending list of K has numbers of O.
Picked(K, O) == {k \in DOMAIN Ascending(K) : Ascending(K)[k] \in O}

\* Those places, in order, have the numbers of O in order.
LEMMA PickedInOrder ==
  ASSUME NEW K \in SUBSET Nat, IsFiniteSet(K), NEW a \in Nat, NEW m \in Nat,
         a + 1..a + m \subseteq K
  PROVE  LET Q == Picked(K, a + 1..a + m)
         IN  /\ DOMAIN Ascending(Q) = 1..m
             /\ \A k \in 1..m : /\ Ascending(Q)[k] \in Q
                                /\ Ascending(K)[Ascending(Q)[k]] = a + k
<1> DEFINE O == a + 1..a + m
           Q == Picked(K, O)
           A == Ascending(K)
           B == Ascending(Q)
           n == Cardinality(Q)
           f == [k \in 1..n |-> A[B[k]]]
<1>1. /\ Cardinality(K) \in Nat /\ DOMAIN A = 1..Cardinality(K)
      /\ \A k \in DOMAIN A : A[k] \in K
      /\ \A e \in K : \E k \in DOMAIN A : A[k] = e
      /\ \A j, k \in DOMAIN A : j < k => A[j] < A[k]
  BY AscendingEnumerates
<1>2. Q \in SUBSET Nat /\ IsFiniteSet(Q)
  <2>1. Q \in SUBSET (1..Cardinality(K)) /\ IsFiniteSet(1..Cardinality(K))
    BY <1>1, FS_Interval DEF Picked
  <2> HIDE DEF Q, A
  <2>2. Q \in SUBSET Nat
    BY <1>1, <2>1
  <2> QED
    BY <2>1, <2>2, FS_Subset
<1>3. \A k \in Q : k \in DOMAIN A /\ A[k] \in O
  BY DEF Picked
<1>4. \A k \in DOMAIN A : A[k] \in O => k \in Q
  BY DEF Picked
<1> HIDE DEF Q
<1>5. /\ n \in Nat /\ DOMAIN B = 1..n
      /\ \A k \in DOMAIN B : B[k] \in Q
      /\ \A e \in Q : \E k \in DOMAIN B : B[k] = e
      /\ \A j, k \in DOMAIN B : j < k => B[j] < B[k]
  BY <1>2, AscendingEnumerates
<1> HIDE DEF A, B, n, O
<1>6. \A k \in 1..n : f[k] = A[B[k]] /\ f[k] \in O
  BY <1>3, <1>5
<1>7. f \in [1..n -> O]
  BY <1>6
<1>8. \A j, k \in 1..n : j < k => f[j] < f[k]
  BY <1>1, <1>3, <1>5, <1>6
<1>9. \A o \in O : \E k \in 1..n : f[k] = o
  <2> TAKE o \in O
  <2>1. PICK x \in DOMAIN A : A[x] = o
    BY <1>1 DEF O
  <2>2. x \in Q
    BY <1>4, <2>1
  <2> QED
    BY <1>5, <1>6, <2>1, <2>2
<1> HIDE DEF f
<1>10. n = m /\ \A k \in 1..n : f[k] = a + k
  <2>1. n \in Nat /\ Lists(f, n, a + 1..a + m)
    BY <1>5, <1>7, <1>8, <1>9 DEF O, Lists
  <2>2. \A x \in Nat : \A g : Lists(g, x, a + 1..a + m) => x = m /\ \A k \in 1..x : g[k] = a + k
    BY IntervalInOrder, Zenon
  <2> QED
    BY <2>1, <2>2, Zenon
<1>11. DOMAIN B = 1..m /\ \A k \in 1..m : B[k] \in Q /\ A[B[k]] = a + k
  BY <1>5, <1>6, <1>10
<1> QED
  BY <1>11 DEF Q, B, A, O

\* What NominatorsAssumption says of an era.
OnOnePage(info) ==
  /\ \A i, j \in DOMAIN info.pages :
       info.pages[i].validator = Account => Mentions(info.pages[j]) = {}
  /\ \A i, j \in DOMAIN info.pages :
       info.pages[i].validator = info.pages[j].validator
         /\ Mentions(info.pages[i]) # {} /\ Mentions(info.pages[j]) # {} => i = j

LEMMA ErasWellFormed ==
  ASSUME NEW w \in Worlds, NEW c \in Chains, NEW e \in Eras
  PROVE  w.state[c][e] \in EraInfo /\ OnOnePage(w.state[c][e])
<1> DEFINE info == w.state[c][e]
           pages == info.pages
           mentioned(i) == \E k \in DOMAIN pages[i].others : pages[i].others[k].who = Account
<1>1. info \in EraInfo
  BY WorldsAssumption DEF World
<1>2. /\ ~ \E i, j \in DOMAIN pages : pages[i].validator = Account /\ mentioned(j)
      /\ \A i, j \in DOMAIN pages :
           pages[i].validator = pages[j].validator /\ mentioned(i) /\ mentioned(j) => i = j
  BY NominatorsAssumption
<1>3. \A i : mentioned(i) <=> Mentions(pages[i]) # {}
  BY DEF Mentions
<1> HIDE DEF info, mentioned
<1>4. \A i, j \in DOMAIN pages : pages[i].validator = Account => Mentions(pages[j]) = {}
  BY <1>2, <1>3, Zenon
<1>5. \A i, j \in DOMAIN pages :
        pages[i].validator = pages[j].validator
          /\ Mentions(pages[i]) # {} /\ Mentions(pages[j]) # {} => i = j
  BY <1>2, <1>3, Zenon
<1>6. OnOnePage(info)
  BY <1>4, <1>5, Zenon DEF OnOnePage
<1> QED
  BY <1>1, <1>6 DEF info

\* The pages and the mentions on each are finite.
LEMMA PagesTyped ==
  ASSUME NEW info \in EraInfo
  PROVE  /\ Len(info.pages) \in Nat /\ DOMAIN info.pages = 1..Len(info.pages)
         /\ \A i \in 1..Len(info.pages) :
              /\ info.pages[i].validator \in Validators
              /\ Len(info.pages[i].others) \in Nat
              /\ DOMAIN info.pages[i].others = 1..Len(info.pages[i].others)
              /\ \A k \in 1..Len(info.pages[i].others) : info.pages[i].others[k].value \in Nat
              /\ Mentions(info.pages[i]) \in SUBSET Nat /\ IsFiniteSet(Mentions(info.pages[i]))
              /\ Mentions(info.pages[i]) \subseteq DOMAIN info.pages[i].others
              /\ Cardinality(Mentions(info.pages[i])) \in Nat
              /\ Cardinality(Mentions(info.pages[i])) = 0 <=> Mentions(info.pages[i]) = {}
         /\ \A v \in Validators : info.own[v] \in Nat /\ info.points[v] \in Nat /\ info.claimed[v] \in Nat
<1>1. info.pages \in Seq(Page)
  BY DEF EraInfo
<1>2. Len(info.pages) \in Nat /\ DOMAIN info.pages = 1..Len(info.pages)
      /\ \A i \in 1..Len(info.pages) : info.pages[i] \in Page
  BY <1>1
<1>3. ASSUME NEW p \in Page
      PROVE  /\ p.validator \in Validators
             /\ Len(p.others) \in Nat
             /\ DOMAIN p.others = 1..Len(p.others)
             /\ \A k \in 1..Len(p.others) : p.others[k].value \in Nat
             /\ Mentions(p) \in SUBSET Nat /\ IsFiniteSet(Mentions(p))
             /\ Mentions(p) \subseteq DOMAIN p.others
             /\ Cardinality(Mentions(p)) \in Nat
             /\ Cardinality(Mentions(p)) = 0 <=> Mentions(p) = {}
  <2>1. p.validator \in Validators /\ p.others \in Seq([who : {Account} \cup {"other"}, value : Nat])
    BY DEF Page
  <2> DEFINE R == [who : {Account} \cup {"other"}, value : Nat]
             o == p.others
  <2>a. \A r \in R : r.value \in Nat
    OBVIOUS
  <2>b. o \in Seq(R)
    BY <2>1
  <2> HIDE DEF R, o
  <2>c. /\ Len(o) \in Nat /\ DOMAIN o = 1..Len(o)
        /\ \A k \in 1..Len(o) : o[k] \in R
    BY <2>b
  <2>2. /\ Len(p.others) \in Nat /\ DOMAIN p.others = 1..Len(p.others)
        /\ \A k \in 1..Len(p.others) : p.others[k].value \in Nat
    BY <2>a, <2>c DEF o
  <2>3. Mentions(p) \subseteq 1..Len(p.others) /\ 1..Len(p.others) \subseteq Nat
    BY <2>2 DEF Mentions
  <2>4. IsFiniteSet(Mentions(p))
    <3>1. IsFiniteSet(1..Len(p.others))
      BY <2>2, FS_Interval
    <3> QED
      BY <2>3, <3>1, FS_Subset
  <2> QED
    BY <2>1, <2>2, <2>3, <2>4, FS_CardinalityType, FS_EmptySet
<1>4. \A v \in Validators : info.own[v] \in Nat /\ info.points[v] \in Nat /\ info.claimed[v] \in Nat
  BY DEF EraInfo
<1> QED
  BY <1>2, <1>3, <1>4, Zenon

\* A finite set of numbers has a last one.
LEMMA LastNumber ==
  ASSUME NEW S \in SUBSET Nat, IsFiniteSet(S), S # {}
  PROVE  \E q \in S : \A j \in S : j <= q
<1>1. Cardinality(S) \in Nat /\ Cardinality(S) # 0
  BY FS_CardinalityType, FS_EmptySet
<1>2. PICK q \in S : Cardinality(UpTo(S, q)) = Cardinality(S)
  <2>1. Cardinality(S) \in 1..Cardinality(S)
    BY <1>1
  <2> QED
    BY <2>1, EraRanks
<1>3. \A j \in S : Cardinality(UpTo(S, j)) \in 1..Cardinality(S)
  BY EraRanks
<1>4. \A j \in S : ~(q < j)
  <2> TAKE j \in S
  <2>1. ~(Cardinality(UpTo(S, q)) < Cardinality(UpTo(S, j)))
    BY <1>1, <1>2, <1>3
  <2> QED
    BY <2>1, EraRanks
<1> QED
  BY <1>4

\* The pages of a validator.
PagesOf(info, v) == {i \in DOMAIN info.pages : info.pages[i].validator = v}

\* deriveEraExposure and the property look into the same page.
LEMMA LastPage ==
  ASSUME NEW info \in EraInfo, NEW v, HasExposure(info, v)
  PROVE  \E q \in PagesOf(info, v) : StoredPage(info, v) = info.pages[q] /\ Max(PagesOf(info, v)) = q
<1> DEFINE of == PagesOf(info, v)
<1>1. of \in SUBSET Nat /\ IsFiniteSet(of) /\ of # {}
  <2>1. /\ of \subseteq 1..Len(info.pages) /\ 1..Len(info.pages) \subseteq Nat
        /\ IsFiniteSet(1..Len(info.pages))
    <3>1. Len(info.pages) \in Nat /\ DOMAIN info.pages = 1..Len(info.pages)
      BY PagesTyped
    <3> QED
      BY <3>1, FS_Interval DEF PagesOf
  <2>2. of # {}
    BY DEF PagesOf, HasExposure
  <2> HIDE DEF of
  <2> QED
    BY <2>1, <2>2, FS_Subset
<1>2. StoredPage(info, v) = info.pages[CHOOSE i \in of : \A j \in of : j <= i]
  BY DEF StoredPage, PagesOf
<1>3. Max(of) = CHOOSE i \in of : \A j \in of : i >= j
  BY DEF Max
<1> HIDE DEF of
<1>4. PICK q \in of : \A j \in of : j <= q
  BY <1>1, LastNumber
<1>5. \A i, j \in of : i >= j <=> j <= i
  BY <1>1
<1>6. \A i \in of : (\A j \in of : j <= i) => i = q
  BY <1>1, <1>4
<1>7. (CHOOSE i \in of : \A j \in of : j <= i) = q
  BY <1>4, <1>6
<1>8. (CHOOSE i \in of : \A j \in of : i >= j) = q
  BY <1>4, <1>5, <1>6
<1> QED
  BY <1>2, <1>3, <1>4, <1>7, <1>8 DEF of

\* The nominations on a validator follow one another: as many as its last page
\* mentions the account, and one on the account itself.
LEMMA NominationsInARow ==
  ASSUME NEW info \in EraInfo, OnOnePage(info), NEW v \in Validators
  PROVE  /\ NominatedExposures(info) \in Seq(Validators)
         /\ ~HasExposure(info, v) => Places(NominatedExposures(info), v) = {}
         /\ HasExposure(info, v) /\ v = Account =>
              \E a \in Nat : Places(NominatedExposures(info), v) = a + 1..a + 1
         /\ HasExposure(info, v) /\ v # Account =>
              \/ Mentions(StoredPage(info, v)) = {}
              \/ \E a \in Nat :
                   Places(NominatedExposures(info), v)
                     = a + 1..a + Cardinality(Mentions(StoredPage(info, v)))
<1> DEFINE pages == info.pages
           n == Len(pages)
           size == [i \in 1..n |-> Cardinality(Mentions(pages[i]))]
           lab == [i \in 1..n |-> pages[i].validator]
           ss == [i \in 1..n |-> [k \in 1..size[i] |-> lab[i]]]
           flat == FlattenSeq(ss)
           self == Account \in Validators /\ HasExposure(info, Account)
           tail == IF self THEN <<Account>> ELSE <<>>
           N == NominatedExposures(info)
<1>1. /\ n \in Nat /\ DOMAIN pages = 1..n
      /\ \A i \in 1..n : /\ pages[i].validator \in Validators
                         /\ Cardinality(Mentions(pages[i])) \in Nat
                         /\ Cardinality(Mentions(pages[i])) = 0 <=> Mentions(pages[i]) = {}
  BY PagesTyped
<1>2. N = flat \o tail
  <2>1. \A i \in 1..n : size[i] = Cardinality(Mentions(pages[i])) /\ lab[i] = pages[i].validator
    OBVIOUS
  <2>2. ss = [i \in DOMAIN pages |-> [k \in 1..Cardinality(Mentions(pages[i])) |-> pages[i].validator]]
    BY <1>1, <2>1
  <2> QED
    BY <2>2 DEF NominatedExposures
<1> HIDE DEF N
<1>3. size \in [1..n -> Nat] /\ lab \in [1..n -> Validators]
  BY <1>1
<1>4. /\ \A i \in 1..n : lab[i] = pages[i].validator /\ (size[i] = 0 <=> Mentions(pages[i]) = {})
      /\ \A i \in 1..n : size[i] = Cardinality(Mentions(pages[i]))
  BY <1>1
<1>5. \A w : HasExposure(info, w) <=> \E i \in 1..n : lab[i] = w
  BY <1>1, <1>4 DEF HasExposure
<1>6. /\ \A i, j \in 1..n : lab[i] = Account => size[j] = 0
      /\ \A i, j \in 1..n : lab[i] = lab[j] /\ size[i] # 0 /\ size[j] # 0 => i = j
  BY <1>1, <1>4 DEF OnOnePage
<1> HIDE DEF size, lab, n
<1>7. flat \in Seq(Validators) /\ Blocked(flat, size, lab, n)
  <2>1. \A t : t = [i \in 1..n |-> [k \in 1..size[i] |-> lab[i]]]
               => FlattenSeq(t) \in Seq(Validators) /\ Blocked(FlattenSeq(t), size, lab, n)
    BY <1>1, <1>3, FlattenSeqOfBlocks
  <2> QED
    BY <2>1
<1> HIDE DEF flat
<1>8. tail \in Seq(Validators) /\ Len(tail) = IF self THEN 1 ELSE 0
  OBVIOUS
<1>9. Len(flat) \in Nat /\ DOMAIN flat = 1..Len(flat)
  BY <1>7
<1>10. /\ N \in Seq(Validators) /\ DOMAIN N = 1..(Len(flat) + Len(tail))
       /\ \A k \in 1..(Len(flat) + Len(tail)) :
            N[k] = IF k <= Len(flat) THEN flat[k] ELSE tail[k - Len(flat)]
  BY <1>2, <1>7, <1>8, ConcatProperties, LenProperties
<1>11. self => tail[1] = Account
  OBVIOUS
<1> HIDE DEF tail
<1>12. CASE self
  <2>1. DOMAIN N = 1..(Len(flat) + 1) /\ N[Len(flat) + 1] = Account
    BY <1>8, <1>9, <1>10, <1>11, <1>12
  <2>2. \A k \in 1..Len(flat) : k \in DOMAIN N /\ N[k] = flat[k]
    BY <1>8, <1>9, <1>10, <1>12
  <2>3. \A i \in 1..n : size[i] = 0
    BY <1>5, <1>6, <1>12
  <2>4. \A w : Places(flat, w) = {}
    BY <1>7, <2>3 DEF Blocked
  <2>5. \A k \in DOMAIN N : k \in 1..Len(flat) \/ k = Len(flat) + 1
    BY <1>9, <2>1
  <2>6. \A w : w # Account => Places(N, w) = {}
    BY <1>9, <2>1, <2>2, <2>4, <2>5 DEF Places
  <2>7. Places(N, Account) = {Len(flat) + 1}
    BY <1>9, <2>1, <2>2, <2>4, <2>5 DEF Places
  <2>8. HasExposure(info, v) /\ v # Account => Mentions(StoredPage(info, v)) = {}
    <3> SUFFICES ASSUME HasExposure(info, v)
                 PROVE  Mentions(StoredPage(info, v)) = {}
      OBVIOUS
    <3>1. \E q \in PagesOf(info, v) : StoredPage(info, v) = pages[q]
      BY LastPage
    <3> QED
      BY <1>1, <1>4, <2>3, <3>1 DEF PagesOf
  <2>9. Places(N, Account) = Len(flat) + 1..Len(flat) + 1
    BY <1>9, <2>7
  <2> QED
    BY <1>9, <1>10, <1>12, <2>6, <2>8, <2>9 DEF N
<1>13. CASE ~self
  <2>1. \A w : Places(N, w) = Places(flat, w)
    <3>1. Len(flat) + Len(tail) = Len(flat)
      <4>1. Len(tail) = 0
        BY <1>8, <1>13
      <4> QED
        BY <1>9, <4>1
    <3> QED
      BY <1>9, <1>10, <3>1 DEF Places
  <2>2. ~HasExposure(info, v) => Places(flat, v) = {}
    BY <1>5, <1>7 DEF Blocked
  <2>3. HasExposure(info, v) => v # Account
    BY <1>13
  <2>4. ASSUME HasExposure(info, v), Mentions(StoredPage(info, v)) # {}
        PROVE  \E a \in Nat : Places(flat, v) = a + 1..a + Cardinality(Mentions(StoredPage(info, v)))
    <3>1. PICK q \in 1..n : StoredPage(info, v) = pages[q] /\ lab[q] = v
      <4>1. \E q \in PagesOf(info, v) : StoredPage(info, v) = pages[q]
        BY <2>4, LastPage
      <4> QED
        BY <1>1, <1>4, <4>1 DEF PagesOf
    <3>2. size[q] # 0 /\ size[q] = Cardinality(Mentions(StoredPage(info, v)))
      BY <1>4, <2>4, <3>1
    <3>3. \A i \in 1..n : lab[i] = lab[q] /\ size[i] # 0 => i = q
      BY <1>6, <3>2
    <3> QED
      BY <1>7, <3>1, <3>2, <3>3 DEF Blocked
  <2> QED
    BY <1>10, <2>1, <2>2, <2>3, <2>4 DEF N
<1> QED
  BY <1>12, <1>13

-----------------------------------------------------------------------------
(* What an era pays. *)

\* The nominations of an era that are paid.
Kept(c, e) == {i \in DOMAIN NominatedExposures(Info(c, e)) : Paid(c, e, i)}

\* Of the paid ones, those on v.
KeptOn(c, e, v) == {i \in Kept(c, e) : NominatedExposures(Info(c, e))[i] = v}

\* The exposures of m nominations that follow the first a.
ExposuresAfter(c, e, a, m) ==
  [k \in 1..m |-> NominatorExposure(Info(c, e), NominatedExposures(Info(c, e)), a + k)]

\* An answered era lists, of a validator whose paid nominations follow one
\* another, their exposures in order.
LEMMA ExposuresListed ==
  ASSUME NEW c, NEW e, NominatedExposures(Info(c, e)) \in Seq(Validators), ~NoReward(c, e),
         NEW v, NEW a \in Nat, NEW m \in Nat, KeptOn(c, e, v) = a + 1..a + m
  PROVE  ExposuresPaid(EraPayouts(c, e), v) = ExposuresAfter(c, e, a, m)
<1> DEFINE N == NominatedExposures(Info(c, e))
           K == Kept(c, e)
           A == Ascending(K)
           O == a + 1..a + m
           P == Payments(c, e)
           Q == {k \in DOMAIN P : P[k].validator = v}
           B == Ascending(Q)
           x(i) == NominatorExposure(Info(c, e), N, i)
<1>1. K \in SUBSET Nat /\ IsFiniteSet(K)
  <2>1. DOMAIN N = 1..Len(N) /\ Len(N) \in Nat
    OBVIOUS
  <2>2. K \subseteq DOMAIN N
    BY DEF Kept
  <2> HIDE DEF N, K
  <2>3. K \in SUBSET (1..Len(N)) /\ K \in SUBSET Nat
    BY <2>1, <2>2
  <2>4. IsFiniteSet(1..Len(N))
    BY <2>1, FS_Interval
  <2> QED
    BY <2>3, <2>4, FS_Subset
<1>2. /\ DOMAIN P = DOMAIN A
      /\ \A k \in DOMAIN A : P[k].validator = N[A[k]] /\ P[k].exposure = x(A[k])
  BY DEF Payments, Kept
<1>3. \A k \in DOMAIN A : A[k] \in K
  BY <1>1, AscendingEnumerates
<1>4. \A i \in K : N[i] = v <=> i \in O
  BY DEF KeptOn
<1>5. O \subseteq K
  BY DEF KeptOn
<1> HIDE DEF A, P, N, K, x
<1>6. Q = Picked(K, O)
  BY <1>2, <1>3, <1>4 DEF Picked, A
<1> HIDE DEF Q
<1>7. DOMAIN B = 1..m /\ \A k \in 1..m : B[k] \in Q /\ A[B[k]] = a + k
  BY <1>1, <1>5, <1>6, PickedInOrder DEF A
<1> HIDE DEF B
<1>8. \A k \in Q : k \in DOMAIN A
  BY <1>2 DEF Q
<1>9. At(P, Q) = [k \in 1..m |-> P[B[k]]]
  BY <1>7 DEF At, B
<1>10. \A k \in 1..m : At(P, Q)[k].exposure = x(a + k)
  BY <1>2, <1>7, <1>8, <1>9
<1>11. ExposuresPaid(EraPayouts(c, e), v) = [k \in DOMAIN At(P, Q) |-> At(P, Q)[k].exposure]
  <2>1. EraPayouts(c, e).payouts = P
    BY DEF EraPayouts, P
  <2> QED
    BY <2>1 DEF ExposuresPaid, Q
<1>12. DOMAIN At(P, Q) = 1..m
  BY <1>9
<1>13. ExposuresPaid(EraPayouts(c, e), v) = [k \in 1..m |-> x(a + k)]
  BY <1>10, <1>11, <1>12
<1> QED
  BY <1>13 DEF x, N, ExposuresAfter

\* The empty list.
LEMMA NothingListed ==
  ASSUME NEW f
  PROVE  [k \in 1..0 |-> f[k]] = <<>>
OBVIOUS

\* What is at stake, by the page that deriveEraExposure keeps.
LEMMA StakesListed ==
  ASSUME NEW info \in EraInfo, NEW v \in Validators
  PROVE  /\ ~HasExposure(info, v) => Stakes(info, v) = <<>>
         /\ HasExposure(info, v) /\ v = Account => Stakes(info, v) = <<info.own[v]>>
         /\ HasExposure(info, v) /\ v # Account =>
              LET page == StoredPage(info, v)
                  own == At(page.others, Mentions(page))
              IN  /\ Stakes(info, v) = [k \in DOMAIN own |-> own[k].value]
                  /\ DOMAIN own = 1..Cardinality(Mentions(page))
                  /\ Len(own) = Cardinality(Mentions(page))
                  /\ Cardinality(Mentions(page)) \in Nat
                  /\ Cardinality(Mentions(page)) = 0 <=> Mentions(page) = {}
                  /\ \A k \in DOMAIN own : own[k].value \in Nat
<1>1. HasExposure(info, v) <=> PagesOf(info, v) # {}
  BY DEF HasExposure, PagesOf
<1>2. ~HasExposure(info, v) => Stakes(info, v) = <<>>
  BY <1>1 DEF Stakes, PagesOf
<1>3. HasExposure(info, v) /\ v = Account => Stakes(info, v) = <<info.own[v]>>
  BY <1>1 DEF Stakes, PagesOf
<1>4. ASSUME HasExposure(info, v), v # Account
      PROVE  LET page == StoredPage(info, v)
                 own == At(page.others, Mentions(page))
             IN  /\ Stakes(info, v) = [k \in DOMAIN own |-> own[k].value]
                 /\ DOMAIN own = 1..Cardinality(Mentions(page))
                 /\ Len(own) = Cardinality(Mentions(page))
                 /\ Cardinality(Mentions(page)) \in Nat
                 /\ Cardinality(Mentions(page)) = 0 <=> Mentions(page) = {}
                 /\ \A k \in DOMAIN own : own[k].value \in Nat
  <2> DEFINE page == StoredPage(info, v)
             M == Mentions(page)
             own == At(page.others, M)
             A == Ascending(M)
  <2>1. PICK q \in PagesOf(info, v) : page = info.pages[q] /\ Max(PagesOf(info, v)) = q
    BY <1>4, LastPage
  <2>2. q \in 1..Len(info.pages)
    BY PagesTyped DEF PagesOf
  <2>3. /\ Len(page.others) \in Nat /\ DOMAIN page.others = 1..Len(page.others)
        /\ \A k \in 1..Len(page.others) : page.others[k].value \in Nat
        /\ M \in SUBSET Nat /\ IsFiniteSet(M) /\ M \subseteq DOMAIN page.others
        /\ Cardinality(M) \in Nat /\ (Cardinality(M) = 0 <=> M = {})
    BY <2>1, <2>2, PagesTyped
  <2>4. Stakes(info, v) = [k \in DOMAIN own |-> own[k].value]
    BY <1>1, <1>4, <2>1 DEF Stakes, PagesOf
  <2>5. /\ DOMAIN A = 1..Cardinality(M) /\ \A k \in DOMAIN A : A[k] \in M
    BY <2>3, AscendingEnumerates
  <2>6. own = [k \in DOMAIN A |-> page.others[A[k]]]
    BY DEF At
  <2> HIDE DEF own, A, M, page
  <2>7. DOMAIN own = 1..Cardinality(M) /\ \A k \in DOMAIN own : own[k].value \in Nat
    BY <2>3, <2>5, <2>6
  <2>8. Len(own) = Cardinality(M)
    <3>1. own \in [1..Cardinality(M) -> ToSet(own)]
      BY <2>5, <2>6, <2>7 DEF ToSet
    <3> QED
      BY <2>3, <3>1, FunctionsAreSeqs
  <2>9. /\ Stakes(info, v) = [k \in DOMAIN own |-> own[k].value]
        /\ DOMAIN own = 1..Cardinality(M) /\ Len(own) = Cardinality(M)
        /\ Cardinality(M) \in Nat /\ (Cardinality(M) = 0 <=> M = {})
        /\ \A k \in DOMAIN own : own[k].value \in Nat
    BY <2>3, <2>4, <2>7, <2>8
  <2> QED
    BY <2>9 DEF own, M, page
<1> QED
  BY <1>2, <1>3, <1>4

\* Which nominations on v are paid: all of them when it is due, else none.
LEMMA KeptWhenDue ==
  ASSUME IInv, NEW c \in Chains, NEW e \in Eras, NEW v \in Validators,
         \A i \in DOMAIN NominatedExposures(Info(c, e)) :
           ledger[<<e, i>>] <=> NominatedExposures(Info(c, e))[i] \in world.ledgers[c]
  PROVE  /\ ~Due(c, e, v) => KeptOn(c, e, v) = {}
         /\ Due(c, e, v) =>
              KeptOn(c, e, v)
                = {i \in Places(NominatedExposures(Info(c, e)), v) :
                     NominatorExposure(Info(c, e), NominatedExposures(Info(c, e)), i) # Absent}
<1> DEFINE info == Info(c, e)
           N == NominatedExposures(info)
           n == Cardinality({k \in DOMAIN info.pages : info.pages[k].validator = v})
<1>1. info \in EraInfo /\ OnOnePage(info)
  BY ErasWellFormed DEF IInv, LookupsTyped, Info
<1>2. info.points[v] \in Nat /\ info.claimed[v] \in Nat
  BY <1>1, PagesTyped
<1>3. Places(N, v) # {} => HasExposure(info, v)
  BY <1>1, NominationsInARow
<1>4. n \in Nat /\ (HasExposure(info, v) => n # 0)
  <2> DEFINE of == PagesOf(info, v)
  <2>1. Len(info.pages) \in Nat /\ DOMAIN info.pages = 1..Len(info.pages)
    BY <1>1, PagesTyped
  <2>2. of \in SUBSET (1..Len(info.pages)) /\ IsFiniteSet(1..Len(info.pages))
    BY <2>1, FS_Interval DEF PagesOf
  <2>3. HasExposure(info, v) => of # {}
    BY DEF HasExposure, PagesOf
  <2>4. n = Cardinality(of)
    BY DEF PagesOf
  <2> HIDE DEF of, info
  <2> QED
    BY <2>2, <2>3, <2>4, FS_Subset, FS_CardinalityType, FS_EmptySet
<1>5. \A i \in Places(N, v) : i \in DOMAIN N /\ N[i] = v
  BY DEF Places
<1>6. \A i \in DOMAIN N : Paid(c, e, i) <=>
        /\ info.points[N[i]] > 0
        /\ NominatorExposure(info, N, i) # Absent
        /\ N[i] \in world.ledgers[c]
        /\ ~(request.unclaimedOnly /\ Claimed(info, N[i]))
  BY DEF Paid
<1>7. Claimed(info, v) <=> info.claimed[v] > 0 /\ info.claimed[v] >= n
  BY DEF Claimed
<1>8. Due(c, e, v) <=> /\ info.points[v] > 0 /\ v \in world.ledgers[c]
                       /\ request.unclaimedOnly => info.claimed[v] < n
  BY DEF Due
<1>9. KeptOn(c, e, v) = {i \in Places(N, v) : Paid(c, e, i)}
  BY DEF KeptOn, Kept, Places
<1> HIDE DEF n, N, info
<1>10. HasExposure(info, v) =>
         ((request.unclaimedOnly => info.claimed[v] < n)
            <=> ~(request.unclaimedOnly /\ Claimed(info, v)))
  BY <1>2, <1>4, <1>7
<1>11. \A i \in Places(N, v) : Paid(c, e, i) <=> Due(c, e, v) /\ NominatorExposure(info, N, i) # Absent
  BY <1>3, <1>5, <1>6, <1>8, <1>10
<1> QED
  BY <1>9, <1>11 DEF N, info

\* The place of a nomination among those on its validator.
LEMMA IndexInARow ==
  ASSUME NEW N \in Seq(Validators), NEW v, NEW a \in Nat, NEW m \in Nat,
         Places(N, v) = a + 1..a + m, NEW k \in 1..m
  PROVE  N[a + k] = v /\ NominatorIndex(N, a + k) = k - 1
<1>1. a + k \in a + 1..a + m
  OBVIOUS
<1>2. N[a + k] = v /\ a + k \in DOMAIN N
  BY <1>1 DEF Places
<1>3. DOMAIN N = 1..Len(N) /\ Len(N) \in Nat
  OBVIOUS
<1>4. {j \in 1..(a + k - 1) : N[j] = N[a + k]} = a + 1..a + k - 1
  <2>1. \A j \in 1..(a + k - 1) : j \in DOMAIN N
    BY <1>2, <1>3
  <2>2. \A j \in 1..(a + k - 1) : N[j] = v <=> j \in a + 1..a + m
    BY <2>1 DEF Places
  <2>3. \A j \in 1..(a + k - 1) : j \in a + 1..a + m <=> j \in a + 1..a + k - 1
    OBVIOUS
  <2>4. a + 1..a + k - 1 \subseteq 1..(a + k - 1)
    OBVIOUS
  <2> QED
    BY <1>2, <2>2, <2>3, <2>4
<1>5. Cardinality(a + 1..a + k - 1) = k - 1
  <2> DEFINE lo == a + 1
             hi == a + k - 1
  <2>1. lo \in Int /\ hi \in Int /\ k - 1 = IF lo > hi THEN 0 ELSE hi - lo + 1
    OBVIOUS
  <2>2. a + 1..a + k - 1 = lo..hi
    OBVIOUS
  <2> HIDE DEF lo, hi
  <2>3. Cardinality(lo..hi) = IF lo > hi THEN 0 ELSE hi - lo + 1
    BY <2>1, FS_Interval
  <2> QED
    BY <2>1, <2>2, <2>3
<1>6. NominatorIndex(N, a + k) = Cardinality({j \in 1..(a + k - 1) : N[j] = N[a + k]})
  BY DEF NominatorIndex
<1> QED
  BY <1>2, <1>4, <1>5, <1>6, Zenon

\* An answered era pays what is due.
PaidExactly(answer) ==
  LET e == answer.era
      c == Recorder(e)
  IN  \A v \in Validators :
        ExposuresPaid(answer, v) = IF Due(c, e, v) THEN Stakes(Info(c, e), v) ELSE <<>>

\* An era whose lookups found what the chain has pays what is due.
LEMMA EraPaysExactly ==
  ASSUME IInv, NEW c \in Chains, NEW e \in Eras, ~NoReward(c, e), c = Recorder(e),
         \A i \in DOMAIN NominatedExposures(Info(c, e)) :
           ledger[<<e, i>>] <=> NominatedExposures(Info(c, e))[i] \in world.ledgers[c]
  PROVE  PaidExactly(EraPayouts(c, e))
<1> SUFFICES ASSUME NEW v \in Validators
             PROVE  ExposuresPaid(EraPayouts(c, e), v)
                      = IF Due(c, e, v) THEN Stakes(Info(c, e), v) ELSE <<>>
  <2>1. EraPayouts(c, e).era = e
    BY DEF EraPayouts
  <2> QED
    BY <2>1 DEF PaidExactly
<1> DEFINE info == Info(c, e)
           N == NominatedExposures(info)
           x(i) == NominatorExposure(info, N, i)
           page == StoredPage(info, v)
           own == At(page.others, Mentions(page))
           m == Cardinality(Mentions(page))
           paid == ExposuresPaid(EraPayouts(c, e), v)
<1>1. info \in EraInfo /\ OnOnePage(info)
  BY ErasWellFormed DEF IInv, LookupsTyped, Info
<1>2. /\ N \in Seq(Validators)
      /\ ~HasExposure(info, v) => Places(N, v) = {}
      /\ HasExposure(info, v) /\ v = Account =>
           \E a \in Nat : Places(N, v) = a + 1..a + 1
      /\ HasExposure(info, v) /\ v # Account =>
           Mentions(page) = {} \/ \E a \in Nat : Places(N, v) = a + 1..a + m
  BY <1>1, NominationsInARow
<1>3. /\ ~HasExposure(info, v) => Stakes(info, v) = <<>>
      /\ HasExposure(info, v) /\ v = Account => Stakes(info, v) = <<info.own[v]>>
      /\ HasExposure(info, v) /\ v # Account =>
           /\ Stakes(info, v) = [k \in DOMAIN own |-> own[k].value]
           /\ DOMAIN own = 1..m /\ Len(own) = m /\ m \in Nat
           /\ m = 0 <=> Mentions(page) = {}
           /\ \A k \in DOMAIN own : own[k].value \in Nat
  BY <1>1, StakesListed
<1>4. \A a, n \in Nat : KeptOn(c, e, v) = a + 1..a + n => paid = [k \in 1..n |-> x(a + k)]
  <2>1. NominatedExposures(Info(c, e)) \in Seq(Validators) /\ ~NoReward(c, e)
    BY <1>2
  <2>2. \A a, n \in Nat :
          KeptOn(c, e, v) = a + 1..a + n
            => ExposuresPaid(EraPayouts(c, e), v) = ExposuresAfter(c, e, a, n)
    BY <2>1, ExposuresListed, Zenon
  <2> QED
    BY <2>2 DEF ExposuresAfter
<1>5. /\ ~Due(c, e, v) => KeptOn(c, e, v) = {}
      /\ Due(c, e, v) => KeptOn(c, e, v) = {i \in Places(N, v) : x(i) # Absent}
  BY KeptWhenDue
<1>6. \A i : N[i] = v =>
        x(i) = IF v = Account THEN info.own[v]
               ELSE IF Len(own) > 1 THEN own[NominatorIndex(N, i) + 1].value
               ELSE IF Len(own) = 1 THEN own[1].value ELSE Absent
  BY DEF NominatorExposure
<1>7. \A i \in Places(N, v) : N[i] = v
  BY DEF Places
<1>8. info.own[v] \in Nat
  BY <1>1, PagesTyped
<1> HIDE DEF info, N, x, page, own, m, paid
<1>9. KeptOn(c, e, v) = {} => paid = <<>>
  <2>1. 0 + 1..0 + 0 = {}
    OBVIOUS
  <2>2. KeptOn(c, e, v) = {} => paid = [k \in 1..0 |-> x(0 + k)]
    BY <1>4, <2>1
  <2> QED
    BY <2>2
<1>10. CASE ~Due(c, e, v)
  BY <1>5, <1>9, <1>10 DEF paid
<1>11. CASE Due(c, e, v) /\ ~HasExposure(info, v)
  BY <1>2, <1>3, <1>5, <1>9, <1>11 DEF paid, info
<1>12. CASE Due(c, e, v) /\ HasExposure(info, v) /\ v = Account
  <2>1. PICK a \in Nat : Places(N, v) = a + 1..a + 1
    BY <1>2, <1>12
  <2>2. \A i \in Places(N, v) : x(i) = info.own[v]
    BY <1>6, <1>7, <1>12
  <2>3. KeptOn(c, e, v) = a + 1..a + 1
    BY <1>5, <1>8, <1>12, <2>1, <2>2, NumbersAssumption
  <2>4. paid = [k \in 1..1 |-> x(a + k)]
    BY <1>4, <2>3
  <2>5. a + 1 \in Places(N, v)
    BY <2>1
  <2>6. paid = <<info.own[v]>>
    BY <2>2, <2>4, <2>5
  <2> QED
    BY <1>3, <1>12, <2>6 DEF paid, info
<1>13. CASE Due(c, e, v) /\ HasExposure(info, v) /\ v # Account /\ Mentions(page) = {}
  <2>1. m = 0 /\ Len(own) = 0 /\ DOMAIN own = 1..0
    BY <1>3, <1>13
  <2>2. \A i \in Places(N, v) : x(i) = Absent
    BY <1>6, <1>7, <1>13, <2>1
  <2>3. paid = <<>>
    BY <1>5, <1>9, <1>13, <2>2
  <2>4. Stakes(info, v) = <<>>
    BY <1>3, <1>13, <2>1
  <2> QED
    BY <1>13, <2>3, <2>4 DEF paid, info
<1>14. CASE Due(c, e, v) /\ HasExposure(info, v) /\ v # Account /\ Mentions(page) # {}
  <2>1. PICK a \in Nat : Places(N, v) = a + 1..a + m
    BY <1>2, <1>14
  <2>2. m \in Nat /\ m # 0 /\ Len(own) = m /\ DOMAIN own = 1..m
    BY <1>3, <1>14
  <2>3. ASSUME NEW k \in 1..m
        PROVE  x(a + k) = own[k].value /\ x(a + k) # Absent
    <3>1. N[a + k] = v /\ NominatorIndex(N, a + k) = k - 1
      BY <1>2, <2>1, <2>2, IndexInARow
    <3>2. CASE m > 1
      <4>1. x(a + k) = own[NominatorIndex(N, a + k) + 1].value
        BY <1>6, <1>14, <2>2, <3>1, <3>2
      <4>2. NominatorIndex(N, a + k) + 1 = k
        BY <3>1
      <4> QED
        BY <1>3, <1>14, <2>2, <4>1, <4>2, NumbersAssumption
    <3>3. CASE m = 1
      <4>1. k = 1
        BY <3>3
      <4> QED
        BY <1>3, <1>6, <1>14, <2>2, <3>1, <3>3, <4>1, NumbersAssumption
    <3> QED
      BY <2>2, <3>2, <3>3
  <2>4. \A i \in Places(N, v) : x(i) # Absent
    <3> TAKE i \in Places(N, v)
    <3>1. i - a \in 1..m /\ a + (i - a) = i
      BY <2>1, <2>2
    <3> QED
      BY <2>3, <3>1
  <2>5. KeptOn(c, e, v) = a + 1..a + m
    BY <1>5, <1>14, <2>1, <2>4
  <2>6. paid = [k \in 1..m |-> x(a + k)]
    BY <1>4, <2>2, <2>5
  <2>7. paid = [k \in DOMAIN own |-> own[k].value]
    BY <2>2, <2>3, <2>6
  <2> QED
    BY <1>3, <1>14, <2>7 DEF paid, info
<1> QED
  BY <1>10, <1>11, <1>12, <1>13, <1>14

\* Every era that is collected pays what is due.
AllPaidExactly ==
  pc # "idle" => \A i \in DOMAIN payouts : ~payouts[i].message => PaidExactly(payouts[i])

\* What is due and at stake is about the world and the request.
LEMMA DuesStay ==
  ASSUME UNCHANGED <<world, request>>, NEW answer
  PROVE  PaidExactly(answer) <=> PaidExactly(answer)'
<1>1. \A e : Recorder(e)' = Recorder(e)
  BY DEF Recorder
<1>2. \A c, e, v : Due(c, e, v)' <=> Due(c, e, v)
  BY DEF Due, Info
<1>3. \A c, e, v : Stakes(Info(c, e), v)' = Stakes(Info(c, e), v)
  BY DEF Info
<1>4. \A v : ExposuresPaid(answer, v)' = ExposuresPaid(answer, v)
  OBVIOUS
<1> QED
  BY <1>1, <1>2, <1>3, <1>4 DEF PaidExactly

\* What a chain's part of the answer pays.
LEMMA DerivedPaysExactly ==
  ASSUME IInv, pc = "lookups", chain = "relay" => request.migrated,
         \A t \in Lookups(chain) : lookup[t] = "done",
         NEW k \in DOMAIN Derived(chain), ~Derived(chain)[k].message
  PROVE  PaidExactly(Derived(chain)[k])
<1> DEFINE S == Told(chain)
           A == Ascending(S)
           e == A[k]
<1>1. chain \in Chains
  BY DEF IInv, LookupsTyped
<1>2. S \in SUBSET Nat /\ IsFiniteSet(S) /\ S \subseteq Part(chain) /\ Part(chain) \subseteq Eras
  <2>1. S \in SUBSET Part(chain)
    BY DEF Told
  <2> QED
    BY <1>1, <2>1, PartsAreEras, FS_Subset
<1>3. DOMAIN Derived(chain) = DOMAIN A /\ Derived(chain)[k] = EraPayouts(chain, e)
  BY DEF Derived
<1>4. e \in S
  <2> HIDE DEF S
  <2> QED
    BY <1>2, <1>3, AscendingEnumerates
<1>5. e \in Part(chain) /\ e \in Eras /\ e \in Nat
  BY <1>2, <1>4
<1>6. ~NoReward(chain, e)
  <2>1. EraPayouts(chain, e).message = NoReward(chain, e)
    BY DEF EraPayouts
  <2> QED
    BY <1>3, <2>1
<1>7. chain = Recorder(e)
  <2>1. CASE request.migrated
    <3>1. /\ \A f \in Told("relay") : f < world.last
          /\ \A f \in Told("own") : world.last <= f
          /\ world.last \in Nat
      BY <2>1, PartsApart, PartsAreEras
    <3> QED
      BY <1>1, <1>4, <1>5, <2>1, <3>1 DEF Chains, Recorder
  <2>2. CASE ~request.migrated
    BY <1>1, <2>2 DEF Chains, Recorder
  <2> QED
    BY <2>1, <2>2
<1> HIDE DEF A, e, S
<1>8. ASSUME NEW i \in DOMAIN NominatedExposures(Info(chain, e))
      PROVE  ledger[<<e, i>>] <=> NominatedExposures(Info(chain, e))[i] \in world.ledgers[chain]
  <2> DEFINE t == <<e, i>>
  <2>1. i \in 1..MaxNominations
    BY <1>1, <1>5, NominationsAssumption DEF IInv, LookupsTyped, Info
  <2>2. t \in Tasks /\ t[1] = e /\ t[2] = i
    BY <1>5, <2>1 DEF Tasks
  <2>3. t \in Lookups(chain)
    BY <1>5, <2>2 DEF Lookups
  <2>4. Validator(t) = NominatedExposures(Info(chain, e))[i]
    BY <2>2 DEF Validator
  <2> QED
    BY <2>3, <2>4 DEF IInv, LookupsExact
<1>9. PaidExactly(EraPayouts(chain, e))
  BY <1>1, <1>5, <1>6, <1>7, <1>8, EraPaysExactly
<1> QED
  BY <1>3, <1>9

\* The inductive invariant of the payouts.
NInv == HInv /\ AllPaidExactly

LEMMA PaymentsKept == NInv /\ [Next]_vars => NInv'
<1> SUFFICES ASSUME NInv, [Next]_vars PROVE NInv'
  OBVIOUS
<1>1. HInv /\ HInv'
  BY HistoryKept DEF NInv
<1>2. UNCHANGED <<world, request>>
  BY DEF Next, Check, FetchCommissions, DerivePayouts, Deliver, ReadFails, Done,
     PrefsAnswered, LedgerAnswered, vars
<1>3. CASE DerivePayouts
  <2> DEFINE d == Derived(chain)
  <2>1. pc = "lookups" /\ Joined(payouts', payouts, d)
    BY <1>1, <1>3, DeliverCollects DEF DerivePayouts, Deliver, LookupsIn
  <2>2. \A t \in Lookups(chain) : lookup[t] = "done"
    BY <1>3 DEF DerivePayouts, Deliver, LookupsIn
  <2>3. IInv /\ (chain = "relay" => request.migrated)
    BY <1>1, <2>1 DEF HInv, Collected
  <2>4. \A k \in DOMAIN d : ~d[k].message => PaidExactly(d[k])
    BY <2>1, <2>2, <2>3, DerivedPaysExactly
  <2>5. \A k \in DOMAIN payouts : ~payouts[k].message => PaidExactly(payouts[k])
    BY <2>1 DEF NInv, AllPaidExactly
  <2> HIDE DEF d
  <2>6. ASSUME NEW k \in DOMAIN payouts', ~payouts'[k].message
        PROVE  PaidExactly(payouts'[k])
    BY <2>1, <2>4, <2>5, <2>6, Zenon DEF Joined
  <2>7. \A x : PaidExactly(x) => PaidExactly(x)'
    BY <1>2, DuesStay
  <2>8. AllPaidExactly'
    BY <2>6, <2>7, Zenon DEF AllPaidExactly
  <2> QED
    BY <1>1, <2>8 DEF NInv
<1>4. CASE ~DerivePayouts
  <2>1. UNCHANGED payouts /\ (pc' # "idle" => pc # "idle" \/ payouts = <<>>)
    BY <1>1, <1>4 DEF Next, Check, FetchCommissions, ReadFails, Done,
       PrefsAnswered, LedgerAnswered, vars, HInv, Collected
  <2>2. \A x : PaidExactly(x) => PaidExactly(x)'
    BY <1>2, DuesStay
  <2>3. ASSUME pc' # "idle", NEW i \in DOMAIN payouts, ~payouts[i].message
        PROVE  PaidExactly(payouts[i])
    <3>1. pc # "idle"
      BY <2>1, <2>3
    <3> QED
      BY <2>3, <3>1 DEF NInv, AllPaidExactly
  <2>4. AllPaidExactly'
    BY <2>1, <2>2, <2>3, Zenon DEF AllPaidExactly
  <2> QED
    BY <1>1, <2>4 DEF NInv
<1> QED
  BY <1>3, <1>4

\* Each era that is answered pays every nomination of the account once and
\* with its own exposure, on validators with points and a ledger, and pays
\* nothing else.
THEOREM NominationsArePaid == Spec => []NominationsPaid
<1>1. Init => NInv
  BY InitEstablishes DEF Init, HInv, Collected, NInv, AllPaidExactly
<1>2. NInv => NominationsPaid
  BY DEF NInv, AllPaidExactly, PaidExactly, NominationsPaid, Answered
<1> QED
  BY <1>1, <1>2, PaymentsKept, PTL DEF Spec
=============================================================================
