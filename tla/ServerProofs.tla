---------------------------- MODULE ServerProofs ----------------------------
(***************************************************************************)
(* The startup of the server, and the computations of its services.        *)
(*                                                                         *)
(* For every configuration and every set of nodes: the registry's maps     *)
(* agree and what is served follows from the configuration, in whatever    *)
(* order the connections are answered.  RegistryConsistent is inductive;   *)
(* OrderIsIrrelevant needs what each phase of main() has settled: which    *)
(* calls are done, which types they have stored, which turns of the loop   *)
(* have been made.                                                         *)
(*                                                                         *)
(* For every input of a computation: what Algorithms promises of it, but   *)
(* for those that ServiceProofs treats with the lemmas found here.  The    *)
(* inputs are those the route can be given, of any number and any length.  *)
(***************************************************************************)
EXTENDS Startup, Algorithms, FiniteSetTheorems, WellFoundedInduction, TLAPS

\* A type that is stored was declared for its chain, and a call that is done
\* has left one for its chain if it declares one.
TypesDeclared ==
  /\ \A s \in Specs : typeOf[s] # Untyped => typeOf[s] \in Declared(s)
  /\ \A i \in Calls : call[i] = "done" /\ config.apis[i].type # Untyped
                        => typeOf[SpecName(i)] # Untyped

MainInfo ==
  /\ assetHubInfo.isAssetHub <=> SpecName(1) \in AssetHubSpecs
  /\ assetHubInfo.isAssetHubMigrated <=>
       SpecName(1) \in AssetHubSpecs /\ IsMigrated(Url(1))

Phases ==
  /\ main \in {"inspecting", "mounting", "serving"} => \A i \in Calls : call[i] = "done"
  /\ main \in {"off", "connecting"} => next = 1
  /\ main = "inspecting" => next <= Len(config.apis)
  /\ main \in {"mounting", "serving"} => next > 1
  /\ next > 1 => MainInfo
  /\ next = 1 => ~assetHubInfo.isAssetHub /\ ~assetHubInfo.isAssetHubMigrated

RcMounted ==
  main = "serving" /\ ~config.injected =>
    (withRc <=> /\ SpecName(1) \in AssetHubSpecs \cap MappedSpecs
                /\ \E s \in Specs : typeOf[s] = "relay")

IInv == StartTypeOK /\ RegistryConsistent /\ TypesDeclared /\ Phases /\ RcMounted

\* The entries of a configuration are of the sorts Entry says.
LEMMA ConfigTyped ==
  ASSUME config \in Configs
  PROVE  /\ config.apis \in Seq(Entry) /\ config.injected \in BOOLEAN
         /\ Len(config.apis) \in Nat \ {0} /\ Calls = 1..Len(config.apis) /\ 1 \in Calls
         /\ \A i \in Calls : /\ Url(i) \in Urls /\ SpecName(i) \in Specs
                             /\ config.apis[i].type \in Types \cup {Untyped}
<1>1. config \in Config /\ Len(config.apis) >= 1
  BY ConfigsAssumption
<1>2. config.apis \in Seq(Entry) /\ config.injected \in BOOLEAN
  BY <1>1 DEF Config
<1>3. Len(config.apis) \in Nat \ {0} /\ Calls = 1..Len(config.apis) /\ 1 \in Calls
  BY <1>1, <1>2 DEF Calls
<1>4. ASSUME NEW i \in Calls
      PROVE  Url(i) \in Urls /\ SpecName(i) \in Specs /\ config.apis[i].type \in Types \cup {Untyped}
  <2>1. config.apis[i] \in Entry
    BY <1>2, <1>3
  <2> QED
    BY <2>1 DEF Entry, Url, SpecName, Specs
<1> QED
  BY <1>2, <1>3, <1>4

\* A registry whose maps agree has a relay chain's api exactly if some chain
\* has that type.
LEMMA RelayIsTyped ==
  ASSUME StartTypeOK, RegistryConsistent
  PROVE  HasRelay <=> \E s \in Specs : typeOf[s] = "relay"
<1> DEFINE q == keysOf["relay"]
<1>1. q \in Seq(Specs) /\ "relay" \in Types
  BY DEF StartTypeOK, Types
<1>2. HasRelay <=> DOMAIN q # {}
  BY <1>1 DEF HasRelay, ApisByType
<1>3. \A s \in Specs : typeOf[s] = "relay" <=> \E k \in DOMAIN q : q[k] = s
  BY <1>1 DEF RegistryConsistent
<1>4. \A k \in DOMAIN q : q[k] \in Specs
  BY <1>1
<1> QED
  BY <1>2, <1>3, <1>4

LEMMA InitEstablishes == StartInit => IInv
<1> SUFFICES ASSUME StartInit PROVE IInv
  OBVIOUS
<1> USE DEF StartInit
<1>1. /\ config \in Configs /\ Len(config.apis) \in Nat \ {0}
      /\ \A i \in Calls : call[i] = "idle"
  BY ConfigTyped
<1>2. StartTypeOK
  <2>1. /\ bySpec \in [Specs -> Seq(Calls)] /\ keysOf \in [Types -> Seq(Specs)]
        /\ byUrl \in [Urls -> Calls \cup {0}] /\ typeOf \in [Specs -> Types \cup {Untyped}]
    OBVIOUS
  <2>2. /\ main \in {"off", "connecting", "inspecting", "mounting", "serving", "failed"}
        /\ call \in [Calls -> {"idle", "connecting", "done", "failed"}]
        /\ next \in 1..Len(config.apis) + 1
    BY <1>1
  <2>3. /\ assetHubInfo \in [isAssetHub : BOOLEAN, isAssetHubMigrated : BOOLEAN]
        /\ withRc \in BOOLEAN
    OBVIOUS
  <2> QED
    BY <1>1, <2>1, <2>2, <2>3 DEF StartTypeOK
<1>3. RegistryConsistent
  BY UntypedAssumption DEF RegistryConsistent, Specs
<1>4. TypesDeclared /\ Phases /\ RcMounted
  BY <1>1 DEF TypesDeclared, Phases, RcMounted
<1> QED
  BY <1>2, <1>3, <1>4 DEF IInv

\* A connection that is answered adds an instance to its chain and its url,
\* and a type only where the chain has none.
LEMMA ConnectedKeeps ==
  ASSUME IInv, NEW i \in Calls, Connected(i)
  PROVE  IInv'
<1> USE DEF IInv, Connected
<1>1. /\ config \in Configs /\ config' = config /\ Calls' = Calls /\ i \in Calls'
      /\ Url(i) \in Urls /\ SpecName(i) \in Specs /\ config.apis[i].type \in Types \cup {Untyped}
      /\ Calls = 1..Len(config.apis) /\ Len(config.apis) \in Nat
      /\ \A j \in Calls : Url(j)' = Url(j) /\ SpecName(j)' = SpecName(j) /\ SpecName(j) \in Specs
  BY ConfigTyped DEF StartTypeOK, Calls, Url, SpecName
<1> DEFINE s == SpecName(i)
           ty == config.apis[i].type
<1>2. \/ /\ typeOf[s] = Untyped /\ ty # Untyped /\ ty \in Types
         /\ typeOf' = [typeOf EXCEPT ![s] = ty]
         /\ keysOf' = [keysOf EXCEPT ![ty] = Append(@, s)]
      \/ ~(typeOf[s] = Untyped /\ ty # Untyped) /\ typeOf' = typeOf /\ keysOf' = keysOf
  BY <1>1 DEF TypeInstance
<1>3. bySpec' = [bySpec EXCEPT ![s] = Append(@, i)] /\ bySpec[s] \in Seq(Calls)
  BY <1>1 DEF StartTypeOK
<1>4. byUrl' = [byUrl EXCEPT ![Url(i)] = i] /\ SpecName(i) = SpecOf[Url(i)]
  BY DEF SpecName
<1> HIDE DEF s, ty
<1>5. StartTypeOK'
  <2>1. bySpec' \in [Specs -> Seq(Calls)] /\ byUrl' \in [Urls -> Calls \cup {0}]
    BY <1>1, <1>3, <1>4 DEF StartTypeOK, s
  <2>2. typeOf' \in [Specs -> Types \cup {Untyped}] /\ keysOf' \in [Types -> Seq(Specs)]
    <3>1. s \in Specs /\ typeOf \in [Specs -> Types \cup {Untyped}] /\ keysOf \in [Types -> Seq(Specs)]
      BY <1>1 DEF StartTypeOK, s
    <3>2. \A t \in Types : Append(keysOf[t], s) \in Seq(Specs)
      BY <3>1
    <3> QED
      BY <1>2, <3>1, <3>2
  <2>3. call' \in [Calls -> {"idle", "connecting", "done", "failed"}]
    BY <1>1 DEF StartTypeOK
  <2> QED
    BY <1>1, <2>1, <2>2, <2>3 DEF StartTypeOK
<1>6. RegistryConsistent'
  <2>1. ASSUME NEW r \in Specs, NEW t \in Types
        PROVE  typeOf'[r] = t <=> \E k \in DOMAIN keysOf'[t] : keysOf'[t][k] = r
    <3>1. keysOf[t] \in Seq(Specs) /\ s \in Specs
      BY <1>1 DEF StartTypeOK, s
    <3>2. typeOf[r] = t <=> \E k \in DOMAIN keysOf[t] : keysOf[t][k] = r
      BY DEF RegistryConsistent
    <3>3. CASE typeOf' = typeOf /\ keysOf' = keysOf
      BY <3>2, <3>3
    <3>4. CASE /\ typeOf[s] = Untyped /\ ty \in Types
               /\ typeOf' = [typeOf EXCEPT ![s] = ty]
               /\ keysOf' = [keysOf EXCEPT ![ty] = Append(@, s)]
      <4>1. CASE t # ty
        BY <3>1, <3>2, <3>4, <4>1, UntypedAssumption DEF StartTypeOK
      <4>2. CASE t = ty
        <5>1. keysOf'[t] = Append(keysOf[t], s)
          BY <3>4, <4>2 DEF StartTypeOK
        <5>2. /\ DOMAIN keysOf'[t] = 1..(Len(keysOf[t]) + 1) /\ Len(keysOf[t]) \in Nat
              /\ DOMAIN keysOf[t] = 1..Len(keysOf[t])
              /\ keysOf'[t][Len(keysOf[t]) + 1] = s
              /\ \A k \in DOMAIN keysOf[t] : keysOf'[t][k] = keysOf[t][k]
          BY <3>1, <5>1
        <5>3. typeOf'[s] = t /\ (r # s => typeOf'[r] = typeOf[r])
          BY <3>1, <3>4, <4>2 DEF StartTypeOK
        <5>4. CASE r = s
          BY <5>2, <5>3, <5>4
        <5>5. CASE r # s
          <6> DEFINE n == Len(keysOf[t])
                     old == keysOf[t]
                     new == keysOf'[t]
          <6>1. /\ n \in Nat /\ DOMAIN old = 1..n /\ DOMAIN new = 1..(n + 1) /\ new[n + 1] = s
                /\ \A k \in 1..n : new[k] = old[k]
            BY <5>2
          <6>2. typeOf'[r] = t <=> \E k \in DOMAIN old : old[k] = r
            BY <3>2, <5>3, <5>5
          <6> HIDE DEF n, old, new
          <6>3. \A k \in 1..(n + 1) : k \in 1..n \/ k = n + 1
            BY <6>1
          <6>4. 1..n \subseteq 1..(n + 1)
            BY <6>1
          <6>5. (\E k \in 1..n : old[k] = r) <=> (\E k \in 1..(n + 1) : new[k] = r)
            BY <5>5, <6>1, <6>3, <6>4
          <6> QED BY <6>1, <6>2, <6>5 DEF new
        <5> QED
          BY <5>4, <5>5
      <4> QED
        BY <4>1, <4>2
    <3> QED
      BY <1>2, <3>3, <3>4
  <2>2. ASSUME NEW r \in Specs, typeOf'[r] # Untyped
        PROVE  bySpec'[r] # <<>>
    <3>1. CASE r = s
      <4>1. bySpec'[r] = Append(bySpec[s], i) /\ bySpec[s] \in Seq(Calls)
        BY <1>1, <1>3, <3>1 DEF StartTypeOK
      <4>2. Len(bySpec'[r]) # 0
        BY <4>1
      <4> QED
        BY <4>2
    <3>2. CASE r # s
      <4>1. typeOf'[r] = typeOf[r] /\ bySpec'[r] = bySpec[r]
        BY <1>2, <1>3, <3>2 DEF StartTypeOK
      <4> QED
        BY <2>2, <4>1 DEF RegistryConsistent
    <3> QED
      BY <3>1, <3>2
  <2>3. ASSUME NEW u \in Urls, byUrl'[u] # 0
        PROVE  \E k \in DOMAIN bySpec'[SpecOf[u]] : bySpec'[SpecOf[u]][k] = byUrl'[u]
    <3> DEFINE q == bySpec[SpecOf[u]]
    <3>1. q \in Seq(Calls) /\ SpecOf[u] \in Specs
      BY DEF StartTypeOK, Specs
    <3>2. /\ Append(q, i) \in Seq(Calls) /\ Len(q) \in Nat
          /\ DOMAIN q = 1..Len(q) /\ DOMAIN Append(q, i) = 1..(Len(q) + 1)
          /\ Append(q, i)[Len(q) + 1] = i
          /\ \A k \in 1..Len(q) : Append(q, i)[k] = q[k]
      BY <3>1, <1>1
    <3>3. bySpec'[SpecOf[u]] = IF SpecOf[u] = s THEN Append(q, i) ELSE q
      BY <1>3, <3>1 DEF StartTypeOK
    <3>4. CASE u = Url(i)
      <4>1. byUrl'[u] = i /\ SpecOf[u] = s
        BY <1>1, <1>4, <3>4 DEF StartTypeOK, s
      <4>2. bySpec'[SpecOf[u]] = Append(q, i)
        BY <3>3, <4>1
      <4>3. Len(q) + 1 \in DOMAIN Append(q, i) /\ Append(q, i)[Len(q) + 1] = byUrl'[u]
        BY <3>2, <4>1
      <4> HIDE DEF q
      <4> QED
        BY <4>2, <4>3
    <3>5. CASE u # Url(i)
      <4>1. byUrl'[u] = byUrl[u]
        BY <1>4, <3>5 DEF StartTypeOK
      <4>2. \E k \in DOMAIN q : q[k] = byUrl[u]
        <5>1. \A w \in Urls : byUrl[w] # 0 =>
                \E k \in DOMAIN bySpec[SpecOf[w]] : bySpec[SpecOf[w]][k] = byUrl[w]
          BY ONLY RegistryConsistent DEF RegistryConsistent
        <5>2. byUrl[u] # 0
          BY <2>3, <4>1
        <5> QED
          BY <5>1, <5>2
      <4>3. PICK k \in 1..Len(q) : q[k] = byUrl[u]
        BY <3>2, <4>2
      <4>4. CASE SpecOf[u] = s
        <5>1. k \in DOMAIN Append(q, i) /\ Append(q, i)[k] = byUrl'[u]
          BY <3>2, <4>1, <4>3
        <5> QED
          BY <3>3, <4>4, <5>1
      <4>5. CASE SpecOf[u] # s
        BY <3>2, <3>3, <4>1, <4>3, <4>5
      <4> QED
        BY <4>4, <4>5
    <3> QED
      BY <3>4, <3>5
  <2> QED
    BY <2>1, <2>2, <2>3 DEF RegistryConsistent
<1>7. TypesDeclared'
  <2>1. \A r \in Specs : Declared(r)' = Declared(r)
    BY <1>1 DEF Declared
  <2>2. ty # Untyped => ty \in Declared(s)
    BY <1>1 DEF Declared, s, ty
  <2>3. ASSUME NEW r \in Specs, typeOf'[r] # Untyped
        PROVE  typeOf'[r] \in Declared(r)
    <3>1. typeOf'[r] = typeOf[r] \/ (r = s /\ typeOf'[r] = ty /\ ty # Untyped)
      BY <1>2 DEF StartTypeOK
    <3> QED
      BY <2>2, <2>3, <3>1 DEF TypesDeclared
  <2>4. ASSUME NEW j \in Calls, call'[j] = "done", config.apis[j].type # Untyped
        PROVE  typeOf'[SpecName(j)] # Untyped
    <3>1. SpecName(j) \in Specs /\ s \in Specs
      BY <1>1 DEF s
    <3>2. CASE j = i
      BY <1>2, <2>4, <3>1, <3>2, UntypedAssumption DEF StartTypeOK, s, ty
    <3>3. CASE j # i
      <4>1. typeOf[SpecName(j)] # Untyped
        BY <2>4, <3>3 DEF StartTypeOK, TypesDeclared
      <4> QED
        BY <1>2, <3>1, <4>1, UntypedAssumption DEF StartTypeOK
    <3> QED
      BY <3>2, <3>3
  <2> QED
    BY <1>1, <2>1, <2>3, <2>4 DEF TypesDeclared
<1>8. Phases' /\ RcMounted'
  <2>1. main \notin {"inspecting", "mounting", "serving"}
    BY DEF Phases
  <2>2. main' = main /\ next' = next /\ assetHubInfo' = assetHubInfo
    OBVIOUS
  <2>3. MainInfo' <=> MainInfo
    BY <1>1, <2>2, ConfigTyped DEF MainInfo, IsMigrated, StartTypeOK
  <2> QED
    BY <1>1, <2>1, <2>2, <2>3 DEF Phases, RcMounted
<1> QED
  BY <1>5, <1>6, <1>7, <1>8

\* What the steps of main() leave alone.
LEMMA RegistryKept ==
  ASSUME IInv, UNCHANGED <<config, registry>>, UNCHANGED call
  PROVE  RegistryConsistent' /\ TypesDeclared'
BY DEF IInv, RegistryConsistent, TypesDeclared, registry, Declared, Calls, Url, SpecName

LEMMA StepKeeps == IInv /\ [StartNext]_startVars => IInv'
<1> SUFFICES ASSUME IInv, [StartNext]_startVars PROVE IInv'
  OBVIOUS
<1> USE DEF IInv
<1>0. /\ config \in Configs /\ Len(config.apis) \in Nat \ {0}
      /\ Calls = 1..Len(config.apis) /\ 1 \in Calls
      /\ \A i \in Calls : SpecName(i) \in Specs /\ Url(i) \in Urls
  BY ConfigTyped DEF StartTypeOK
<1>1. CASE Begin
  <2>1. RegistryConsistent'
    BY <1>1 DEF Begin, registry, RegistryConsistent
  <2>2. TypesDeclared'
    <3>1. \A i \in Calls : call'[i] # "done"
      BY <1>1 DEF Begin
    <3> QED
      BY <1>1, <3>1 DEF Begin, registry, TypesDeclared, Declared, Calls, Url, SpecName
  <2>3. StartTypeOK'
    BY <1>1 DEF Begin, registry, StartTypeOK, Calls
  <2> QED
    BY <1>1, <2>1, <2>2, <2>3 DEF Begin, Phases, RcMounted
<1>2. CASE Abort
  BY <1>2, RegistryKept DEF Abort, registry, StartTypeOK, Calls, Phases, RcMounted,
     MainInfo, IsMigrated, SpecName, Url
<1>3. CASE AllConnected
  <2>1. RegistryConsistent' /\ TypesDeclared'
    BY <1>3, RegistryKept DEF AllConnected
  <2>2. StartTypeOK'
    BY <1>3 DEF AllConnected, registry, StartTypeOK, Calls
  <2>3. Phases' /\ RcMounted'
    BY <1>0, <1>3 DEF AllConnected, Phases, RcMounted, Calls
  <2> QED
    BY <2>1, <2>2, <2>3
<1>4. CASE Inspect
  <2>1. RegistryConsistent' /\ TypesDeclared'
    BY <1>4, RegistryKept DEF Inspect
  <2>2. CASE main' = "failed" /\ UNCHANGED <<next, assetHubInfo>>
    BY <1>4, <2>1, <2>2 DEF Inspect, registry, StartTypeOK, Calls, Phases, RcMounted,
       MainInfo, IsMigrated, SpecName, Url
  <2>3. CASE /\ main' = IF IsLast(next) THEN "mounting" ELSE "inspecting"
             /\ next' = next + 1
             /\ assetHubInfo' = IF next \in Calls /\ IsMainAssetHub(next)
                                THEN [isAssetHub         |-> TRUE,
                                      isAssetHubMigrated |-> IsMigrated(Url(next))]
                                ELSE assetHubInfo
    <3>1. /\ main = "inspecting" /\ next \in 1..Len(config.apis)
          /\ \A i \in Calls : call[i] = "done"
      BY <1>0, <1>4 DEF Inspect, Phases, StartTypeOK
    <3>2. IsMigrated(Url(1)) \in BOOLEAN
      BY DEF IsMigrated
    <3>3. assetHubInfo' \in [isAssetHub : BOOLEAN, isAssetHubMigrated : BOOLEAN]
      <4>1. IsMigrated(Url(next)) \in BOOLEAN
        BY DEF IsMigrated
      <4> QED
        BY <2>3, <4>1 DEF StartTypeOK
    <3>4. /\ assetHubInfo'.isAssetHub <=> SpecName(1) \in AssetHubSpecs
          /\ assetHubInfo'.isAssetHubMigrated <=>
               SpecName(1) \in AssetHubSpecs /\ IsMigrated(Url(1))
      <4>1. CASE next = 1
        BY <1>0, <2>3, <3>2, <4>1 DEF IsMainAssetHub, Phases
      <4>2. CASE next # 1
        BY <2>3, <3>1, <4>2 DEF IsMainAssetHub, Phases, MainInfo
      <4> QED
        BY <4>1, <4>2
    <3>5. MainInfo'
      BY <1>4, <3>4 DEF Inspect, MainInfo, IsMigrated, SpecName, Url
    <3>6. StartTypeOK'
      <4>1. next' \in 1..Len(config.apis) + 1 /\ main' \in {"inspecting", "mounting"}
        BY <1>0, <2>3, <3>1
      <4> QED
        BY <1>4, <3>3, <4>1 DEF Inspect, registry, StartTypeOK, Calls
    <3>7. Phases' /\ RcMounted'
      BY <1>0, <1>4, <2>3, <3>1, <3>5 DEF Inspect, Phases, RcMounted, IsLast, Calls
    <3> QED
      BY <2>1, <3>6, <3>7
  <2> QED
    BY <1>4, <2>2, <2>3 DEF Inspect
<1>5. CASE Mount
  <2>1. RegistryConsistent' /\ TypesDeclared'
    BY <1>5, RegistryKept DEF Mount
  <2>2. HasRelay \in BOOLEAN /\ (SpecName(1) \in AssetHubSpecs \cap MappedSpecs) \in BOOLEAN
    BY DEF HasRelay
  <2>3. StartTypeOK'
    BY <1>5, <2>2 DEF Mount, registry, StartTypeOK, Calls
  <2>4. Phases'
    BY <1>5 DEF Mount, Phases, Calls, MainInfo, IsMigrated, SpecName, Url
  <2>5. RcMounted'
    <3>1. HasRelay <=> \E s \in Specs : typeOf[s] = "relay"
      BY RelayIsTyped
    <3>2. typeOf' = typeOf /\ SpecName(1)' = SpecName(1) /\ config' = config
      BY <1>5 DEF Mount, registry, SpecName, Url
    <3> QED
      BY <1>5, <3>1, <3>2 DEF Mount, RcMounted
  <2> QED
    BY <2>1, <2>3, <2>4, <2>5
<1>6. ASSUME NEW i \in Calls, Connected(i) PROVE IInv'
  BY <1>6, ConnectedKeeps
<1>7. ASSUME NEW i \in Calls, Refused(i) PROVE IInv'
  <2>1. RegistryConsistent'
    BY <1>7 DEF Refused, registry, RegistryConsistent
  <2>2. StartTypeOK'
    BY <1>7 DEF Refused, registry, StartTypeOK, Calls
  <2>3. main \notin {"inspecting", "mounting", "serving"}
    BY <1>7 DEF Refused, Phases
  <2>4. \A j \in Calls : call'[j] = "done" => call[j] = "done"
    BY <1>7 DEF Refused, StartTypeOK
  <2>5. TypesDeclared'
    BY <1>7, <2>4 DEF Refused, registry, TypesDeclared, Declared, Calls, Url, SpecName
  <2>6. Phases' /\ RcMounted'
    BY <1>7, <2>3 DEF Refused, Phases, RcMounted, MainInfo, IsMigrated, SpecName, Url
  <2> QED
    BY <2>1, <2>2, <2>5, <2>6
<1>8. CASE UNCHANGED startVars
  <2>1. RegistryConsistent' /\ TypesDeclared'
    BY <1>8, RegistryKept DEF startVars
  <2> QED
    BY <1>8, <2>1 DEF startVars, registry, StartTypeOK, Calls, Phases, RcMounted, MainInfo,
       IsMigrated, SpecName, Url
<1> QED
  BY <1>1, <1>2, <1>3, <1>4, <1>5, <1>6, <1>7, <1>8 DEF StartNext

\* The inductive invariant: the registry, the types that done calls have
\* stored, and what each phase of main() has settled.
THEOREM StartInvariant == Start => []IInv
BY InitEstablishes, StepKeeps, PTL DEF Start

\* The registry and the start keep their types.
THEOREM TypeCorrect == Start => []StartTypeOK
<1>1. IInv => StartTypeOK
  BY DEF IInv
<1> QED
  BY <1>1, StartInvariant, PTL

\* The maps agree in whatever order connections are answered: getApiByType
\* always finds an instance and a url leads to an instance of its chain.
THEOREM RegistryIsConsistent == Start => []RegistryConsistent
<1>1. IInv => RegistryConsistent
  BY DEF IInv
<1> QED
  BY <1>1, StartInvariant, PTL

\* What is served follows from the configuration.
THEOREM OrderDoesNotMatter == Start => []OrderIsIrrelevant
<1>1. IInv => OrderIsIrrelevant
  <2> SUFFICES ASSUME IInv, main = "serving"
               PROVE  OrderIsIrrelevant
    BY DEF OrderIsIrrelevant
  <2>1. MainInfo /\ \A i \in Calls : call[i] = "done"
    BY DEF IInv, Phases
  <2>2. ASSUME NEW s \in Specs
        PROVE  IF Declared(s) = {} THEN typeOf[s] = Untyped ELSE typeOf[s] \in Declared(s)
    <3>1. CASE Declared(s) = {}
      BY <3>1 DEF IInv, TypesDeclared
    <3>2. CASE Declared(s) # {}
      <4>1. PICK i \in Calls : SpecName(i) = s /\ config.apis[i].type # Untyped
        BY <3>2 DEF Declared
      <4>2. typeOf[s] # Untyped
        BY <2>1, <4>1 DEF IInv, TypesDeclared
      <4> QED
        BY <3>2, <4>2 DEF IInv, TypesDeclared
    <3> QED
      BY <3>1, <3>2
  <2> QED
    BY <2>1, <2>2 DEF IInv, MainInfo, RcMounted, OrderIsIrrelevant
<1> QED
  BY <1>1, StartInvariant, PTL

-----------------------------------------------------------------------------
(* Induction, and sums. *)

\* A set of numbers that has 0, and with each number the next, has all.
LEMMA SetInduction ==
  ASSUME NEW S, 0 \in S, \A n \in Nat : n \in S => n + 1 \in S
  PROVE  Nat \subseteq S
<1> DEFINE T == Nat \ S
           R == OpToRel(<, Nat)
<1>1. SUFFICES ASSUME T # {} PROVE FALSE
  OBVIOUS
<1>2. PICK x \in T : \A y \in T : ~(<<y, x>> \in R)
  <2>1. IsWellFoundedOn(R, Nat)
    BY NatLessThanWellFounded
  <2>2. T \subseteq Nat
    OBVIOUS
  <2> HIDE DEF R
  <2> QED BY <2>1, <2>2, <1>1, WFMin
<1>3. x \in Nat /\ x \notin S /\ x # 0
  BY <1>2
<1>4. x - 1 \in Nat /\ x - 1 \notin S
  <2>1. x - 1 \in Nat
    BY <1>3
  <2> QED BY <1>3, <2>1
<1>5. <<x - 1, x>> \in R
  BY <1>3, <1>4 DEF OpToRel
<1> QED BY <1>2, <1>4, <1>5

Inductive(S) == 0 \in S /\ \A n \in Nat : n \in S => n + 1 \in S

LEMMA InductiveHasAll ==
  ASSUME NEW S, Inductive(S)
  PROVE  Nat \subseteq S
BY SetInduction DEF Inductive

\* A set of numbers up to n that is not empty has a largest.
LEMMA LargestExists ==
  ASSUME NEW n \in Nat, NEW K \in SUBSET (1..n), K # {}
  PROVE  \E k \in K : \A i \in K : i <= k
<1> DEFINE S == {m \in Nat : \A L \in SUBSET (1..m) : L # {} => \E k \in L : \A i \in L : i <= k}
<1>1. 0 \in S
  <2>1. \A L \in SUBSET (1..0) : L = {}
    OBVIOUS
  <2> QED BY <2>1
<1>2. ASSUME NEW m \in Nat, m \in S PROVE m + 1 \in S
  <2> SUFFICES ASSUME NEW L \in SUBSET (1..m + 1), L # {}
               PROVE  \E k \in L : \A i \in L : i <= k
    OBVIOUS
  <2>1. CASE m + 1 \in L
    BY <2>1
  <2>2. CASE m + 1 \notin L
    <3>1. L \in SUBSET (1..m)
      BY <2>2
    <3> QED BY <3>1, <1>2
  <2> QED BY <2>1, <2>2
<1>3. Nat \subseteq S
  <2> HIDE DEF S
  <2> QED BY <1>1, <1>2, SetInduction
<1>4. n \in S
  <2> HIDE DEF S
  <2> QED BY <1>3
<1> QED BY <1>4

\* Max picks it.
LEMMA MaxIsLargest ==
  ASSUME NEW n \in Nat, NEW K \in SUBSET (1..n), K # {}
  PROVE  /\ Max(K) \in K /\ \A i \in K : i <= Max(K)
         /\ \A k \in K : (\A i \in K : i <= k) => Max(K) = k
<1>1. \A i \in K : i \in Nat
  OBVIOUS
<1>2. \E k \in K : \A i \in K : k >= i
  <2>1. PICK k \in K : \A i \in K : i <= k
    BY LargestExists
  <2> QED BY <1>1, <2>1
<1>3. Max(K) \in K /\ \A i \in K : Max(K) >= i
  BY <1>2 DEF Max
<1>4. ASSUME NEW k \in K, \A i \in K : i <= k PROVE Max(K) = k
  <2>1. Max(K) <= k /\ Max(K) >= k /\ k \in Nat /\ Max(K) \in Nat
    BY <1>1, <1>3, <1>4
  <2> QED BY <2>1
<1>5. \A i \in K : i <= Max(K)
  BY <1>1, <1>3
<1> QED BY <1>3, <1>4, <1>5

-----------------------------------------------------------------------------
(* Folds.  A fold over n steps takes the places from the last to the first;    *)
(* each step[k] makes one value of another.                                    *)

Iterates(iter, base, step, n) ==
  \A S \in SUBSET (1..n) :
    iter[S] = IF S = {} THEN base ELSE step[Max(S)][iter[S \ {Max(S)}]]

HasIteration(T, base, step, n) ==
  \E iter \in [SUBSET (1..n) -> T] : Iterates(iter, base, step, n)

\* There is such a function.
LEMMA IterationExists ==
  ASSUME NEW T, NEW base \in T, NEW n \in Nat, NEW step \in [1..n -> [T -> T]]
  PROVE  HasIteration(T, base, step, n)
<1> DEFINE Have == {m \in Nat : m <= n => HasIteration(T, base, step, m)}
<1>1. 0 \in Have
  <2>1. [S \in SUBSET (1..0) |-> base] \in [SUBSET (1..0) -> T]
    OBVIOUS
  <2>2. \A S \in SUBSET (1..0) : S = {}
    OBVIOUS
  <2>3. Iterates([S \in SUBSET (1..0) |-> base], base, step, 0)
    BY <2>2 DEF Iterates
  <2>4. HasIteration(T, base, step, 0)
    BY <2>1, <2>3 DEF HasIteration
  <2> QED BY <2>4
<1>2. ASSUME NEW m \in Nat, m \in Have PROVE m + 1 \in Have
  <2> SUFFICES ASSUME m + 1 <= n
               PROVE  HasIteration(T, base, step, m + 1)
    OBVIOUS
  <2>0. HasIteration(T, base, step, m)
    BY <1>2
  <2>1. PICK f \in [SUBSET (1..m) -> T] : Iterates(f, base, step, m)
    BY <2>0 DEF HasIteration
  <2> DEFINE g == [S \in SUBSET (1..m + 1) |->
                     IF m + 1 \in S THEN step[m + 1][f[S \ {m + 1}]] ELSE f[S]]
  <2>2. \A S \in SUBSET (1..m + 1) : S \ {m + 1} \in SUBSET (1..m)
    OBVIOUS
  <2>3. step[m + 1] \in [T -> T]
    OBVIOUS
  <2>4. \A S \in SUBSET (1..m + 1) : m + 1 \notin S => S \in SUBSET (1..m)
    OBVIOUS
  <2>5. g \in [SUBSET (1..m + 1) -> T]
    BY <2>1, <2>2, <2>3, <2>4
  <2>6. ASSUME NEW S \in SUBSET (1..m + 1)
        PROVE  g[S] = IF S = {} THEN base ELSE step[Max(S)][g[S \ {Max(S)}]]
    <3>1. CASE m + 1 \in S
      <4>1. Max(S) = m + 1
        <5>1. m + 1 \in Nat /\ S # {} /\ \A i \in S : i <= m + 1
          BY <3>1
        <5> QED BY <3>1, <5>1, MaxIsLargest
      <4>2. g[S \ {m + 1}] = f[S \ {m + 1}]
        BY <2>2
      <4> QED BY <3>1, <4>1, <4>2
    <3>2. CASE m + 1 \notin S
      <4>1. S \in SUBSET (1..m)
        BY <2>4, <3>2
      <4>2. f[S] = IF S = {} THEN base ELSE step[Max(S)][f[S \ {Max(S)}]]
        BY <2>1, <4>1 DEF Iterates
      <4>3. g[S \ {Max(S)}] = f[S \ {Max(S)}]
        BY <3>2, <4>1
      <4> QED BY <3>2, <4>2, <4>3
    <3> QED BY <3>1, <3>2
  <2>7. Iterates(g, base, step, m + 1)
    <3> HIDE DEF g
    <3> QED BY <2>6 DEF Iterates
  <2> HIDE DEF g
  <2> QED BY <2>5, <2>7 DEF HasIteration
<1>3. Nat \subseteq Have
  <2> HIDE DEF Have
  <2> QED BY <1>1, <1>2, SetInduction
<1>4. n \in Have
  <2> HIDE DEF Have
  <2> QED BY <1>3
<1> QED BY <1>4

\* It takes one place more with each number.
LEMMA IterationInOrder ==
  ASSUME NEW n \in Nat, NEW m \in 1..n
  PROVE  /\ 1..m \in SUBSET (1..n) /\ 1..m # {}
         /\ Max(1..m) = m /\ (1..m) \ {Max(1..m)} = 1..(m - 1)
<1>1. 1..m \in SUBSET (1..n) /\ 1..m # {} /\ m \in 1..m /\ \A i \in 1..m : i <= m
  OBVIOUS
<1>2. Max(1..m) = m
  BY <1>1, MaxIsLargest
<1>3. (1..m) \ {m} = 1..(m - 1)
  OBVIOUS
<1> QED BY <1>1, <1>2, <1>3

\* p[m] is the sum of the first m numbers of s.
AddsUp(p, s) ==
  /\ p \in [0..Len(s) -> Int] /\ p[0] = 0
  /\ \A m \in 1..Len(s) : p[m] = p[m - 1] + s[m]

AddsUpTo(total, s) == \E p : AddsUp(p, s) /\ total = p[Len(s)]

LEMMA SumAddsUp ==
  ASSUME NEW s \in Seq(Int)
  PROVE  AddsUpTo(Sum(s), s)
<1> DEFINE n == Len(s)
           step == [k \in 1..n |-> [total \in Int |-> total + s[k]]]
           Adds(iter) == iter = [S \in SUBSET DOMAIN s |->
                                   IF S = {} THEN 0 ELSE iter[S \ {Max(S)}] + s[Max(S)]]
<1>1. n \in Nat /\ DOMAIN s = 1..n /\ \A k \in 1..n : s[k] \in Int
  OBVIOUS
<1>2. step \in [1..n -> [Int -> Int]]
  BY <1>1
<1>3. PICK f \in [SUBSET (1..n) -> Int] : Iterates(f, 0, step, n)
  <2>1. HasIteration(Int, 0, step, n)
    <3>1. \A base \in Int : \A k \in Nat : \A st \in [1..k -> [Int -> Int]] :
            HasIteration(Int, base, st, k)
      BY IterationExists
    <3>2. 0 \in Int
      OBVIOUS
    <3> HIDE DEF step, n
    <3> QED BY <1>1, <1>2, <3>1, <3>2
  <2> HIDE DEF step, n
  <2> QED BY <2>1 DEF HasIteration
<1>4. Adds(f)
  <2>1. ASSUME NEW S \in SUBSET (1..n)
        PROVE  f[S] = IF S = {} THEN 0 ELSE f[S \ {Max(S)}] + s[Max(S)]
    <3>1. f[S] = IF S = {} THEN 0 ELSE step[Max(S)][f[S \ {Max(S)}]]
      BY <1>3 DEF Iterates
    <3>2. S # {} => Max(S) \in 1..n
      <4> HIDE DEF n
      <4> QED BY <1>1, MaxIsLargest
    <3>3. f[S \ {Max(S)}] \in Int
      BY <1>3
    <3>4. S # {} => step[Max(S)][f[S \ {Max(S)}]] = f[S \ {Max(S)}] + s[Max(S)]
      <4> HIDE DEF n
      <4> QED BY <3>2, <3>3
    <3> QED BY <3>1, <3>4
  <2> HIDE DEF n
  <2> QED BY <1>1, <1>3, <2>1
<1>5. Sum(s) = (CHOOSE iter : Adds(iter))[DOMAIN s]
  BY DEF Sum, FoldLeft, MapThenFoldSet
<1>6. PICK iter : Adds(iter) /\ Sum(s) = iter[DOMAIN s]
  <2> HIDE DEF Adds
  <2> QED BY <1>4, <1>5
<1> DEFINE p == [m \in 0..n |-> iter[1..m]]
<1>7. iter[1..0] = 0
  <2>1. 1..0 = {} /\ {} \in SUBSET DOMAIN s
    OBVIOUS
  <2> QED BY <1>6, <2>1
<1>8. \A m \in 1..n : iter[1..m] = iter[1..(m - 1)] + s[m]
  <2> TAKE m \in 1..n
  <2>1. /\ 1..m \in SUBSET (1..n) /\ 1..m # {}
        /\ Max(1..m) = m /\ (1..m) \ {Max(1..m)} = 1..(m - 1)
    BY <1>1, IterationInOrder
  <2>2. iter[1..m] = iter[(1..m) \ {Max(1..m)}] + s[Max(1..m)]
    BY <1>1, <1>6, <2>1
  <2> QED BY <2>1, <2>2
<1>9. \A m \in 0..n : iter[1..m] \in Int
  <2> DEFINE Good == {m \in Nat : m <= n => iter[1..m] \in Int}
  <2>1. 0 \in Good
    BY <1>7
  <2>2. ASSUME NEW m \in Nat, m \in Good PROVE m + 1 \in Good
    <3> SUFFICES ASSUME m + 1 <= n PROVE iter[1..(m + 1)] \in Int
      OBVIOUS
    <3>1. m + 1 \in 1..n /\ (m + 1) - 1 = m /\ iter[1..m] \in Int
      BY <1>1, <2>2
    <3>2. iter[1..(m + 1)] = iter[1..m] + s[m + 1]
      BY <1>8, <3>1
    <3> QED BY <1>1, <3>1, <3>2
  <2>3. Nat \subseteq Good
    <3> HIDE DEF Good
    <3> QED BY <2>1, <2>2, SetInduction
  <2> QED BY <1>1, <2>3
<1>10. AddsUp(p, s) /\ Sum(s) = p[n]
  <2>1. p \in [0..n -> Int] /\ p[0] = 0 /\ p[n] = iter[1..n]
    <3> HIDE DEF n
    <3> QED BY <1>1, <1>7, <1>9
  <2>2. \A m \in 1..n : p[m] = p[m - 1] + s[m]
    <3> TAKE m \in 1..n
    <3>1. m \in 0..n /\ m - 1 \in 0..n
      BY <1>1
    <3> QED BY <1>8, <3>1
  <2> HIDE DEF p
  <2> QED BY <1>1, <1>6, <2>1, <2>2 DEF AddsUp
<1> QED BY <1>10 DEF AddsUpTo

LEMMA SumIsNumber ==
  ASSUME NEW s \in Seq(Int)
  PROVE  Sum(s) \in Int
<1>1. PICK p : AddsUp(p, s) /\ Sum(s) = p[Len(s)]
  BY SumAddsUp DEF AddsUpTo
<1>2. Len(s) \in 0..Len(s)
  OBVIOUS
<1> QED BY <1>1, <1>2 DEF AddsUp

\* Sums compare as the numbers do.
LEMMA SumsOrdered ==
  ASSUME NEW s \in Seq(Int), NEW t \in Seq(Int), Len(s) = Len(t),
         \A k \in 1..Len(s) : s[k] <= t[k]
  PROVE  Sum(s) \in Int /\ Sum(t) \in Int /\ Sum(s) <= Sum(t)
<1>1. PICK p : AddsUp(p, s) /\ Sum(s) = p[Len(s)]
  BY SumAddsUp DEF AddsUpTo
<1>2. PICK q : AddsUp(q, t) /\ Sum(t) = q[Len(t)]
  BY SumAddsUp DEF AddsUpTo
<1> DEFINE n == Len(s)
           Good == {m \in Nat : m <= n => p[m] <= q[m]}
<1>3. n \in Nat /\ \A k \in 1..n : s[k] \in Int /\ t[k] \in Int
  OBVIOUS
<1>4. /\ \A m \in 0..n : p[m] \in Int /\ q[m] \in Int
      /\ \A m \in 1..n : p[m] = p[m - 1] + s[m] /\ q[m] = q[m - 1] + t[m]
      /\ p[0] = 0 /\ q[0] = 0
  BY <1>1, <1>2 DEF AddsUp
<1>5. 0 \in Good
  BY <1>4
<1>6. ASSUME NEW m \in Nat, m \in Good PROVE m + 1 \in Good
  <2> SUFFICES ASSUME m + 1 <= n PROVE p[m + 1] <= q[m + 1]
    OBVIOUS
  <2>1. m + 1 \in 1..n /\ (m + 1) - 1 = m /\ m \in 0..n /\ m + 1 \in 0..n
    BY <1>3
  <2>2. p[m + 1] = p[m] + s[m + 1] /\ q[m + 1] = q[m] + t[m + 1]
    BY <1>4, <2>1
  <2>3. p[m] <= q[m]
    BY <1>6, <2>1
  <2> QED BY SMTT(30), <1>3, <1>4, <2>1, <2>2, <2>3
<1>7. Nat \subseteq Good
  <2> HIDE DEF Good
  <2>1. Inductive(Good)
    BY <1>5, <1>6 DEF Inductive
  <2> QED BY <2>1, InductiveHasAll
<1> QED BY <1>1, <1>2, <1>3, <1>4, <1>7

\* The sum of differences is the difference of the sums.
LEMMA SumOfDifferences ==
  ASSUME NEW s \in Seq(Int), NEW t \in Seq(Int), NEW u \in Seq(Int),
         Len(s) = Len(u), Len(t) = Len(u), \A k \in 1..Len(u) : u[k] = s[k] - t[k]
  PROVE  Sum(u) = Sum(s) - Sum(t)
<1>1. PICK p : AddsUp(p, s) /\ Sum(s) = p[Len(s)]
  <2>1. AddsUpTo(Sum(s), s)
    BY SumAddsUp
  <2> QED BY <2>1 DEF AddsUpTo
<1>2. PICK q : AddsUp(q, t) /\ Sum(t) = q[Len(t)]
  <2>1. AddsUpTo(Sum(t), t)
    BY SumAddsUp
  <2> QED BY <2>1 DEF AddsUpTo
<1>3. PICK d : AddsUp(d, u) /\ Sum(u) = d[Len(u)]
  <2>1. AddsUpTo(Sum(u), u)
    BY SumAddsUp
  <2> QED BY <2>1 DEF AddsUpTo
<1> DEFINE n == Len(u)
           Good == {m \in Nat : m <= n => d[m] = p[m] - q[m]}
<1>4. n \in Nat /\ \A k \in 1..n : s[k] \in Int /\ t[k] \in Int
  OBVIOUS
<1>4a. \A k \in 1..n : u[k] = s[k] - t[k]
  OBVIOUS
<1>5. /\ \A m \in 0..n : p[m] \in Int /\ q[m] \in Int /\ d[m] \in Int
      /\ \A m \in 1..n : /\ p[m] = p[m - 1] + s[m] /\ q[m] = q[m - 1] + t[m]
                         /\ d[m] = d[m - 1] + u[m]
      /\ p[0] = 0 /\ q[0] = 0 /\ d[0] = 0
  BY <1>1, <1>2, <1>3 DEF AddsUp
<1>6. 0 \in Good
  BY <1>5
<1>7. ASSUME NEW m \in Nat, m \in Good PROVE m + 1 \in Good
  <2> SUFFICES ASSUME m + 1 <= n PROVE d[m + 1] = p[m + 1] - q[m + 1]
    OBVIOUS
  <2>1. m + 1 \in 1..n /\ (m + 1) - 1 = m /\ m \in 0..n /\ m + 1 \in 0..n
    BY <1>4
  <2>2. /\ p[m + 1] = p[m] + s[m + 1] /\ q[m + 1] = q[m] + t[m + 1]
        /\ d[m + 1] = d[m] + u[m + 1] /\ u[m + 1] = s[m + 1] - t[m + 1]
    <3>1. /\ p[m + 1] = p[(m + 1) - 1] + s[m + 1] /\ q[m + 1] = q[(m + 1) - 1] + t[m + 1]
          /\ d[m + 1] = d[(m + 1) - 1] + u[m + 1]
      <4> HIDE DEF n
      <4> QED BY <1>5, <2>1
    <3>2. u[m + 1] = s[m + 1] - t[m + 1]
      <4> HIDE DEF n
      <4> QED BY <1>4a, <2>1
    <3> QED BY <2>1, <3>1, <3>2
  <2>3. d[m] = p[m] - q[m]
    BY <1>7, <2>1
  <2>4. /\ p[m] \in Int /\ q[m] \in Int /\ s[m + 1] \in Int /\ t[m + 1] \in Int
    BY <1>4, <1>5, <2>1
  <2> HIDE DEF n, Good
  <2> QED BY SMTT(30), <2>2, <2>3, <2>4
<1>8. Nat \subseteq Good
  <2> HIDE DEF Good
  <2> QED BY <1>6, <1>7, SetInduction
<1> QED BY <1>1, <1>2, <1>3, <1>4, <1>5, <1>8

-----------------------------------------------------------------------------
(* Requests *)

\* What can be thrown: with a status or not, of a transaction or not, for an address.
ThrownErrors ==
  {Http(status) : status \in Nat} \cup {OtherError, TxError, MissingTx}
    \cup {ErrorForAddr(ethereum) : ethereum \in BOOLEAN}

BlockIds == [kind : {"number", "hash", "hex", "malformed", "none", "list"}, number : Nat]

\* The head may move, or the node be lost, between two reads.
Nodes == [best : Nat \cup {Null}, later : Nat \cup {Null}, takes : BOOLEAN, lost : BOOLEAN]

\* The metadata versions of a runtime, which start from 1; Null if it tells none.
Offers == SUBSET (Nat \ {0}) \cup {Null}

Bodies == [tx : BOOLEAN, parses : BOOLEAN, sender : BOOLEAN, xcmVersion : Nat \cup {Null},
           at : BlockIds]

Runtimes == [dryRun : BOOLEAN, xcmParam : BOOLEAN, tellsSafe : BOOLEAN,
             safeXcmVersion : Nat \cup {Null}]

BlobBodies == [tx : BOOLEAN, callData : BOOLEAN, inExtrinsic : BOOLEAN,
               inSignedData : BOOLEAN, at : BlockIds]

RequestInputs ==
  [kind : {"error"}, err : ThrownErrors, headersSent : BOOLEAN]
    \cup [kind : {"blockid"}, id : BlockIds, node : Nodes]
    \cup [kind : {"rcquery"},
          query : [useRcBlock : STRING \cup {Null}, useRcBlockFormat : STRING \cup {Null}],
          server : [isAssetHub : BOOLEAN, relays : SUBSET STRING]]
    \cup [kind : {"tx"}, node : Nodes, body : Bodies, runtime : Runtimes]
    \cup [kind : {"version"}, path : [number : Nat \cup {Null}, inForm : BOOLEAN],
          hasAt : BOOLEAN, block : Offers, head : Offers]
    \cup [kind : {"blob"}, block : Offers, node : Nodes, body : BlobBodies]

FirstTaker(err, n) ==
  /\ n \in 1..5 /\ Takes(PostMiddleware[n], err)
  /\ \A k \in 1..5 : k < n => ~Takes(PostMiddleware[k], err)

\* The first ware that takes an error answers it.
LEMMA AnswerOfFirst ==
  ASSUME NEW err, NEW n, FirstTaker(err, n)
  PROVE  AnswerTo(err, FALSE) = StatusBy(PostMiddleware[n], err)
<1> DEFINE I == {k \in 1..5 : Takes(PostMiddleware[k], err)}
<1>1. n \in I /\ \A k \in I : n <= k
  BY DEF FirstTaker
<1>2. Min(I) = n
  <2>1. \A m \in I : (\A k \in I : m <= k) => m = n
    BY <1>1
  <2> QED BY <1>1, <2>1 DEF Min
<1>3. Len(PostMiddleware) = 5
  BY DEF PostMiddleware
<1>4. SelectInSeq(PostMiddleware, LAMBDA ware : Takes(ware, err)) = n
  BY <1>1, <1>2, <1>3 DEF SelectInSeq
<1> QED BY <1>4 DEF AnswerTo

LEMMA Wares ==
  /\ PostMiddleware[1] = "txError" /\ PostMiddleware[2] = "httpError"
  /\ PostMiddleware[3] = "error" /\ PostMiddleware[4] = "legacyError"
  /\ PostMiddleware[5] = "internalError"
BY DEF PostMiddleware

\* Which errors each of them takes, and the status it answers.
LEMMA WareTakes ==
  ASSUME NEW err
  PROVE  /\ Takes("txError", err) <=> {"error", "cause"} \subseteq err.fields
         /\ Takes("httpError", err) <=> err.class = "http"
         /\ Takes("error", err) <=> err.class \in {"http", "error"}
         /\ Takes("legacyError", err) <=> "error" \in err.fields
         /\ StatusBy("txError", err) = err.status
         /\ StatusBy("httpError", err) = err.status
         /\ StatusBy("error", err) = 500
         /\ "statusCode" \notin err.fields => StatusBy("legacyError", err) = 500
<1>1. Takes("txError", err) <=> {"error", "cause"} \subseteq err.fields
  BY DEF Takes
<1>2. Takes("httpError", err) <=> err.class = "http"
  BY DEF Takes
<1>3. Takes("error", err) <=> err.class \in {"http", "error"}
  BY DEF Takes
<1>4. Takes("legacyError", err) <=> "error" \in err.fields
  BY DEF Takes
<1>5. StatusBy("txError", err) = err.status /\ StatusBy("httpError", err) = err.status
  BY DEF StatusBy
<1>6. StatusBy("error", err) = 500
  BY DEF StatusBy
<1>7. "statusCode" \notin err.fields => StatusBy("legacyError", err) = 500
  BY DEF StatusBy
<1> QED BY <1>1, <1>2, <1>3, <1>4, <1>5, <1>6, <1>7

IsTxError(err) == {"error", "cause"} \subseteq err.fields

\* What errors have in the code: a class that is handled, or else a field "error".
IsThrown(err) == /\ "statusCode" \notin err.fields
                 /\ err.class \in {"http", "error"} \/ "error" \in err.fields

DueStatus(err) == IF err.class = "http" \/ IsTxError(err) THEN err.status ELSE 500

\* An error with a cause is answered with its own status, and so is an HttpError;
\* any other, of those that have no statusCode, with 500.
LEMMA AnswerByKind ==
  ASSUME NEW err, IsThrown(err)
  PROVE  AnswerTo(err, FALSE) = DueStatus(err)
<1>1. ASSUME IsTxError(err)
      PROVE  \E n : FirstTaker(err, n) /\ StatusBy(PostMiddleware[n], err) = DueStatus(err)
  <2>1. FirstTaker(err, 1)
    BY <1>1, Wares, WareTakes DEF IsTxError, FirstTaker
  <2>2. StatusBy(PostMiddleware[1], err) = DueStatus(err)
    BY <1>1, Wares, WareTakes DEF DueStatus
  <2> QED BY <2>1, <2>2
<1>2. ASSUME ~IsTxError(err), err.class = "http"
      PROVE  \E n : FirstTaker(err, n) /\ StatusBy(PostMiddleware[n], err) = DueStatus(err)
  <2>1. FirstTaker(err, 2)
    BY <1>2, Wares, WareTakes DEF IsTxError, FirstTaker, IsThrown
  <2>2. StatusBy(PostMiddleware[2], err) = DueStatus(err)
    BY <1>2, Wares, WareTakes DEF DueStatus, IsThrown
  <2> QED BY <2>1, <2>2
<1>3. ASSUME ~IsTxError(err), err.class = "error"
      PROVE  \E n : FirstTaker(err, n) /\ StatusBy(PostMiddleware[n], err) = DueStatus(err)
  <2>1. FirstTaker(err, 3)
    BY <1>3, Wares, WareTakes DEF IsTxError, FirstTaker, IsThrown
  <2>2. StatusBy(PostMiddleware[3], err) = DueStatus(err)
    BY <1>3, Wares, WareTakes DEF DueStatus, IsThrown
  <2> QED BY <2>1, <2>2
<1>4. ASSUME ~IsTxError(err), err.class \notin {"http", "error"}
      PROVE  \E n : FirstTaker(err, n) /\ StatusBy(PostMiddleware[n], err) = DueStatus(err)
  <2>1. FirstTaker(err, 4)
    BY <1>4, Wares, WareTakes DEF IsTxError, FirstTaker, IsThrown
  <2>2. StatusBy(PostMiddleware[4], err) = DueStatus(err)
    BY <1>4, Wares, WareTakes DEF DueStatus, IsThrown
  <2> QED BY <2>1, <2>2
<1>5. PICK n : FirstTaker(err, n) /\ StatusBy(PostMiddleware[n], err) = DueStatus(err)
  BY <1>1, <1>2, <1>3, <1>4
<1> QED BY <1>5, AnswerOfFirst, Zenon

\* What the code throws.
LEMMA ThrownAre ==
  ASSUME NEW err \in ThrownErrors
  PROVE  IsThrown(err) /\ DueStatus(err) \in Nat
<1>1. CASE \E status \in Nat : err = Http(status)
  BY <1>1 DEF Http, IsThrown, DueStatus, IsTxError
<1>2. CASE err = OtherError
  BY <1>2 DEF OtherError, IsThrown, DueStatus, IsTxError
<1>3. CASE err = TxError
  BY <1>3 DEF TxError, IsThrown, DueStatus, IsTxError
<1>4. CASE err = MissingTx
  BY <1>4 DEF MissingTx, IsThrown, DueStatus, IsTxError
<1>5. CASE \E ethereum \in BOOLEAN : err = ErrorForAddr(ethereum)
  BY <1>5 DEF ErrorForAddr, Http, IsThrown, DueStatus, IsTxError
<1> QED BY <1>1, <1>2, <1>3, <1>4, <1>5 DEF ThrownErrors

\* Errors.
LEMMA EveryErrorAnswered ==
  ASSUME NEW err \in ThrownErrors, NEW headersSent \in BOOLEAN
  PROVE  ErrorsAnswered(err, headersSent)
<1>1. CASE headersSent
  BY <1>1 DEF ErrorsAnswered, AnswerTo
<1>2. CASE ~headersSent
  <2>1. IsThrown(err) /\ DueStatus(err) \in Nat
    BY ThrownAre, Zenon
  <2>2. AnswerTo(err, FALSE) = DueStatus(err)
    BY <2>1, AnswerByKind, Zenon
  <2>3. AnswerTo(err, headersSent) = DueStatus(err) /\ ~headersSent
    BY <1>2, <2>2
  <2>4. DueStatus(err) # Null
    BY <2>1, NullAssumption
  <2> QED BY <2>3, <2>4 DEF ErrorsAnswered, DueStatus, IsTxError
<1> QED BY <1>1, <1>2

\* The status of what the handlers throw, and of an answer.
LEMMA StatusOfOutcome ==
  /\ \A status : StatusOf(Thrown(Http(status))) = status
  /\ StatusOf(Thrown(OtherError)) = 500
  /\ StatusOf(Thrown(TxError)) = 400
  /\ StatusOf(Thrown(MissingTx)) = 500
  /\ \A body : StatusOf(Answered(body)) = 200
<1>1. \A err : StatusOf(Thrown(err)) = AnswerTo(err, FALSE)
  BY DEF StatusOf, Thrown
<1>2. \A status : AnswerTo(Http(status), FALSE) = status
  <2> TAKE status
  <2>1. IsThrown(Http(status)) /\ DueStatus(Http(status)) = status
    BY DEF Http, IsThrown, DueStatus, IsTxError
  <2> QED BY <2>1, AnswerByKind, Zenon
<1>3. AnswerTo(OtherError, FALSE) = 500
  <2>1. IsThrown(OtherError) /\ DueStatus(OtherError) = 500
    BY DEF OtherError, IsThrown, DueStatus, IsTxError
  <2> QED BY <2>1, AnswerByKind, Zenon
<1>4. AnswerTo(TxError, FALSE) = 400
  <2>1. IsThrown(TxError) /\ DueStatus(TxError) = 400
    BY DEF TxError, IsThrown, DueStatus, IsTxError
  <2> QED BY <2>1, AnswerByKind, Zenon
<1>5. AnswerTo(MissingTx, FALSE) = 500
  <2>1. IsThrown(MissingTx) /\ DueStatus(MissingTx) = 500
    BY DEF MissingTx, IsThrown, DueStatus, IsTxError
  <2> QED BY <2>1, AnswerByKind, Zenon
<1>6. \A body : StatusOf(Answered(body)) = 200
  BY DEF StatusOf, Answered
<1>7. \A status : StatusOf(Thrown(Http(status))) = status
  BY <1>1, <1>2
<1>8. StatusOf(Thrown(OtherError)) = 500
  BY <1>1, <1>3
<1>9. StatusOf(Thrown(TxError)) = 400
  BY <1>1, <1>4
<1>10. StatusOf(Thrown(MissingTx)) = 500
  BY <1>1, <1>5
<1> QED BY <1>6, <1>7, <1>8, <1>9, <1>10

LEMMA OutcomesTold ==
  /\ \A err : Thrown(err).ok = FALSE
  /\ \A body : Answered(body).ok = TRUE /\ Answered(body).body = body
BY DEF Thrown, Answered

\* How an identifier is resolved, case by case.
LEMMA ResolvedBy ==
  ASSUME NEW id \in BlockIds, NEW node \in Nodes
  PROVE  \/ /\ id.kind = "number" => node.best # Null /\ id.number <= node.best
            /\ HashForBlock(id, node) = Answered(id)
         \/ /\ id.kind \notin {"number", "hash"}
               \/ /\ id.kind # "hash" /\ node.later # Null /\ node.later < id.number
                  /\ ~(node.best # Null /\ id.number <= node.best)
            /\ HashForBlock(id, node) = Thrown(Http(400))
         \/ /\ id.kind # "hash"
            /\ ~(node.best # Null /\ id.number <= node.best)
            /\ ~(node.later # Null /\ id.number # 0 /\ node.later < id.number)
            /\ HashForBlock(id, node) = Thrown(Http(500))
<1>1. CASE id.kind = "hash"
  <2>1. HashForBlock(id, node) = Answered(id)
    BY <1>1 DEF HashForBlock
  <2> QED BY <1>1, <2>1
<1>2. CASE id.kind \in {"hex", "malformed"}
  <2>1. CASE id.kind = "hex"
    BY <2>1 DEF HashForBlock
  <2>2. CASE id.kind = "malformed"
    BY <2>2 DEF HashForBlock
  <2> QED BY <1>2, <2>1, <2>2
<1>3. CASE id.kind \notin {"hash", "hex", "malformed"} /\ node.best # Null /\ id.number <= node.best
  <2>1. HashForBlock(id, node) = Answered(id)
    BY <1>3 DEF HashForBlock
  <2> QED BY <1>3, <2>1
<1>4. CASE /\ id.kind \notin {"hash", "hex", "malformed"}
           /\ ~(node.best # Null /\ id.number <= node.best)
  <2>1. HashForBlock(id, node)
          = Thrown(Http(IF node.later # Null /\ id.number # 0 /\ node.later < id.number
                        THEN 400 ELSE 500))
    BY <1>4 DEF HashForBlock
  <2>2. CASE node.later # Null /\ id.number # 0 /\ node.later < id.number
    BY <1>4, <2>1, <2>2
  <2>3. CASE ~(node.later # Null /\ id.number # 0 /\ node.later < id.number)
    BY <1>4, <2>1, <2>3
  <2> QED BY <2>2, <2>3
<1> QED BY <1>1, <1>2, <1>3, <1>4

\* Block identifiers.
LEMMA EveryBlockIdResolved ==
  ASSUME NEW id \in BlockIds, NEW node \in Nodes
  PROVE  BlockIdResolved(id, node)
<1> SUFFICES ASSUME id.kind = "number"
             PROVE  LET status == StatusOf(HashForBlock(id, node))
                    IN  /\ status = 400 => node.later < id.number
                        /\ status = 500 => Null \in {node.best, node.later}
                                             \/ id.number \in node.best + 1..node.later
                        /\ status = 200 <=> node.best # Null /\ id.number <= node.best
  BY DEF BlockIdResolved
<1>1. /\ id.number \in Nat /\ node.best \in Nat \cup {Null} /\ node.later \in Nat \cup {Null}
  BY DEF BlockIds, Nodes
<1>2. /\ StatusOf(Answered(id)) = 200 /\ StatusOf(Thrown(Http(400))) = 400
      /\ StatusOf(Thrown(Http(500))) = 500
  BY StatusOfOutcome
<1>3. \/ /\ node.best # Null /\ id.number <= node.best
         /\ StatusOf(HashForBlock(id, node)) = 200
      \/ /\ node.later # Null /\ node.later < id.number
         /\ ~(node.best # Null /\ id.number <= node.best)
         /\ StatusOf(HashForBlock(id, node)) = 400
      \/ /\ ~(node.best # Null /\ id.number <= node.best)
         /\ ~(node.later # Null /\ id.number # 0 /\ node.later < id.number)
         /\ StatusOf(HashForBlock(id, node)) = 500
  BY <1>2, ResolvedBy
<1> QED BY <1>1, <1>3, NullAssumption

\* Query parameters.
LEMMA EveryRcQueryGuarded ==
  ASSUME NEW query, NEW server
  PROVE  RcBlockGuarded(query, server)
<1>1. UseRcBlockAccepted(query, server)
        => StatusOf(RcRequest(query, server)) = 200
  <2> SUFFICES ASSUME UseRcBlockAccepted(query, server)
               PROVE  StatusOf(RelayAsked(query, server)) = 200
    BY DEF RcRequest
  <2>1. CASE query.useRcBlock # "true"
    <3>1. RelayAsked(query, server) = Answered(Null)
      BY <2>1 DEF RelayAsked
    <3> QED BY <3>1, StatusOfOutcome
  <2>2. CASE query.useRcBlock = "true"
    <3>1. RelayAsked(query, server) = Answered("relay")
      BY <2>2 DEF RelayAsked, UseRcBlockAccepted
    <3> QED BY <3>1, StatusOfOutcome
  <2> QED BY <2>1, <2>2
<1>2. ~UseRcBlockAccepted(query, server)
        => StatusOf(RcRequest(query, server)) = 400
  BY StatusOfOutcome DEF RcRequest
<1>3. UseRcBlockAccepted(query, server) /\ query.useRcBlockFormat # Null
        => query.useRcBlock = "true"
  BY DEF UseRcBlockAccepted
<1> QED BY <1>1, <1>2, <1>3 DEF RcBlockGuarded

\* What becomes of a block parameter: it is answered, or refused, or a call has
\* failed, or the block has been imported since.
LEMMA ParameterResolved ==
  ASSUME NEW at \in BlockIds, NEW node \in Nodes
  PROVE  \/ HashFromAt(at, node) = Answered(at)
         \/ HashFromAt(at, node) = Thrown(Http(400))
         \/ /\ HashFromAt(at, node) = Thrown(OtherError) \/ HashFromAt(at, node) = Thrown(Http(500))
            /\ Null \in {node.best, node.later} \/ at.number \in node.best + 1..node.later
<1>1. CASE at.kind \in {"none", "list"}
  BY <1>1 DEF HashFromAt
<1>2. CASE at.kind \notin {"none", "list"}
  <2>1. HashFromAt(at, node) = HashForBlock(at, node)
    BY <1>2 DEF HashFromAt
  <2>2. /\ at.number \in Nat /\ node.best \in Nat \cup {Null} /\ node.later \in Nat \cup {Null}
    BY DEF BlockIds, Nodes
  <2>3. /\ ~(node.best # Null /\ at.number <= node.best)
        /\ ~(node.later # Null /\ at.number # 0 /\ node.later < at.number)
        => Null \in {node.best, node.later} \/ at.number \in node.best + 1..node.later
    BY <2>2, NullAssumption
  <2> QED BY <2>1, <2>3, ResolvedBy
<1> QED BY <1>1, <1>2

\* Transactions.
LEMMA EveryTxSubmittedOnce ==
  ASSUME NEW body \in Bodies, NEW node \in Nodes
  PROVE  SubmittedOnce(body, node)
<1>1. CASE ~body.tx
  <2>1. Submit(body, node) = Thrown(MissingTx) /\ FeeEstimate(body, node) = Thrown(MissingTx)
        /\ Submissions(body) = 0
    BY <1>1 DEF Submit, FeeEstimate, Submissions
  <2> QED BY <1>1, <2>1, OutcomesTold DEF SubmittedOnce
<1>2. CASE body.tx /\ (~body.parses \/ ~node.takes \/ node.lost)
  <2>1. Submit(body, node) = Thrown(TxError)
        /\ ~(Submissions(body) = 1 /\ node.takes /\ ~node.lost)
    BY <1>2 DEF Submit, Submissions
  <2> QED BY <1>2, <2>1, OutcomesTold, StatusOfOutcome DEF SubmittedOnce
<1>3. CASE body.tx /\ body.parses /\ node.takes /\ ~node.lost
  <2>1. Submit(body, node) = Answered("hash") /\ Submissions(body) = 1
    BY <1>3 DEF Submit, Submissions
  <2> QED BY <1>3, <2>1, OutcomesTold, StatusOfOutcome DEF SubmittedOnce
<1> QED BY <1>1, <1>2, <1>3

LEMMA EveryDryRunVersioned ==
  ASSUME NEW body \in Bodies, NEW runtime \in Runtimes, NEW node \in Nodes
  PROVE  DryRunVersion(body, runtime, node)
<1> DEFINE version == XcmVersion(body, runtime)
           answer == [at |-> HashFromAt(body.at, node).body,
                      version |-> IF runtime.xcmParam THEN version ELSE Null]
<1> SUFFICES ASSUME DryRun(body, runtime, node).ok, runtime.xcmParam
             PROVE  /\ body.xcmVersion \notin {Null, 0}
                         => DryRun(body, runtime, node).body.version = body.xcmVersion
                    /\ body.xcmVersion \in {Null, 0} /\ runtime.tellsSafe
                         => /\ DryRun(body, runtime, node).body.version = runtime.safeXcmVersion
                            /\ DryRun(body, runtime, node).body.version # Null
  BY DEF DryRunVersion
<1>1. DryRun(body, runtime, node) = Answered(answer) /\ ~(runtime.tellsSafe /\ version = Null)
  BY OutcomesTold DEF DryRun
<1>2. DryRun(body, runtime, node).body.version = version
  BY <1>1, OutcomesTold
<1> QED BY <1>1, <1>2 DEF XcmVersion

\* Metadata.
LEMMA EveryVersionOffered ==
  ASSUME NEW path, NEW hasAt \in BOOLEAN, NEW block \in Offers, NEW head \in Offers
  PROVE  VersionOffered(path, hasAt, block, head)
<1> DEFINE read == IF hasAt THEN block ELSE head
           ok(route) == VersionedMetadata(route, path, hasAt, block, head).ok
           offered(versions) == versions # Null /\ path.number \in versions
<1> SUFFICES ASSUME path.number # Null, path.inForm
             PROVE  /\ ok("material") <=> offered(read)
                    /\ ok("runtime") <=> offered(read) /\ offered(head)
  BY DEF VersionOffered
<1>1. ok("material") <=> offered(read)
  BY OutcomesTold DEF VersionedMetadata
<1>2. ok("runtime") <=> offered(read) /\ offered(head)
  <2>1. path.number = 0 => ~offered(read)
    BY DEF Offers
  <2> QED BY <2>1, OutcomesTold DEF VersionedMetadata
<1> QED BY <1>1, <1>2

LEMMA EveryBlobComplete ==
  ASSUME NEW body \in BlobBodies, NEW block \in Offers, NEW node \in Nodes
  PROVE  BlobComplete(body, block, node)
<1> DEFINE outcome == MetadataBlob(body, block, node)
           hash == HashFromAt(body.at, node)
           incomplete == body.callData /\ ~(body.inExtrinsic /\ body.inSignedData)
           failed == \/ Null \in {block, node.best, node.later}
                     \/ body.at.number \in node.best + 1..node.later
<1>1. body.at \in BlockIds
  BY DEF BlobBodies
<1>2. \/ hash = Answered(body.at)
      \/ hash = Thrown(Http(400))
      \/ (hash = Thrown(OtherError) \/ hash = Thrown(Http(500))) /\ failed
  <2>1. \A at \in BlockIds :
           \/ HashFromAt(at, node) = Answered(at)
           \/ HashFromAt(at, node) = Thrown(Http(400))
           \/ /\ HashFromAt(at, node) = Thrown(OtherError) \/ HashFromAt(at, node) = Thrown(Http(500))
              /\ Null \in {node.best, node.later} \/ at.number \in node.best + 1..node.later
    BY ParameterResolved
  <2> QED BY <1>1, <2>1
<1>3. ASSUME ~hash.ok
      PROVE  outcome = hash /\ ~outcome.ok /\ (StatusOf(outcome) = 500 => failed)
  <2>1. outcome = hash
    BY <1>3 DEF MetadataBlob
  <2>2. StatusOf(Thrown(Http(400))) = 400
    BY StatusOfOutcome
  <2>3. hash # Answered(body.at)
    BY <1>3, OutcomesTold
  <2>4. CASE hash = Thrown(Http(400))
    BY <1>3, <2>1, <2>2, <2>4
  <2>5. CASE failed
    BY <1>3, <2>1, <2>5
  <2> QED BY <1>2, <2>3, <2>4, <2>5
<1>4. ASSUME hash.ok, BlobSource(body) = Null \/ incomplete
      PROVE  outcome = Thrown(Http(400))
  BY <1>4 DEF MetadataBlob
<1>5. ASSUME hash.ok, ~(BlobSource(body) = Null \/ incomplete), block = Null
      PROVE  outcome = Thrown(Http(500)) /\ failed
  BY <1>5 DEF MetadataBlob
<1>6. ASSUME hash.ok, ~(BlobSource(body) = Null \/ incomplete), block # Null, 15 \notin block
      PROVE  outcome = Thrown(Http(400))
  BY <1>6 DEF MetadataBlob
<1>7. ASSUME hash.ok, ~(BlobSource(body) = Null \/ incomplete), block # Null, 15 \in block
      PROVE  outcome = Answered(BlobSource(body))
  BY <1>7 DEF MetadataBlob
<1>8. BlobSource(body) = "tx" => body.tx \/ BlobSource(body) = Null
  BY DEF BlobSource
<1>9. BlobSource(body) = "parts"
        => BlobSource(body) = Null \/ (body.callData /\ body.inExtrinsic /\ body.inSignedData)
  BY DEF BlobSource
<1>10. outcome.ok => /\ block # Null /\ 15 \in block
                     /\ outcome.body = "tx" => body.tx
                     /\ outcome.body = "parts"
                          => body.callData /\ body.inExtrinsic /\ body.inSignedData
  BY <1>3, <1>4, <1>5, <1>6, <1>7, <1>8, <1>9, OutcomesTold
<1>11. StatusOf(outcome) = 500 => failed
  <2>1. /\ StatusOf(Thrown(Http(400))) = 400
        /\ StatusOf(Answered(BlobSource(body))) = 200
    BY StatusOfOutcome
  <2> QED BY <1>3, <1>4, <1>5, <1>6, <1>7, <2>1
<1> QED BY <1>10, <1>11 DEF BlobComplete

\* Whatever the request, the node's answers and what the runtimes offer: errors,
\* block identifiers, query parameters, transactions and versions of the metadata
\* are answered for what they are.
THEOREM EveryRequestAnswered ==
  ASSUME input \in RequestInputs
  PROVE  RequestsAnswered
<1>1. Is("error") => ErrorsAnswered(input.err, input.headersSent)
  <2> SUFFICES ASSUME Is("error") PROVE ErrorsAnswered(input.err, input.headersSent)
    OBVIOUS
  <2>1. input.err \in ThrownErrors /\ input.headersSent \in BOOLEAN
    BY DEF RequestInputs, Is
  <2> QED BY <2>1, EveryErrorAnswered
<1>2. Is("blockid") => BlockIdResolved(input.id, input.node)
  <2> SUFFICES ASSUME Is("blockid") PROVE BlockIdResolved(input.id, input.node)
    OBVIOUS
  <2>1. input.id \in BlockIds /\ input.node \in Nodes
    BY DEF RequestInputs, Is
  <2> QED BY <2>1, EveryBlockIdResolved
<1>3. Is("rcquery") => RcBlockGuarded(input.query, input.server)
  BY EveryRcQueryGuarded
<1>4. Is("tx") => /\ SubmittedOnce(input.body, input.node)
                  /\ DryRunVersion(input.body, input.runtime, input.node)
  <2> SUFFICES ASSUME Is("tx")
               PROVE  /\ SubmittedOnce(input.body, input.node)
                      /\ DryRunVersion(input.body, input.runtime, input.node)
    OBVIOUS
  <2>1. input.body \in Bodies /\ input.runtime \in Runtimes /\ input.node \in Nodes
    BY DEF RequestInputs, Is, Bodies, Runtimes
  <2>2. SubmittedOnce(input.body, input.node)
    BY <2>1, EveryTxSubmittedOnce
  <2>3. DryRunVersion(input.body, input.runtime, input.node)
    BY <2>1, EveryDryRunVersioned
  <2> QED BY <2>2, <2>3
<1>5. Is("version") => VersionOffered(input.path, input.hasAt, input.block, input.head)
  <2> SUFFICES ASSUME Is("version")
               PROVE  VersionOffered(input.path, input.hasAt, input.block, input.head)
    OBVIOUS
  <2>1. input.hasAt \in BOOLEAN /\ input.block \in Offers /\ input.head \in Offers
    BY DEF RequestInputs, Is
  <2> QED BY <2>1, EveryVersionOffered
<1>6. Is("blob") => BlobComplete(input.body, input.block, input.node)
  <2> SUFFICES ASSUME Is("blob") PROVE BlobComplete(input.body, input.block, input.node)
    OBVIOUS
  <2>1. input.body \in BlobBodies /\ input.block \in Offers /\ input.node \in Nodes
    BY DEF RequestInputs, Is, BlobBodies
  <2> QED BY <2>1, EveryBlobComplete
<1> QED BY <1>1, <1>2, <1>3, <1>4, <1>5, <1>6 DEF RequestsAnswered

-----------------------------------------------------------------------------
(* Staking progress *)

\* epochs[i + 1] is the epoch of session i, which rises with i; the block is in a
\* session of these, and its era started in that or an earlier one.
ProgressInputs ==
  {i \in [kind : {"progress"}, epochs : Seq(Nat), session : Nat, inEpoch : 0..(EpochDuration - 1),
          eraStart : Nat, forceAlways : BOOLEAN] :
     /\ i.eraStart <= i.session /\ i.session < Len(i.epochs)
     /\ \A m, n \in DOMAIN i.epochs : m < n => i.epochs[m] < i.epochs[n]}

\* The quotient of what lies in one multiple of d.
LEMMA QuotientOf ==
  ASSUME NEW q \in Int, NEW d \in Nat \ {0}, NEW r \in 0..(d - 1)
  PROVE  (q * d + r) \div d = q
OBVIOUS

LEMMA MultipleLeavesNone ==
  ASSUME NEW q \in Int, NEW d \in Nat \ {0}
  PROVE  (q * d) % d = 0
OBVIOUS

\* Session n - 1 began with a skip, or was the first and not in the first epoch.
SkipAt(epochs, n) == epochs[n] # IF n = 1 THEN 0 ELSE epochs[n - 1] + 1

Rising(epochs) == \A m, n \in DOMAIN epochs : m < n => epochs[m] < epochs[n]

\* From one session to another without a skip, an epoch passes for each session.
LEMMA EpochsInStep ==
  ASSUME NEW epochs \in Seq(Nat), NEW c \in DOMAIN epochs, NEW n \in DOMAIN epochs, c <= n,
         \A i \in (c + 1)..n : ~SkipAt(epochs, i)
  PROVE  epochs[n] = epochs[c] + (n - c)
<1> DEFINE S == {j \in Nat : c + j <= n => epochs[c + j] = epochs[c] + j}
<1>1. 0 \in S
  OBVIOUS
<1>2. ASSUME NEW j \in Nat, j \in S PROVE j + 1 \in S
  <2> SUFFICES ASSUME c + (j + 1) <= n PROVE epochs[c + (j + 1)] = epochs[c] + (j + 1)
    OBVIOUS
  <2>1. epochs[c + j] = epochs[c] + j
    BY <1>2
  <2>2. c + (j + 1) \in (c + 1)..n /\ c + (j + 1) # 1 /\ (c + (j + 1)) - 1 = c + j
    <3>1. c \in Nat \ {0} /\ n \in Nat
      OBVIOUS
    <3> QED BY SMTT(30), <3>1
  <2>3. epochs[c + (j + 1)] = epochs[c + j] + 1
    BY <2>2 DEF SkipAt
  <2>4. epochs[c] \in Nat
    OBVIOUS
  <2> QED BY <2>1, <2>3, <2>4
<1>3. Nat \subseteq S
  <2> HIDE DEF S
  <2> QED BY <1>1, <1>2, SetInduction
<1>4. n - c \in S
  <2>1. n - c \in Nat
    OBVIOUS
  <2> HIDE DEF S
  <2> QED BY <1>3, <2>1
<1>5. c + (n - c) = n
  OBVIOUS
<1> QED BY <1>4, <1>5

\* The skips up to an epoch.
SkipsUpTo(epochs, epoch) == {p \in Skipped(epochs) : p[1] <= epoch}

SkippingSessions(epochs, n) == {i \in 1..n : SkipAt(epochs, i)}

\* They are those of the sessions up to the one that is in it.
LEMMA SkipsOfSessions ==
  ASSUME NEW epochs \in Seq(Nat), NEW n \in DOMAIN epochs, Rising(epochs)
  PROVE  /\ \A p \in SkipsUpTo(epochs, epochs[n]) :
              \E i \in SkippingSessions(epochs, n) : p = <<epochs[i], i - 1>>
         /\ \A i \in SkippingSessions(epochs, n) :
              <<epochs[i], i - 1>> \in SkipsUpTo(epochs, epochs[n])
<1>1. \A i \in DOMAIN epochs : i \in Nat /\ epochs[i] \in Nat
  OBVIOUS
<1>2. \A i \in DOMAIN epochs : epochs[i] <= epochs[n] <=> i \in 1..n
  BY <1>1 DEF Rising
<1>3. ASSUME NEW p \in SkipsUpTo(epochs, epochs[n])
      PROVE  \E i \in SkippingSessions(epochs, n) : p = <<epochs[i], i - 1>>
  <2>1. PICK i \in DOMAIN epochs : SkipAt(epochs, i) /\ p = <<epochs[i], i - 1>>
    BY <1>3, Zenon DEF SkipsUpTo, Skipped, SkipAt
  <2>2. epochs[i] <= epochs[n]
    <3>1. p[1] <= epochs[n]
      BY <1>3 DEF SkipsUpTo
    <3> QED BY <2>1, <3>1
  <2> QED BY <1>2, <2>1, <2>2 DEF SkippingSessions
<1>4. ASSUME NEW i \in SkippingSessions(epochs, n)
      PROVE  <<epochs[i], i - 1>> \in SkipsUpTo(epochs, epochs[n])
  <2>1. i \in DOMAIN epochs /\ SkipAt(epochs, i) /\ epochs[i] <= epochs[n]
    BY <1>2 DEF SkippingSessions
  <2>2. <<epochs[i], i - 1>> \in Skipped(epochs)
    BY <2>1, Zenon DEF Skipped, SkipAt
  <2>3. <<epochs[i], i - 1>>[1] = epochs[i]
    OBVIOUS
  <2> QED BY <2>1, <2>2, <2>3, Zenon DEF SkipsUpTo
<1> QED BY <1>3, <1>4

Closest(skips) == CHOOSE p \in skips : \A q \in skips : q[1] <= p[1]

\* The session that is derived from the epoch is the one the relay chain is in.
LEMMA SessionFound ==
  ASSUME NEW epochs \in Seq(Nat), NEW n \in DOMAIN epochs, Rising(epochs)
  PROVE  SessionIndex(epochs[n], Skipped(epochs)) = n - 1
<1> DEFINE before == SkipsUpTo(epochs, epochs[n])
           K == SkippingSessions(epochs, n)
<1>1. /\ n \in Nat \ {0} /\ epochs[n] \in Nat
      /\ \A i \in 1..n : i \in DOMAIN epochs /\ epochs[i] \in Nat
  OBVIOUS
<1>2. /\ \A p \in before : \E i \in K : p = <<epochs[i], i - 1>>
      /\ \A i \in K : <<epochs[i], i - 1>> \in before
  BY SkipsOfSessions
<1>3. SessionIndex(epochs[n], Skipped(epochs))
        = IF before = {} THEN epochs[n]
          ELSE epochs[n] - (Closest(before)[1] - Closest(before)[2])
  BY DEF SessionIndex, SkipsUpTo, Closest
<1>4. CASE K = {}
  <2>1. before = {}
    BY <1>2, <1>4
  <2>2. epochs[1] = 0
    BY <1>1, <1>4 DEF SkipAt, SkippingSessions
  <2>3. \A i \in (1 + 1)..n : ~SkipAt(epochs, i)
    BY <1>1, <1>4 DEF SkippingSessions
  <2>4. 1 \in DOMAIN epochs /\ 1 <= n
    BY <1>1
  <2>5. epochs[n] = epochs[1] + (n - 1)
    BY <2>3, <2>4, EpochsInStep
  <2> QED BY <1>1, <1>3, <2>1, <2>2, <2>5
<1>5. CASE K # {}
  <2>1. PICK c \in K : \A i \in K : i <= c
    <3>1. K \in SUBSET (1..n) /\ n \in Nat
      BY <1>1 DEF SkippingSessions
    <3>2. \A m \in Nat : \A L \in SUBSET (1..m) :
            L # {} => \E k \in L : \A i \in L : i <= k
      BY LargestExists
    <3> QED BY <1>5, <3>1, <3>2
  <2>2. c \in 1..n /\ c \in DOMAIN epochs /\ epochs[c] \in Nat
    BY <1>1, <2>1 DEF SkippingSessions
  <2>3. \A i \in K : i \in DOMAIN epochs /\ i <= c /\ epochs[i] \in Nat
    BY <1>1, <2>1 DEF SkippingSessions
  <2>4. \A i \in K : epochs[i] <= epochs[c] /\ (epochs[c] <= epochs[i] => i = c)
    BY <2>2, <2>3 DEF Rising
  <2>5. <<epochs[c], c - 1>> \in before
    BY <1>2, <2>1
  <2>6. \A q \in before : q[1] <= <<epochs[c], c - 1>>[1]
    <3> SUFFICES ASSUME NEW q \in before PROVE q[1] <= epochs[c]
      OBVIOUS
    <3>1. PICK i \in K : q = <<epochs[i], i - 1>>
      BY <1>2
    <3> QED BY <2>4, <3>1
  <2>7. ASSUME NEW p \in before, \A q \in before : q[1] <= p[1]
        PROVE  p = <<epochs[c], c - 1>>
    <3>1. PICK i \in K : p = <<epochs[i], i - 1>>
      BY <1>2
    <3>2. <<epochs[c], c - 1>>[1] <= p[1]
      BY <2>5, <2>7
    <3>3. epochs[c] <= epochs[i]
      BY <3>1, <3>2
    <3> QED BY <2>4, <3>1, <3>3
  <2>8. Closest(before) = <<epochs[c], c - 1>>
    <3> HIDE DEF before
    <3> QED BY <2>5, <2>6, <2>7 DEF Closest
  <2>9. SessionIndex(epochs[n], Skipped(epochs)) = epochs[n] - (epochs[c] - (c - 1))
    <3>1. before # {}
      BY <2>5
    <3> HIDE DEF before
    <3> QED BY <1>3, <2>8, <3>1
  <2>10. epochs[n] = epochs[c] + (n - c)
    <3>1. \A i \in (c + 1)..n : ~SkipAt(epochs, i)
      BY <2>1, <2>2 DEF SkippingSessions
    <3>2. c <= n
      BY <2>2
    <3> QED BY <2>2, <3>1, <3>2, EpochsInStep
  <2> QED BY <1>1, <2>2, <2>9, <2>10
<1> QED BY <1>4, <1>5

LEMMA EverySessionExact ==
  ASSUME NEW epochs \in Seq(Nat), NEW s \in Nat, s + 1 \in DOMAIN epochs, Rising(epochs),
         NEW inEpoch \in 0..(EpochDuration - 1), NEW eraStart \in Nat
  PROVE  SessionExact(epochs, s, inEpoch, eraStart)
<1> DEFINE slot == GenesisSlot + epochs[s + 1] * EpochDuration + inEpoch
<1>1. epochs[s + 1] \in Nat /\ EpochDuration \in Nat \ {0} /\ GenesisSlot \in Nat
  BY BabeAssumption
<1>2. (slot - GenesisSlot) \div EpochDuration = epochs[s + 1]
  <2>1. slot - GenesisSlot = epochs[s + 1] * EpochDuration + inEpoch
    BY <1>1
  <2>2. \A q \in Nat : (q * EpochDuration + inEpoch) \div EpochDuration = q
    BY <1>1, QuotientOf
  <2> QED BY <1>1, <2>1, <2>2
<1>3. SessionIndex(epochs[s + 1], Skipped(epochs)) = s
  <2>1. SessionIndex(epochs[s + 1], Skipped(epochs)) = (s + 1) - 1
    BY SessionFound
  <2> QED BY <2>1
<1> QED BY <1>2, <1>3 DEF SessionExact, ProgressOnAssetHub, ProgressOnChain

LEMMA EveryEstimateAhead ==
  ASSUME NEW now \in Nat, NEW s \in Nat, NEW eraStart \in Nat,
         NEW inEpoch \in 0..(EpochDuration - 1), NEW forceAlways \in BOOLEAN
  PROVE  EstimatesAhead(now, s, inEpoch, eraStart, forceAlways)
<1> DEFINE D == EpochDuration
           k == s - eraStart
           p == Progress(GenesisSlot + s * D + inEpoch, s, s, eraStart)
           session == NextSession(now, p)
           active == NextActiveEra(now, p, forceAlways)
           current == NextCurrentEra(now, p, forceAlways)
           left == SessionsPerEra - 1 - k
<1> SUFFICES ASSUME k \in 0..(SessionsPerEra - 1)
             PROVE  /\ now < session /\ session <= now + D
                    /\ session <= active /\ (active - session) % D = 0
                    /\ now < current /\ current <= now + EraLength
  BY DEF EstimatesAhead
<1>1. D \in Nat \ {0} /\ GenesisSlot \in Nat /\ SessionsPerEra \in Nat \ {0} /\ inEpoch \in 0..(D - 1)
  BY BabeAssumption
<1>2. left \in Nat /\ left * D \in Nat /\ s * D \in Nat /\ k * D \in Nat
  BY <1>1
<1>3. p.sessionProgress = inEpoch /\ p.eraProgress = k * D + inEpoch
  BY <1>1, <1>2 DEF Progress
<1>4. session = D - inEpoch + now /\ session \in Int
  BY <1>1, <1>3 DEF NextSession
<1>5. EraLength = k * D + left * D + D
  <2>1. SessionsPerEra = k + left + 1
    BY <1>1
  <2>2. \A a, b, d \in Int : (a + b + 1) * d = a * d + b * d + d
    OBVIOUS
  <2> QED BY <1>1, <1>2, <2>1, <2>2 DEF EraLength
<1>6. active = session \/ active = session + left * D
  BY <1>1, <1>2, <1>3, <1>4, <1>5 DEF NextActiveEra
<1>7. (active - session) % D = 0
  <2>1. (0 * D) % D = 0 /\ (left * D) % D = 0
    BY <1>1, <1>2, MultipleLeavesNone
  <2>2. 0 * D = 0
    BY <1>1
  <2> HIDE DEF active, session, left
  <2>3. active - session = 0 \/ active - session = left * D
    BY <1>2, <1>4, <1>6
  <2> QED BY <2>1, <2>2, <2>3
<1>8. active \in Int /\ session <= active /\ active <= now + EraLength
  <2> HIDE DEF active, session, left, k
  <2> QED BY <1>1, <1>2, <1>4, <1>5, <1>6
<1>9. EraLength \in Nat /\ D <= EraLength
  <2> HIDE DEF left, k
  <2> QED BY <1>1, <1>2, <1>5
<1>10. current = IF active - now - D > 0 THEN active - D ELSE active + EraLength - D
  BY DEF NextCurrentEra
<1> HIDE DEF active, session, current, D, left, k
<1> QED BY <1>1, <1>4, <1>7, <1>8, <1>9, <1>10

\* However many epochs the relay chain skipped, wherever the block is: the session
\* is the one it is in, and the estimates lie ahead in order.
THEOREM EveryProgressExact ==
  ASSUME input \in ProgressInputs
  PROVE  ProgressExact
<1>1. /\ input.epochs \in Seq(Nat) /\ input.session \in Nat /\ input.eraStart \in Nat
      /\ input.inEpoch \in 0..(EpochDuration - 1) /\ input.forceAlways \in BOOLEAN
      /\ input.session < Len(input.epochs) /\ Rising(input.epochs)
  BY DEF ProgressInputs, Rising
<1>2. input.session + 1 \in DOMAIN input.epochs
  BY <1>1
<1>3. SessionExact(input.epochs, input.session, input.inEpoch, input.eraStart)
  BY <1>1, <1>2, EverySessionExact
<1>4. EstimatesAhead(10, input.session, input.inEpoch, input.eraStart, input.forceAlways)
  BY <1>1, EveryEstimateAhead
<1> QED BY <1>3, <1>4 DEF ProgressExact

-----------------------------------------------------------------------------
(* Vesting *)

\* A block of an Asset Hub is included once, after its relay parent.
VestingInputs ==
  {i \in [kind : {"vesting"}, request : Request] :
     i.request.chain = "assetHub" =>
       \E n \in Nat : i.request.included = {n} /\ i.request.parent < n}

\* The rows of an answer.
Unlocked(now, schedules) == [k \in DOMAIN schedules |-> Vested(now, schedules[k])]
Locked(schedules) == [k \in DOMAIN schedules |-> schedules[k].locked]
StillHeld(now, schedules) == [k \in DOMAIN schedules |-> Held(now, schedules[k])]

\* A schedule unlocks no more than it locks, and never less later on; what it has
\* not unlocked it holds.
LEMMA VestedIs ==
  ASSUME NEW now \in Nat, NEW s \in Schedule
  PROVE  /\ Vested(now, s) \in 0..s.locked
         /\ \A later \in Nat : now <= later => Vested(now, s) <= Vested(later, s)
         /\ Held(now, s) = s.locked - Vested(now, s)
<1> DEFINE amount(n) == (n - s.startingBlock) * s.perBlock
<1>1. s.locked \in Nat /\ s.perBlock \in Nat /\ s.startingBlock \in Nat
  BY DEF Schedule
<1>2. \A n \in Nat : n > s.startingBlock => amount(n) \in Nat
  BY <1>1
<1>3. \A n \in Nat : Vested(n, s) = IF n <= s.startingBlock THEN 0
                                    ELSE IF amount(n) <= s.locked THEN amount(n) ELSE s.locked
  BY DEF Vested
<1>4. \A n \in Nat : Vested(n, s) \in 0..s.locked
  <2> HIDE DEF amount
  <2> QED BY <1>1, <1>2, <1>3
<1>5. ASSUME NEW later \in Nat, now <= later PROVE Vested(now, s) <= Vested(later, s)
  <2>1. now > s.startingBlock => amount(now) <= amount(later)
    <3> SUFFICES ASSUME now > s.startingBlock PROVE amount(now) <= amount(later)
      OBVIOUS
    <3>1. now - s.startingBlock \in Nat /\ later - s.startingBlock \in Nat
          /\ now - s.startingBlock <= later - s.startingBlock
      BY <1>1, <1>5
    <3>2. \A a, b, c \in Nat : a <= b => a * c <= b * c
      OBVIOUS
    <3> QED BY <1>1, <3>1, <3>2
  <2> HIDE DEF amount
  <2> QED BY <1>1, <1>2, <1>3, <1>4, <1>5, <2>1
<1>6. Held(now, s) = s.locked - Vested(now, s)
  <2>1. CASE now <= s.startingBlock
    BY <1>3, <2>1 DEF Held
  <2>2. CASE ~(now <= s.startingBlock)
    <3> DEFINE Fits(v) == \/ v = s.locked /\ s.locked <= amount(now)
                          \/ v < s.locked /\ v = amount(now)
    <3>1. Held(now, s) = s.locked - (CHOOSE v \in 0..s.locked : Fits(v))
      BY <2>2 DEF Held
    <3>2. amount(now) \in Nat
      BY <1>1, <1>2, <2>2
    <3>3. Vested(now, s) = IF amount(now) <= s.locked THEN amount(now) ELSE s.locked
      BY <1>3, <2>2
    <3> HIDE DEF amount
    <3>4. Fits(Vested(now, s)) /\ \A v \in 0..s.locked : Fits(v) => v = Vested(now, s)
      BY <1>1, <3>2, <3>3
    <3> HIDE DEF Fits
    <3>5. (CHOOSE v \in 0..s.locked : Fits(v)) = Vested(now, s)
      BY <1>4, <3>4
    <3> QED BY <3>1, <3>5
  <2> QED BY <2>1, <2>2
<1> QED BY <1>4, <1>5, <1>6

\* The sums of an answer.
LEMMA VestedSums ==
  ASSUME NEW schedules \in Seq(Schedule), NEW now \in Nat, NEW later \in Nat
  PROVE  /\ TotalVested(now, schedules) \in Int /\ VestingTotal(schedules) \in Nat
         /\ TotalVested(now, schedules) <= VestingTotal(schedules)
         /\ now <= later => TotalVested(now, schedules) <= TotalVested(later, schedules)
         /\ Sum(StillHeld(later, schedules))
              = VestingTotal(schedules) - TotalVested(later, schedules)
<1> DEFINE n == Len(schedules)
           zero == [k \in 1..n |-> 0]
           early == Unlocked(now, schedules)
           late == Unlocked(later, schedules)
           all == Locked(schedules)
           held == StillHeld(later, schedules)
<1>1. n \in Nat /\ DOMAIN schedules = 1..n /\ \A k \in 1..n : schedules[k] \in Schedule
  OBVIOUS
<1>2. \A k \in 1..n :
        /\ early[k] = Vested(now, schedules[k]) /\ late[k] = Vested(later, schedules[k])
        /\ all[k] = schedules[k].locked /\ held[k] = Held(later, schedules[k])
  BY <1>1 DEF Unlocked, Locked, StillHeld
<1>3. \A k \in 1..n : schedules[k].locked \in Nat
  BY <1>1 DEF Schedule
<1>4. \A k \in 1..n : /\ early[k] \in 0..all[k] /\ late[k] \in 0..all[k] /\ all[k] \in Nat
                      /\ now <= later => early[k] <= late[k]
                      /\ held[k] = all[k] - late[k]
  <2>1. \A m \in Nat : \A s \in Schedule :
          /\ Vested(m, s) \in 0..s.locked
          /\ \A l \in Nat : m <= l => Vested(m, s) <= Vested(l, s)
          /\ Held(m, s) = s.locked - Vested(m, s)
    BY VestedIs
  <2> HIDE DEF early, late, all, held, n
  <2> QED BY <1>1, <1>2, <1>3, <2>1
<1>5. /\ zero \in Seq(Int) /\ Len(zero) = n
      /\ early \in Seq(Int) /\ Len(early) = n /\ late \in Seq(Int) /\ Len(late) = n
      /\ all \in Seq(Int) /\ Len(all) = n /\ held \in Seq(Int) /\ Len(held) = n
  <2>1. \A f \in [1..n -> Int] : f \in Seq(Int) /\ Len(f) = n
    BY <1>1
  <2>2. zero \in [1..n -> Int] /\ early \in [1..n -> Int] /\ late \in [1..n -> Int]
        /\ all \in [1..n -> Int] /\ held \in [1..n -> Int]
    <3>1. /\ early = [k \in 1..n |-> early[k]] /\ late = [k \in 1..n |-> late[k]]
          /\ all = [k \in 1..n |-> all[k]] /\ held = [k \in 1..n |-> held[k]]
      BY <1>1 DEF Unlocked, Locked, StillHeld
    <3>2. \A k \in 1..n : early[k] \in Int /\ late[k] \in Int /\ all[k] \in Int /\ held[k] \in Int
      BY <1>4
    <3> HIDE DEF early, late, all, held
    <3> QED BY <3>1, <3>2
  <2> HIDE DEF zero, early, late, all, held
  <2> QED BY <2>1, <2>2
<1>6. /\ TotalVested(now, schedules) = Sum(early) /\ TotalVested(later, schedules) = Sum(late)
      /\ VestingTotal(schedules) = Sum(all)
  BY DEF TotalVested, VestingTotal, Unlocked, Locked
<1> HIDE DEF early, late, all, held
<1>7. Sum(zero) = 0
  <2>1. zero \in Seq(Int) /\ Len(zero) = Len(zero) /\ \A k \in 1..Len(zero) : zero[k] = zero[k] - zero[k]
    BY <1>1, <1>5
  <2>2. Sum(zero) \in Int
    <3> HIDE DEF zero
    <3> QED BY <1>5, SumIsNumber
  <2>3. Sum(zero) = Sum(zero) - Sum(zero)
    <3> HIDE DEF zero
    <3> QED BY <2>1, SumOfDifferences
  <2> QED BY <2>2, <2>3
<1>8. Sum(zero) <= Sum(all) /\ Sum(all) \in Int
  <2>1. \A k \in 1..n : zero[k] <= all[k]
    BY <1>4
  <2> HIDE DEF zero, n
  <2> QED BY <1>5, <2>1, SumsOrdered
<1>9. Sum(early) <= Sum(all) /\ Sum(early) \in Int
  BY <1>4, <1>5, SumsOrdered
<1>10. now <= later => Sum(early) <= Sum(late)
  BY <1>4, <1>5, SumsOrdered
<1>11. Sum(held) = Sum(all) - Sum(late)
  BY <1>4, <1>5, SumOfDifferences
<1> QED BY <1>6, <1>7, <1>8, <1>9, <1>10, <1>11 DEF held

-----------------------------------------------------------------------------
(* The search *)

\* A set of numbers that is not empty has a least.
LEMMA LeastExists ==
  ASSUME NEW S \in SUBSET Nat, S # {}
  PROVE  Least(S) \in S /\ \A m \in S : Least(S) <= m
<1> DEFINE Above == {m \in Nat : (\E i \in S : i <= m) => \E n \in S : \A i \in S : n <= i}
<1>1. 0 \in Above
  <2>1. ASSUME NEW i \in S, i <= 0 PROVE \A k \in S : i <= k
    BY <2>1
  <2> QED BY <2>1
<1>2. ASSUME NEW m \in Nat, m \in Above PROVE m + 1 \in Above
  <2> SUFFICES ASSUME NEW i \in S, i <= m + 1
               PROVE  \E n \in S : \A k \in S : n <= k
    OBVIOUS
  <2>1. CASE \E k \in S : k <= m
    BY <1>2, <2>1
  <2>2. CASE ~\E k \in S : k <= m
    <3>1. \A k \in S : i <= k
      BY <2>2
    <3> QED BY <3>1
  <2> QED BY <2>1, <2>2
<1>3. Nat \subseteq Above
  <2> HIDE DEF Above
  <2> QED BY <1>1, <1>2, SetInduction
<1>4. PICK i \in S : i \in Nat
  OBVIOUS
<1>5. \E n \in S : \A k \in S : n <= k
  BY <1>3, <1>4
<1> QED BY <1>5 DEF Least

LEMMA LeastOfOne ==
  ASSUME NEW n \in Nat
  PROVE  Least({n}) = n
<1>1. {n} \in SUBSET Nat /\ {n} # {}
  OBVIOUS
<1> QED BY <1>1, LeastExists

\* What a search finds is the inclusion; and it is found wherever it is among the
\* Depth blocks after the parent, unless it cannot be read.
LEMMA SearchFinds ==
  ASSUME NEW r \in Request, NEW n \in Nat, r.included = {n}, r.parent < n
  PROVE  /\ InclusionBlock(r) \in {n, Null}
         /\ n <= r.parent + Depth /\ n \notin r.unread => InclusionBlock(r) = n
<1> DEFINE hit == {offset \in Batches : Hits(r, offset) # {}}
<1>1. r.parent \in Nat /\ Depth \in Nat \ {0} /\ BatchSize \in Nat \ {0}
  BY SearchAssumption DEF Request
<1>2. \A offset \in Batches : Hits(r, offset) # {} => Hits(r, offset) = {n}
  BY DEF Hits
<1>3. Batches \in SUBSET Nat
  <2>1. (Depth - 1) \div BatchSize \in Int
    BY <1>1
  <2>2. \A k \in 0..((Depth - 1) \div BatchSize) : k * BatchSize \in Nat
    BY <1>1, <2>1
  <2> QED BY <2>2 DEF Batches
<1>4. InclusionBlock(r) = IF hit = {} THEN Null ELSE Least(Hits(r, Least(hit)))
  BY DEF InclusionBlock
<1>5. hit # {} => InclusionBlock(r) = n
  <2> SUFFICES ASSUME hit # {} PROVE InclusionBlock(r) = n
    OBVIOUS
  <2>1. Least(hit) \in hit
    BY <1>3, LeastExists
  <2>2. Hits(r, Least(hit)) = {n}
    BY <1>2, <2>1
  <2> QED BY <1>4, <2>2, LeastOfOne
<1>6. ASSUME n <= r.parent + Depth, n \notin r.unread
      PROVE  hit # {}
  <2> DEFINE before == n - r.parent - 1
             k == before \div BatchSize
             offset == k * BatchSize
  <2>1. before \in Nat /\ before <= Depth - 1
    BY <1>1, <1>6
  <2>2. k \in Int /\ offset <= before /\ before < offset + BatchSize
    <3> HIDE DEF before
    <3> QED BY <1>1, <2>1
  <2>3. k \in 0..((Depth - 1) \div BatchSize)
    <3>1. \A a, b \in Nat : a <= b => a \div BatchSize <= b \div BatchSize /\ a \div BatchSize >= 0
      BY <1>1
    <3>2. Depth - 1 \in Nat /\ (Depth - 1) \div BatchSize \in Int
      BY <1>1
    <3> HIDE DEF before
    <3> QED BY <2>1, <2>2, <3>1, <3>2
  <2>4. offset \in Batches
    BY <2>3 DEF Batches
  <2>5. offset \in Nat
    BY <1>3, <2>4
  <2> DEFINE i == n - r.parent - offset
  <2>6. i \in 1..(IF Depth - offset < BatchSize THEN Depth - offset ELSE BatchSize)
    <3> HIDE DEF offset
    <3> QED BY <1>1, <2>1, <2>2, <2>5
  <2>7. n = r.parent + offset + i
    <3> HIDE DEF offset
    <3> QED BY <1>1, <2>5
  <2>8. n \in Batch(r.parent, offset)
    <3> HIDE DEF offset, i
    <3> QED BY <2>6, <2>7 DEF Batch
  <2>9. Hits(r, offset) # {}
    BY <1>6, <2>8 DEF Hits
  <2> HIDE DEF offset
  <2> QED BY <2>4, <2>9
<1> QED BY <1>4, <1>5, <1>6

-----------------------------------------------------------------------------

\* A calculation at a block that is not after the true one overstates nothing.
LEMMA CalculationSound ==
  ASSUME NEW r \in Request, NEW at \in Nat, NEW true \in Nat, at <= true, NEW source
  PROVE  LET answer == Calculation(r, at, source)
         IN  /\ answer.vested <= answer.total
             /\ answer.claimable <= r.lock
             /\ answer.claimable > 0 => answer.claimable <= r.lock - Sum(StillHeld(true, r.schedules))
<1> DEFINE vested == TotalVested(at, r.schedules)
           total == VestingTotal(r.schedules)
           answer == Calculation(r, at, source)
<1>1. r.schedules \in Seq(Schedule) /\ r.lock \in Nat
  BY DEF Request
<1>2. /\ vested \in Int /\ total \in Nat /\ vested <= total
      /\ vested <= TotalVested(true, r.schedules) /\ TotalVested(true, r.schedules) \in Int
      /\ Sum(StillHeld(true, r.schedules)) = total - TotalVested(true, r.schedules)
  <2>1. \A s \in Seq(Schedule) : \A now, later \in Nat :
          /\ TotalVested(now, s) \in Int /\ VestingTotal(s) \in Nat
          /\ TotalVested(now, s) <= VestingTotal(s)
          /\ now <= later => TotalVested(now, s) <= TotalVested(later, s)
          /\ Sum(StillHeld(later, s)) = VestingTotal(s) - TotalVested(later, s)
    BY VestedSums
  <2> QED BY <1>1, <2>1
<1>3. /\ answer.vested = vested /\ answer.total = total
      /\ answer.claimable = VestedClaimable(r.lock, total, vested)
  BY DEF Calculation
<1>4. answer.claimable = IF r.lock - (total - vested) >= 0 THEN r.lock - (total - vested) ELSE 0
  BY <1>3 DEF VestedClaimable
<1> DEFINE trulyVested == TotalVested(true, r.schedules)
           held == Sum(StillHeld(true, r.schedules))
<1>5. /\ vested \in Int /\ total \in Nat /\ vested <= total
      /\ trulyVested \in Int /\ vested <= trulyVested /\ held = total - trulyVested
  BY <1>2
<1> HIDE DEF vested, total, answer, trulyVested, held
<1>6. answer.vested <= answer.total
  BY <1>5, <1>3
<1>7. answer.claimable <= r.lock
  BY <1>1, <1>4, <1>5
<1>8. answer.claimable > 0 => answer.claimable <= r.lock - held
  BY <1>1, <1>4, <1>5
<1> QED BY <1>6, <1>7, <1>8 DEF answer, held

LEMMA ZeroSound ==
  ASSUME NEW r \in Request
  PROVE  LET answer == ZeroClaimable(r)
         IN  answer.vested <= answer.total /\ answer.claimable <= r.lock /\ ~(answer.claimable > 0)
<1>1. r.schedules \in Seq(Schedule) /\ r.lock \in Nat
  BY DEF Request
<1>2. VestingTotal(r.schedules) \in Nat
  BY <1>1, VestedSums
<1>3. /\ ZeroClaimable(r).vested = 0 /\ ZeroClaimable(r).total = VestingTotal(r.schedules)
      /\ ZeroClaimable(r).claimable = 0
  BY DEF ZeroClaimable
<1> QED BY <1>1, <1>2, <1>3

LEMMA NothingCalculated ==
  ~IsCalculated(Null) /\ ~IsCalculated(Error)
BY DEF IsCalculated, Error

\* Whatever is read or not, the answer is none, an error, nothing, or calculated at
\* a block that is not after the true one.
LEMMA AnswersAre ==
  ASSUME NEW r \in Request,
         r.chain = "assetHub" => \E n \in Nat : r.included = {n} /\ r.parent < n
  PROVE  \/ VestingAmounts(r) \in {Null, Error, ZeroClaimable(r)}
         \/ /\ TrueBlock(r) \in Nat
            /\ \E at \in Nat : at <= TrueBlock(r)
                 /\ \E source : VestingAmounts(r) = Calculation(r, at, source)
<1>1. /\ r.number \in Nat /\ r.parent \in Nat /\ r.known \in Nat \cup {Null}
      /\ r.chain \in {"assetHub", "otherHub", "relay", "other"}
  BY DEF Request
<1>2. CASE r.chain = "assetHub"
  <2>1. PICK n \in Nat : r.included = {n} /\ r.parent < n
    BY <1>2
  <2>2. TrueBlock(r) = IF r.known # Null THEN r.known ELSE n
    BY <1>2, <2>1, LeastOfOne DEF TrueBlock
  <2>3. InclusionBlock(r) \in {n, Null}
    BY <2>1, SearchFinds
  <2>4. RelayBlock(r) \in Nat /\ TrueBlock(r) \in Nat /\ RelayBlock(r) <= TrueBlock(r)
    BY <1>1, <2>1, <2>2, <2>3 DEF RelayBlock
  <2>5. VestingAmounts(r) \in {Null, Error, ZeroClaimable(r), Calculation(r, RelayBlock(r), "relay")}
    <3>1. VestingAmounts(r) = ForAssetHub(r)
      BY <1>2 DEF VestingAmounts
    <3>2. CASE HubState(r.number) = "during-migration"
      BY <1>2, <3>1, <3>2 DEF ForAssetHub
    <3>3. CASE HubState(r.number) = "pre-migration"
      BY <1>2, <3>1, <3>3 DEF ForAssetHub
    <3>4. CASE HubState(r.number) = "post-migration"
      BY <1>2, <3>1, <3>4 DEF ForAssetHub
    <3> QED BY <3>2, <3>3, <3>4 DEF HubState
  <2> QED BY <2>4, <2>5
<1>3. CASE r.chain = "otherHub"
  BY <1>3 DEF VestingAmounts, ForAssetHub
<1>4. CASE r.chain \in {"relay", "other"}
  <2>1. VestingAmounts(r) \in {ZeroClaimable(r), Calculation(r, r.number, "self")}
    BY <1>4 DEF VestingAmounts, ForRelayChain
  <2>2. TrueBlock(r) = r.number
    BY <1>4 DEF TrueBlock
  <2> QED BY <1>1, <2>1, <2>2
<1> QED BY <1>1, <1>2, <1>3, <1>4

LEMMA NeverOverstates ==
  ASSUME NEW r \in Request,
         r.chain = "assetHub" => \E n \in Nat : r.included = {n} /\ r.parent < n
  PROVE  NeverOverstated(r)
<1> DEFINE answer == VestingAmounts(r)
           held == Sum([k \in DOMAIN r.schedules |-> Held(TrueBlock(r), r.schedules[k])])
<1> SUFFICES ASSUME IsCalculated(answer)
             PROVE  /\ answer.vested <= answer.total
                    /\ answer.claimable <= r.lock
                    /\ answer.claimable > 0 => answer.claimable <= r.lock - held
  BY DEF NeverOverstated
<1>1. held = Sum(StillHeld(TrueBlock(r), r.schedules))
  BY DEF StillHeld
<1>2. CASE answer \in {Null, Error}
  BY <1>2, NothingCalculated
<1>3. CASE answer = ZeroClaimable(r)
  BY <1>3, ZeroSound
<1>4. CASE /\ TrueBlock(r) \in Nat
           /\ \E at \in Nat : at <= TrueBlock(r)
                /\ \E source : answer = Calculation(r, at, source)
  <2>1. PICK at \in Nat : at <= TrueBlock(r) /\ \E source : answer = Calculation(r, at, source)
    BY <1>4
  <2>2. PICK source : answer = Calculation(r, at, source)
    BY <2>1
  <2> HIDE DEF answer, held
  <2> QED BY <1>1, <1>4, <2>1, <2>2, CalculationSound
<1> QED BY <1>2, <1>3, <1>4, AnswersAre

LEMMA ExactWhenAllRead ==
  ASSUME NEW r \in Request,
         r.chain = "assetHub" => \E n \in Nat : r.included = {n} /\ r.parent < n
  PROVE  ExactWhenRead(r)
<1> SUFFICES ASSUME r.chain = "assetHub", r.known = Null, r.connected,
                    HubState(r.number) = "post-migration",
                    Least(r.included) <= r.parent + Depth, Least(r.included) \notin r.unread
             PROVE  VestingAmounts(r).at = Least(r.included)
  BY DEF ExactWhenRead
<1>1. PICK n \in Nat : r.included = {n} /\ r.parent < n
  OBVIOUS
<1>2. Least(r.included) = n
  BY <1>1, LeastOfOne
<1>3. InclusionBlock(r) = n /\ n # Null
  BY <1>1, <1>2, SearchFinds, NullAssumption
<1>4. RelayBlock(r) = n
  BY <1>3 DEF RelayBlock
<1>5. VestingAmounts(r) = Calculation(r, n, "relay")
  BY <1>4 DEF VestingAmounts, ForAssetHub
<1> QED BY <1>2, <1>5 DEF Calculation

\* Whatever reads fail and whatever the schedules: a vesting answer never promises
\* more than the chain unlocks, and it is that of the inclusion where that is read.
THEOREM EveryVestingSound ==
  ASSUME input \in VestingInputs
  PROVE  VestingSound
<1>1. /\ input.request \in Request
      /\ input.request.chain = "assetHub"
           => \E n \in Nat : input.request.included = {n} /\ input.request.parent < n
  BY DEF VestingInputs
<1>2. NeverOverstated(input.request)
  BY <1>1, NeverOverstates
<1>3. ExactWhenRead(input.request)
  BY <1>1, ExactWhenAllRead
<1> QED BY <1>2, <1>3 DEF VestingSound

-----------------------------------------------------------------------------
(* Amounts *)

\* Amounts; the limits of a block are not 0.
EraPoints == [points : Nat, payout : Nat]
ValidatorPoints == [points : Nat, percent : Nat, total : Nat]
PendingExtrinsics == [class : {"normal", "operational", "mandatory"}, tip : Nat, weight : Nat,
                      length : Nat, inclusionFee : Nat \cup {Null}]
Limits == [weight : Nat \ {0}, length : Nat \ {0}, multiplier : Nat]

AmountInputs ==
  [kind : {"payout"}, era : EraPoints, validator : ValidatorPoints, exposures : Seq(Nat)]
    \cup [kind : {"pending"}, first : PendingExtrinsics, second : PendingExtrinsics,
          limits : Limits]

-----------------------------------------------------------------------------

LEMMA Division ==
  ASSUME NEW a \in Nat, NEW d \in Nat \ {0}
  PROVE  a \div d \in Nat /\ (a \div d) * d <= a /\ a < (a \div d) * d + d
OBVIOUS

\* A fraction is rounded down to parts, and is all of them from one on.
LEMMA FractionBounds ==
  ASSUME NEW p \in Nat, NEW q \in Nat
  PROVE  /\ FromRational(p, q) \in 0..Accuracy
         /\ q > 0 /\ p <= q => /\ FromRational(p, q) * q <= p * Accuracy
                               /\ p * Accuracy < FromRational(p, q) * q + q
         /\ q > 0 /\ q <= p => FromRational(p, q) = Accuracy
<1> DEFINE whole == Greater(q, 1)
           least == Lesser(p, whole)
           part == FromRational(p, q)
<1>1. Accuracy \in Nat \ {0}
  BY AccuracyAssumption
<1>2. whole \in Nat \ {0} /\ (q > 0 => whole = q)
  BY DEF Greater
<1>3. least \in Nat /\ least <= whole /\ (p <= whole => least = p)
      /\ (whole <= p => least = whole)
  BY <1>2 DEF Lesser
<1>4. part = (least * Accuracy) \div whole
  BY DEF FromRational
<1> HIDE DEF whole, least, part
<1>5. least * Accuracy \in Nat /\ least * Accuracy <= whole * Accuracy
  BY <1>1, <1>2, <1>3
<1>6. part \in Nat /\ part * whole <= least * Accuracy
      /\ least * Accuracy < part * whole + whole
  BY <1>2, <1>4, <1>5, Division
<1>7. (Accuracy * whole) \div whole = Accuracy
  BY <1>1, <1>2
<1>8. part <= Accuracy
  <2>1. part <= (whole * Accuracy) \div whole
    BY <1>1, <1>2, <1>4, <1>5
  <2>2. whole * Accuracy = Accuracy * whole
    BY <1>1, <1>2
  <2> QED BY <2>1, <2>2, <1>7
<1>9. ASSUME q > 0, q <= p PROVE part = Accuracy
  <2>1. least = whole
    BY <1>2, <1>3, <1>9
  <2>2. whole * Accuracy = Accuracy * whole
    BY <1>1, <1>2
  <2> QED BY <2>1, <2>2, <1>4, <1>7
<1>10. ASSUME q > 0, p <= q PROVE part * q <= p * Accuracy /\ p * Accuracy < part * q + q
  <2>1. whole = q /\ least = p
    BY <1>2, <1>3, <1>10
  <2> QED BY <2>1, <1>6
<1>11. part \in 0..Accuracy
  BY <1>1, <1>6, <1>8
<1> QED BY <1>9, <1>10, <1>11 DEF part

LEMMA FractionGrows ==
  ASSUME NEW p \in Nat, NEW r \in Nat, NEW q \in Nat, p <= r
  PROVE  FromRational(p, q) <= FromRational(r, q)
<1> DEFINE whole == Greater(q, 1)
           least == Lesser(p, whole)
           more == Lesser(r, whole)
<1>1. Accuracy \in Nat \ {0}
  BY AccuracyAssumption
<1>2. whole \in Nat \ {0}
  BY DEF Greater
<1>3. least \in Nat /\ more \in Nat /\ least <= more
  BY <1>2 DEF Lesser
<1>4. FromRational(p, q) = (least * Accuracy) \div whole
      /\ FromRational(r, q) = (more * Accuracy) \div whole
  BY DEF FromRational
<1> HIDE DEF whole, least, more
<1>5. least * Accuracy \in Nat /\ more * Accuracy \in Nat /\ least * Accuracy <= more * Accuracy
  BY <1>1, <1>3
<1> QED BY <1>2, <1>4, <1>5

\* A part of an amount, to the nearest.
LEMMA PartBounds ==
  ASSUME NEW part \in 0..Accuracy, NEW amount \in Nat
  PROVE  /\ PartOf(part, amount) \in 0..amount
         /\ 2 * (PartOf(part, amount) * Accuracy) <= 2 * (part * amount) + Accuracy
         /\ part * amount <= PartOf(part, amount) * Accuracy + Accuracy
         /\ PartOf(Accuracy, amount) = amount
         /\ PartOf(part, 0) = 0
<1> DEFINE half == (Accuracy - 1) \div 2
           of == part * amount
           told == PartOf(part, amount)
<1>1. Accuracy \in Nat \ {0} /\ part \in Nat /\ part <= Accuracy
  BY AccuracyAssumption
<1>2. half \in Nat /\ 2 * half < Accuracy
  BY <1>1
<1>3. of \in Nat /\ of <= Accuracy * amount
  BY <1>1
<1>4. told = (of + half) \div Accuracy
  BY DEF PartOf
<1>5. PartOf(Accuracy, amount) = (Accuracy * amount + half) \div Accuracy
      /\ PartOf(part, 0) = (part * 0 + half) \div Accuracy
  BY DEF PartOf
<1>6. part * 0 = 0
  BY <1>1
<1> HIDE DEF half, of, told
<1>7. told \in Nat /\ told * Accuracy <= of + half /\ of + half < told * Accuracy + Accuracy
  BY <1>1, <1>2, <1>3, <1>4, Division
<1>8. (Accuracy * amount + half) \div Accuracy = amount
  <2>1. half < Accuracy
    BY <1>1, <1>2
  <2>2. Accuracy * amount = amount * Accuracy /\ amount * Accuracy \in Nat
    BY <1>1
  <2>3. (amount * Accuracy + half) \div Accuracy = amount
    BY <1>1, <1>2, <2>1
  <2> QED BY <2>2, <2>3
<1>9. (0 + half) \div Accuracy = 0
  BY <1>1, <1>2
<1>10. told <= amount
  <2>1. Accuracy * amount \in Nat
    BY <1>1
  <2>2. told <= (Accuracy * amount + half) \div Accuracy
    BY <1>1, <1>2, <1>3, <1>4, <2>1
  <2> QED BY <2>2, <1>8
<1>11. told * Accuracy \in Nat
  BY <1>1, <1>7
<1> DEFINE toldParts == told * Accuracy
<1>12. 2 * toldParts <= 2 * of + Accuracy /\ of <= toldParts + Accuracy
  <2>1. toldParts \in Nat /\ toldParts <= of + half /\ of + half < toldParts + Accuracy
    BY <1>7, <1>11
  <2> HIDE DEF toldParts
  <2> QED BY <1>1, <1>2, <1>3, <2>1
<1>13. told \in 0..amount
  BY <1>7, <1>10
<1> QED BY <1>5, <1>6, <1>8, <1>9, <1>12, <1>13 DEF told, of, toldParts

LEMMA PartGrows ==
  ASSUME NEW part \in Nat, NEW more \in Nat, part <= more, NEW amount \in Nat
  PROVE  PartOf(part, amount) <= PartOf(more, amount)
<1> DEFINE half == (Accuracy - 1) \div 2
<1>1. Accuracy \in Nat \ {0} /\ half \in Nat
  BY AccuracyAssumption
<1>2. part * amount \in Nat /\ more * amount \in Nat /\ part * amount <= more * amount
  OBVIOUS
<1>3. PartOf(part, amount) = (part * amount + half) \div Accuracy
      /\ PartOf(more, amount) = (more * amount + half) \div Accuracy
  BY DEF PartOf
<1> DEFINE a == part * amount
           b == more * amount
<1> HIDE DEF half, a, b
<1>4. (a + half) \div Accuracy <= (b + half) \div Accuracy
  BY <1>1, <1>2 DEF a, b
<1> QED BY <1>3, <1>4 DEF a, b

-----------------------------------------------------------------------------
(* Priorities *)

\* As many extrinsics of a size as fit a block, and one at least.
LEMMA SomeFit ==
  ASSUME NEW x \in PendingExtrinsics, NEW limits \in Limits
  PROVE  MaxTxPerBlock(x, limits) \in Nat \ {0}
<1> DEFINE bounded(size, limit) == Lesser(Greater(size, 1), limit)
<1>1. ASSUME NEW size \in Nat, NEW limit \in Nat \ {0}
      PROVE  limit \div bounded(size, limit) \in Nat \ {0}
  <2>1. bounded(size, limit) \in Nat \ {0} /\ bounded(size, limit) <= limit
    BY DEF Lesser, Greater
  <2> HIDE DEF bounded
  <2>2. bounded(size, limit) \div bounded(size, limit) = 1
    BY <2>1
  <2>3. bounded(size, limit) \div bounded(size, limit) <= limit \div bounded(size, limit)
    BY <2>1
  <2>4. limit \div bounded(size, limit) \in Nat
    BY <2>1
  <2> QED BY <2>2, <2>3, <2>4
<1>2. /\ x.weight \in Nat /\ x.length \in Nat
      /\ limits.weight \in Nat \ {0} /\ limits.length \in Nat \ {0}
  BY DEF PendingExtrinsics, Limits
<1>3. /\ limits.weight \div bounded(x.weight, limits.weight) \in Nat \ {0}
      /\ limits.length \div bounded(x.length, limits.length) \in Nat \ {0}
  BY <1>1, <1>2
<1>4. MaxTxPerBlock(x, limits) = Lesser(limits.weight \div bounded(x.weight, limits.weight),
                                        limits.length \div bounded(x.length, limits.length))
  BY DEF MaxTxPerBlock
<1> HIDE DEF bounded
<1> QED BY <1>3, <1>4 DEF Lesser

LEMMA EveryPriorityOrdered ==
  ASSUME NEW x \in PendingExtrinsics, NEW y \in PendingExtrinsics, NEW limits \in Limits
  PROVE  PriorityOrdered(x, y, limits)
<1> SUFFICES ASSUME x.weight = y.weight, x.length = y.length
             PROVE  /\ x.class = y.class /\ x.inclusionFee = y.inclusionFee /\ x.tip < y.tip
                         /\ ~(x.class = "operational" /\ x.inclusionFee = Null)
                       => Priority(x, limits) < Priority(y, limits)
                    /\ x.class # "operational" /\ y.class = "operational" /\ x.tip = y.tip
                         /\ y.inclusionFee # Null /\ y.inclusionFee > 0 /\ limits.multiplier > 0
                       => Priority(x, limits) < Priority(y, limits)
  BY DEF PriorityOrdered
<1> DEFINE fit == MaxTxPerBlock(x, limits)
<1>1. fit \in Nat \ {0} /\ MaxTxPerBlock(y, limits) = fit
  <2>1. MaxTxPerBlock(y, limits) = fit
    BY DEF MaxTxPerBlock
  <2> QED BY <2>1, SomeFit
<1>2. /\ x.tip \in Nat /\ y.tip \in Nat /\ limits.multiplier \in Nat
      /\ x.inclusionFee \in Nat \cup {Null} /\ y.inclusionFee \in Nat \cup {Null}
  BY DEF PendingExtrinsics, Limits
<1>3. ScaledTip(x, limits) = (x.tip + 1) * fit /\ ScaledTip(y, limits) = (y.tip + 1) * fit
  BY <1>1 DEF ScaledTip
<1> DEFINE virtual(z) == (z.inclusionFee + z.tip) * limits.multiplier * fit
<1>4. /\ x.class # "operational" => Priority(x, limits) = (x.tip + 1) * fit
      /\ y.class # "operational" => Priority(y, limits) = (y.tip + 1) * fit
      /\ x.class = "operational" /\ x.inclusionFee # Null
           => Priority(x, limits) = (x.tip + 1) * fit + virtual(x)
      /\ y.class = "operational" /\ y.inclusionFee # Null
           => Priority(y, limits) = (y.tip + 1) * fit + virtual(y)
  BY <1>1, <1>3 DEF Priority
<1> HIDE DEF fit
<1>5. (x.tip + 1) * fit \in Nat /\ (y.tip + 1) * fit \in Nat
  BY <1>1, <1>2
<1>6. x.tip < y.tip => (x.tip + 1) * fit < (y.tip + 1) * fit
  BY <1>1, <1>2
<1>7. ASSUME x.class = y.class, x.inclusionFee = y.inclusionFee, x.tip < y.tip,
             ~(x.class = "operational" /\ x.inclusionFee = Null)
      PROVE  Priority(x, limits) < Priority(y, limits)
  <2>1. CASE x.class # "operational"
    BY <2>1, <1>4, <1>6, <1>7
  <2>2. CASE x.class = "operational"
    <3>1. x.inclusionFee \in Nat /\ x.inclusionFee # Null /\ y.inclusionFee # Null
          /\ y.class = "operational"
      BY <2>2, <1>2, <1>7
    <3> DEFINE a == x.inclusionFee + x.tip
               b == y.inclusionFee + y.tip
               am == a * limits.multiplier
               bm == b * limits.multiplier
    <3>2. a \in Nat /\ b \in Nat /\ a <= b
      BY <3>1, <1>2, <1>7
    <3>3. am \in Nat /\ bm \in Nat /\ am <= bm
      <4> HIDE DEF a, b
      <4> QED BY <3>2, <1>2
    <3>4. am * fit \in Nat /\ bm * fit \in Nat /\ am * fit <= bm * fit
      <4> HIDE DEF am, bm
      <4> QED BY <3>3, <1>1
    <3>5. virtual(x) = am * fit /\ virtual(y) = bm * fit
      OBVIOUS
    <3>6. Priority(x, limits) = (x.tip + 1) * fit + am * fit
          /\ Priority(y, limits) = (y.tip + 1) * fit + bm * fit
      BY <3>1, <3>5, <2>2, <1>4
    <3>7. (x.tip + 1) * fit < (y.tip + 1) * fit
      BY <1>6, <1>7
    <3> DEFINE s == (x.tip + 1) * fit
               t == (y.tip + 1) * fit
               u == am * fit
               v == bm * fit
    <3>8. s \in Nat /\ t \in Nat /\ u \in Nat /\ v \in Nat /\ s < t /\ u <= v
      BY <3>4, <3>7, <1>5
    <3>9. s + u < t + v
      <4> HIDE DEF s, t, u, v
      <4> QED BY <3>8
    <3> QED BY <3>6, <3>9
  <2> QED BY <2>1, <2>2
<1>8. ASSUME x.class # "operational", y.class = "operational", x.tip = y.tip,
             y.inclusionFee # Null, y.inclusionFee > 0, limits.multiplier > 0
      PROVE  Priority(x, limits) < Priority(y, limits)
  <2>1. y.inclusionFee + y.tip \in Nat \ {0}
    BY <1>2, <1>8
  <2> DEFINE b == y.inclusionFee + y.tip
             bm == b * limits.multiplier
  <2>2. bm \in Nat \ {0}
    <3> HIDE DEF b
    <3>1. b \in Nat \ {0} /\ limits.multiplier \in Nat \ {0}
      BY <2>1, <1>2, <1>8 DEF b
    <3> QED BY <3>1
  <2>3. bm * fit \in Nat \ {0}
    <3> HIDE DEF bm
    <3> QED BY <2>2, <1>1
  <2>4. virtual(y) = bm * fit
    OBVIOUS
  <2>5. Priority(x, limits) = (x.tip + 1) * fit
        /\ Priority(y, limits) = (x.tip + 1) * fit + bm * fit
    BY <2>4, <1>4, <1>8
  <2> DEFINE s == (x.tip + 1) * fit
             v == bm * fit
  <2>6. s \in Nat /\ v \in Nat \ {0}
    BY <2>3, <1>5
  <2>7. s < s + v
    <3> HIDE DEF s, v
    <3> QED BY <2>6
  <2> QED BY <2>5, <2>7
<1> QED BY <1>7, <1>8

-----------------------------------------------------------------------------
(* Payouts *)

Below(x, y, c, d, e) == c * x <= d * y + e

LEMMA BoundsAdd ==
  ASSUME NEW c \in Int, NEW d \in Int, NEW e \in Int, NEW m \in Int,
         NEW p \in Int, NEW q \in Int, NEW x \in Int, NEW y \in Int,
         c * p <= d * q + m * e, c * x <= d * y + e
  PROVE  c * (p + x) <= d * (q + y) + (m + 1) * e
<1>1. /\ c * (p + x) = c * p + c * x /\ d * (q + y) = d * q + d * y
      /\ (m + 1) * e = m * e + e
  OBVIOUS
<1> DEFINE cp == c * p
           dq == d * q
           me == m * e
           cx == c * x
           dy == d * y
<1>2. cp \in Int /\ dq \in Int /\ me \in Int /\ cx \in Int /\ dy \in Int
  OBVIOUS
<1>3. cp + cx <= (dq + dy) + (me + e)
  <2>1. cp <= dq + me /\ cx <= dy + e
    OBVIOUS
  <2> HIDE DEF cp, dq, me, cx, dy
  <2> QED BY <2>1, <1>2
<1> QED BY <1>1, <1>3

LEMMA BoundsBegin ==
  ASSUME NEW c \in Int, NEW d \in Int, NEW e \in Int
  PROVE  c * 0 <= d * 0 + 0 * e
OBVIOUS

\* A bound of each number by another bounds the sums.
LEMMA SumsBounded ==
  ASSUME NEW s \in Seq(Int), NEW t \in Seq(Int), NEW n \in Nat, Len(s) = n, Len(t) = n,
         NEW c \in Int, NEW d \in Int, NEW e \in Int,
         \A k \in 1..n : Below(s[k], t[k], c, d, e)
  PROVE  Sum(s) \in Int /\ Sum(t) \in Int /\ Below(Sum(s), Sum(t), c, d, n * e)
<1>1. PICK p : AddsUp(p, s) /\ Sum(s) = p[Len(s)]
  BY SumAddsUp DEF AddsUpTo
<1>2. PICK q : AddsUp(q, t) /\ Sum(t) = q[Len(t)]
  BY SumAddsUp DEF AddsUpTo
<1> DEFINE Good == {m \in Nat : m <= n => Below(p[m], q[m], c, d, m * e)}
<1>3. n \in Nat /\ \A k \in 1..n : s[k] \in Int /\ t[k] \in Int
  OBVIOUS
<1>4. /\ \A m \in 0..n : p[m] \in Int /\ q[m] \in Int
      /\ \A m \in 1..n : p[m] = p[m - 1] + s[m] /\ q[m] = q[m - 1] + t[m]
      /\ p[0] = 0 /\ q[0] = 0
  BY <1>1, <1>2 DEF AddsUp
<1>5. 0 \in Good
  BY <1>4, BoundsBegin DEF Below
<1>6. ASSUME NEW m \in Nat, m \in Good PROVE m + 1 \in Good
  <2> SUFFICES ASSUME m + 1 <= n PROVE Below(p[m + 1], q[m + 1], c, d, (m + 1) * e)
    OBVIOUS
  <2>1. m + 1 \in 1..n /\ (m + 1) - 1 = m /\ m \in 0..n /\ m + 1 \in 0..n
    BY <1>3
  <2>2. p[m + 1] = p[m] + s[m + 1] /\ q[m + 1] = q[m] + t[m + 1]
    BY <1>4, <2>1
  <2>3. Below(p[m], q[m], c, d, m * e)
    BY <1>6, <2>1
  <2>4. p[m] \in Int /\ q[m] \in Int /\ s[m + 1] \in Int /\ t[m + 1] \in Int
    BY <1>3, <1>4, <2>1
  <2>5. Below(s[m + 1], t[m + 1], c, d, e)
    BY <2>1
  <2>6. \A pm, qm, x, y \in Int :
          Below(pm, qm, c, d, m * e) /\ Below(x, y, c, d, e)
            => Below(pm + x, qm + y, c, d, (m + 1) * e)
    BY BoundsAdd DEF Below
  <2> HIDE DEF Good
  <2> QED BY <2>2, <2>3, <2>4, <2>5, <2>6
<1>7. Nat \subseteq Good
  <2> HIDE DEF Good
  <2> QED BY <1>5, <1>6, SetInduction
<1>8. Sum(s) \in Int /\ Sum(t) \in Int
  BY <1>1, <1>2, <1>3, <1>4
<1> QED BY <1>1, <1>2, <1>3, <1>7, <1>8

\* No number is above the sum, unless some are negative.
LEMMA SumIsMost ==
  ASSUME NEW s \in Seq(Nat)
  PROVE  Sum(s) \in Nat /\ \A k \in 1..Len(s) : s[k] <= Sum(s)
<1>1. s \in Seq(Int)
  OBVIOUS
<1>2. PICK p : AddsUp(p, s) /\ Sum(s) = p[Len(s)]
  BY <1>1, SumAddsUp DEF AddsUpTo
<1> DEFINE n == Len(s)
           Good == {m \in Nat : m <= n => p[m] >= 0 /\ \A k \in 1..m : s[k] <= p[m]}
<1>3. n \in Nat /\ \A k \in 1..n : s[k] \in Nat
  OBVIOUS
<1>4. /\ \A m \in 0..n : p[m] \in Int
      /\ \A m \in 1..n : p[m] = p[m - 1] + s[m]
      /\ p[0] = 0
  BY <1>2 DEF AddsUp
<1>5. 0 \in Good
  BY <1>4
<1>6. ASSUME NEW m \in Nat, m \in Good PROVE m + 1 \in Good
  <2> SUFFICES ASSUME m + 1 <= n
               PROVE  p[m + 1] >= 0 /\ \A k \in 1..m + 1 : s[k] <= p[m + 1]
    OBVIOUS
  <2>1. m + 1 \in 1..n /\ (m + 1) - 1 = m /\ m \in 0..n /\ m + 1 \in 0..n
    BY <1>3
  <2>2. p[m + 1] = p[m] + s[m + 1] /\ s[m + 1] \in Nat /\ p[m] \in Int
    BY <1>3, <1>4, <2>1
  <2>3. p[m] >= 0 /\ \A k \in 1..m : s[k] <= p[m]
    BY <1>6, <2>1
  <2>4. \A k \in 1..m + 1 : s[k] \in Nat /\ (k \in 1..m \/ k = m + 1)
    BY <1>3, <2>1
  <2> QED BY SMTT(30), <2>2, <2>3, <2>4
<1>7. Nat \subseteq Good
  <2> HIDE DEF Good
  <2> QED BY <1>5, <1>6, SetInduction
<1> QED BY <1>2, <1>3, <1>4, <1>7

\* The sum grows by what the first number grows by.
LEMMA SumWithFirst ==
  ASSUME NEW s \in Seq(Int), NEW t \in Seq(Int), Len(s) = Len(t), NEW c \in Int,
         Len(s) > 0, t[1] = s[1] + c, \A k \in 2..Len(s) : t[k] = s[k]
  PROVE  Sum(t) = Sum(s) + c
<1>1. PICK p : AddsUp(p, s) /\ Sum(s) = p[Len(s)]
  BY SumAddsUp DEF AddsUpTo
<1>2. PICK q : AddsUp(q, t) /\ Sum(t) = q[Len(t)]
  BY SumAddsUp DEF AddsUpTo
<1> DEFINE n == Len(s)
           Good == {m \in Nat : m >= 1 /\ m <= n => q[m] = p[m] + c}
<1>3. n \in Nat /\ \A k \in 1..n : s[k] \in Int /\ t[k] \in Int
  OBVIOUS
<1>4. /\ \A m \in 0..n : p[m] \in Int /\ q[m] \in Int
      /\ \A m \in 1..n : p[m] = p[m - 1] + s[m] /\ q[m] = q[m - 1] + t[m]
      /\ p[0] = 0 /\ q[0] = 0
  BY <1>1, <1>2 DEF AddsUp
<1>5. 0 \in Good
  OBVIOUS
<1>6. ASSUME NEW m \in Nat, m \in Good PROVE m + 1 \in Good
  <2> SUFFICES ASSUME m + 1 <= n PROVE q[m + 1] = p[m + 1] + c
    OBVIOUS
  <2>1. m + 1 \in 1..n /\ (m + 1) - 1 = m /\ m \in 0..n /\ m + 1 \in 0..n
    BY <1>3
  <2>2. p[m + 1] = p[m] + s[m + 1] /\ q[m + 1] = q[m] + t[m + 1]
    BY <1>4, <2>1
  <2>3. p[m] \in Int /\ q[m] \in Int /\ s[m + 1] \in Int /\ t[m + 1] \in Int
    BY <1>3, <1>4, <2>1
  <2>4. CASE m = 0
    BY <2>2, <2>3, <2>4, <1>4
  <2>5. CASE m # 0
    <3>1. q[m] = p[m] + c /\ t[m + 1] = s[m + 1]
      BY <1>6, <2>1, <2>5
    <3> HIDE DEF n, Good
    <3> QED BY <3>1, <2>2, <2>3
  <2> QED BY <2>4, <2>5
<1>7. Nat \subseteq Good
  <2> HIDE DEF Good
  <2> QED BY <1>5, <1>6, SetInduction
<1> QED BY <1>1, <1>2, <1>3, <1>7

Slack(n, amount, A) == (n * (amount + A)) \div A

LEMMA ShareArithmetic ==
  ASSUME NEW A \in Nat \ {0}, NEW n \in Nat, NEW T \in Nat \ {0}, NEW amount \in Nat,
         NEW P \in Int, NEW S \in Int,
         Below(P, T, T, A, n * 0), Below(T, P, A, T, n * T),
         Below(S, P, 2 * A, 2 * amount, n * A), Below(P, S, amount, A, n * A)
  PROVE  /\ Slack(n, amount, A) \in Nat
         /\ S - amount <= Slack(n, amount, A) /\ amount - S <= Slack(n, amount, A)
<1>. /\ T * P <= A * T + n * 0 /\ A * T <= T * P + n * T
     /\ (2 * A) * S <= (2 * amount) * P + n * A /\ amount * P <= A * S + n * A
  BY DEF Below
<1>1. P <= A /\ A <= P + n
  <2>1. T * P <= T * A /\ T * A <= T * (P + n)
    <3>1. A * T = T * A /\ T * (P + n) = T * P + n * T /\ n * 0 = 0
      OBVIOUS
    <3>2. T * P \in Int /\ T * A \in Int
      OBVIOUS
    <3> QED BY <3>1, <3>2
  <2>2. T \in Int /\ T > 0 /\ P + n \in Int
    OBVIOUS
  <2>3. \A x, y \in Int : T * x <= T * y => x <= y
    BY <2>2
  <2> QED BY <2>1, <2>2, <2>3
<1> DEFINE share == n * (amount + A)
<1>2. A * (S - amount) <= share /\ A * (amount - S) <= share
  <2> DEFINE AS == A * S
             MP == amount * P
             MA == amount * A
             MN == amount * n
             NA == n * A
  <2>1. /\ AS \in Int /\ MP \in Int /\ MA \in Int /\ MN \in Nat /\ NA \in Nat
    OBVIOUS
  <2>2. MP <= MA /\ MA <= MP + MN
    <3>1. amount * P <= amount * A /\ amount * A <= amount * (P + n)
      BY <1>1
    <3>2. amount * (P + n) = amount * P + amount * n
      OBVIOUS
    <3> QED BY <3>1, <3>2
  <2>3. 2 * AS <= 2 * MP + NA /\ MP <= AS + NA
    <3>1. (2 * A) * S = 2 * (A * S) /\ (2 * amount) * P = 2 * (amount * P)
      OBVIOUS
    <3> QED BY <3>1
  <2>4. /\ A * (S - amount) = AS - MA /\ A * (amount - S) = MA - AS
        /\ share = MN + NA
    OBVIOUS
  <2> HIDE DEF AS, MP, MA, MN, NA, share
  <2>5. AS - MA <= MN + NA
    BY <2>1, <2>2, <2>3
  <2>6. MA - AS <= MN + NA
    BY <2>1, <2>2, <2>3
  <2> QED BY <2>4, <2>5, <2>6
<1>3. share \in Nat
  OBVIOUS
<1>4. \A d \in Int : A * d <= share => d <= share \div A
  <2> TAKE d \in Int
  <2> HAVE A * d <= share
  <2>1. (d * A) \div A = d /\ d * A = A * d
    OBVIOUS
  <2> HIDE DEF share
  <2>2. A * d \in Int /\ (A * d) \div A <= share \div A
    BY <1>3
  <2> QED BY <2>1, <2>2
<1>5. S - amount <= share \div A /\ amount - S <= share \div A
  BY <1>2, <1>4
<1>6. share \div A \in Nat
  <2> HIDE DEF share
  <2> QED BY <1>3
<1> QED BY <1>5, <1>6 DEF Slack

ShareWithin(part, share, stake, total, amount) ==
  /\ part \in Int /\ share \in Nat
  /\ Below(part, stake, total, Accuracy, 0)
  /\ Below(stake, part, Accuracy, total, total)
  /\ Below(share, part, 2 * Accuracy, 2 * amount, Accuracy)
  /\ Below(part, share, amount, Accuracy, Accuracy)

LEMMA ShareBounds ==
  ASSUME NEW stake \in Nat, NEW total \in Nat, total > 0, stake <= total, NEW amount \in Nat,
         NEW part, part = FromRational(stake, total), NEW share, share = PartOf(part, amount)
  PROVE  ShareWithin(part, share, stake, total, amount)
<1> DEFINE A == Accuracy
<1>1. A \in Nat \ {0} /\ A = Accuracy
  BY AccuracyAssumption
<1>2. /\ part \in 0..A /\ part * total <= stake * A
      /\ stake * A < part * total + total
  BY FractionBounds
<1>3. /\ share \in Nat /\ 2 * (share * A) <= 2 * (part * amount) + A
      /\ part * amount <= share * A + A
  <2>1. part \in 0..Accuracy
    BY <1>2
  <2>2. LET told == PartOf(part, amount)
        IN  /\ told \in Nat
            /\ 2 * (told * Accuracy) <= 2 * (part * amount) + Accuracy
            /\ part * amount <= told * Accuracy + Accuracy
    BY SMTT(30), <2>1, PartBounds
  <2> QED BY <2>2
<1> HIDE DEF A
<1>4. part \in Int /\ stake \in Int /\ share \in Int
  BY <1>1, <1>2, <1>3
<1>5. /\ total * part = part * total /\ A * stake = stake * A
      /\ (2 * A) * share = 2 * (share * A)
      /\ (2 * amount) * part = 2 * (part * amount)
      /\ amount * part = part * amount /\ A * share = share * A
  BY <1>1, <1>4
<1>6. part * total \in Int /\ stake * A \in Int
  BY <1>1, <1>4
<1>7. total * part <= A * stake + 0
  BY <1>2, <1>5, <1>6
<1>8. A * stake <= total * part + total
  BY <1>2, <1>5, <1>6
<1>9. (2 * A) * share <= (2 * amount) * part + A
  BY <1>3, <1>5
<1>10. amount * part <= A * share + A
  BY <1>3, <1>5
<1> QED BY <1>1, <1>3, <1>4, <1>7, <1>8, <1>9, <1>10 DEF ShareWithin, Below, A

\* Numbers that bound each other one by one do so as sums.
LEMMA SharesBalance ==
  ASSUME NEW stakes \in Seq(Int), NEW parts \in Seq(Int), NEW shares \in Seq(Int),
         NEW n \in Nat, Len(stakes) = n, Len(parts) = n, Len(shares) = n,
         NEW T \in Nat \ {0}, Sum(stakes) = T, NEW amount \in Nat, NEW A \in Nat \ {0},
         NEW A2 \in Nat, NEW amount2 \in Nat, A2 = 2 * A, amount2 = 2 * amount,
         \A k \in 1..n : Below(parts[k], stakes[k], T, A, 0),
         \A k \in 1..n : Below(stakes[k], parts[k], A, T, T),
         \A k \in 1..n : Below(shares[k], parts[k], A2, amount2, A),
         \A k \in 1..n : Below(parts[k], shares[k], amount, A, A)
  PROVE  /\ Sum(shares) \in Int /\ Slack(n, amount, A) \in Nat
         /\ Sum(shares) - amount <= Slack(n, amount, A)
         /\ amount - Sum(shares) <= Slack(n, amount, A)
<1>. \A s, t \in Seq(Int) : \A c, d, e \in Int :
       Len(s) = n /\ Len(t) = n /\ (\A k \in 1..n : Below(s[k], t[k], c, d, e))
         => Sum(s) \in Int /\ Below(Sum(s), Sum(t), c, d, n * e)
  BY SumsBounded
<1>. T \in Int /\ A \in Int /\ amount \in Int /\ A2 \in Int /\ amount2 \in Int /\ 0 \in Int
  OBVIOUS
<1>1. Sum(parts) \in Int /\ Below(Sum(parts), Sum(stakes), T, A, n * 0)
  OBVIOUS
<1>2. Below(Sum(stakes), Sum(parts), A, T, n * T)
  OBVIOUS
<1>3. Sum(shares) \in Int /\ Below(Sum(shares), Sum(parts), A2, amount2, n * A)
  OBVIOUS
<1>4. Below(Sum(parts), Sum(shares), amount, A, n * A)
  OBVIOUS
<1>5. Below(Sum(shares), Sum(parts), 2 * A, 2 * amount, n * A)
  BY <1>3
<1> QED BY <1>1, <1>2, <1>3, <1>4, <1>5, ShareArithmetic

\* The shares of stakes that make up a total are together the amount that is shared,
\* but for what is rounded.
LEMMA SharesAddUp ==
  ASSUME NEW stakes \in Seq(Nat), Sum(stakes) > 0, NEW amount \in Nat, NEW shares \in Seq(Int),
         Len(shares) = Len(stakes),
         \A k \in 1..Len(stakes) :
           shares[k] = PartOf(FromRational(stakes[k], Sum(stakes)), amount)
  PROVE  LET slack == (Len(stakes) * (amount + Accuracy)) \div Accuracy
         IN  /\ Sum(shares) \in Int /\ slack \in Nat
             /\ Sum(shares) - amount <= slack /\ amount - Sum(shares) <= slack
<1> DEFINE n == Len(stakes)
           T == Sum(stakes)
           parts == [k \in 1..n |-> FromRational(stakes[k], T)]
<1>1. Accuracy \in Nat \ {0} /\ n \in Nat
  BY AccuracyAssumption
<1>2. T \in Nat \ {0} /\ \A k \in 1..n : stakes[k] \in Nat /\ stakes[k] <= T
  BY SumIsMost
<1>3. \A k \in 1..n : /\ parts[k] \in Int /\ shares[k] \in Nat
                      /\ Below(parts[k], stakes[k], T, Accuracy, 0)
                      /\ Below(stakes[k], parts[k], Accuracy, T, T)
                      /\ Below(shares[k], parts[k], 2 * Accuracy, 2 * amount, Accuracy)
                      /\ Below(parts[k], shares[k], amount, Accuracy, Accuracy)
  <2> TAKE k \in 1..n
  <2>1. /\ parts[k] = FromRational(stakes[k], T)
        /\ shares[k] = PartOf(FromRational(stakes[k], T), amount)
    OBVIOUS
  <2>2. stakes[k] \in Nat /\ stakes[k] <= T /\ T \in Nat /\ T > 0
    BY <1>2
  <2> HIDE DEF T, parts
  <2>3. ShareWithin(parts[k], shares[k], stakes[k], T, amount)
    BY <2>1, <2>2, ShareBounds
  <2> QED BY <2>3 DEF ShareWithin
<1>4. parts \in Seq(Int) /\ Len(parts) = n /\ stakes \in Seq(Int)
  <2>1. \A k \in 1..n : FromRational(stakes[k], T) \in Int
    <3> TAKE k \in 1..n
    <3>1. parts[k] \in Int
      <4> HIDE DEF parts, n, T
      <4> QED BY <1>1, <1>3
    <3> QED BY <3>1
  <2> HIDE DEF T
  <2> QED BY <2>1
<1>5. shares \in Seq(Int) /\ Len(shares) = n
  OBVIOUS
<1> DEFINE A == Accuracy
           A2 == 2 * A
           amount2 == 2 * amount
<1>6. /\ \A k \in 1..n : Below(parts[k], stakes[k], T, A, 0)
      /\ \A k \in 1..n : Below(stakes[k], parts[k], A, T, T)
      /\ \A k \in 1..n : Below(shares[k], parts[k], A2, amount2, A)
      /\ \A k \in 1..n : Below(parts[k], shares[k], amount, A, A)
  <2> HIDE DEF n, T, parts
  <2> QED BY <1>3
<1>7. A \in Nat \ {0} /\ A2 \in Nat /\ amount2 \in Nat /\ A2 = 2 * A /\ amount2 = 2 * amount
      /\ Sum(stakes) = T /\ Len(stakes) = n
  BY <1>1
<1>8. /\ Sum(shares) \in Int /\ Slack(n, amount, A) \in Nat
      /\ Sum(shares) - amount <= Slack(n, amount, A)
      /\ amount - Sum(shares) <= Slack(n, amount, A)
  <2> HIDE DEF n, T, parts, A, A2, amount2
  <2> QED BY <1>1, <1>2, <1>4, <1>5, <1>6, <1>7, SharesBalance
<1> QED BY <1>8 DEF Slack

\* The commission is a part of what the validator's points earn, and all of it from
\* a hundred percent on.
LEMMA CommissionBounds ==
  ASSUME NEW e \in EraPoints, NEW v \in ValidatorPoints
  PROVE  /\ ValidatorTotal(e, v) \in 0..e.payout
         /\ CommissionPayout(e, v) \in Nat
         /\ Leftover(e, v) = ValidatorTotal(e, v) - CommissionPayout(e, v)
         /\ Leftover(e, v) \in Nat
         /\ v.percent >= 100 => Leftover(e, v) = 0
<1> DEFINE total == ValidatorTotal(e, v)
           percent == FromPercent(v.percent)
           commission == CommissionPayout(e, v)
<1>1. /\ e.points \in Nat /\ e.payout \in Nat /\ v.points \in Nat /\ v.percent \in Nat
      /\ Accuracy \in Nat \ {0} /\ Accuracy % 100 = 0
  BY AccuracyAssumption DEF EraPoints, ValidatorPoints
<1>2. total \in 0..e.payout
  <2>1. FromRational(v.points, e.points) \in 0..Accuracy
    BY <1>1, FractionBounds
  <2> QED BY <1>1, <2>1, PartBounds DEF ValidatorTotal
<1>3. 100 * (Accuracy \div 100) = Accuracy
  BY <1>1
<1>4. percent \in 0..Accuracy /\ (v.percent >= 100 => percent = Accuracy)
  <2>1. percent = Lesser(v.percent, 100) * (Accuracy \div 100)
    BY DEF FromPercent
  <2>2. Accuracy \div 100 \in Nat
    BY <1>1
  <2>3. Lesser(v.percent, 100) \in 0..100 /\ (v.percent >= 100 => Lesser(v.percent, 100) = 100)
    BY <1>1 DEF Lesser
  <2> DEFINE a == Accuracy \div 100
             k == Lesser(v.percent, 100)
  <2>4. k * a \in Nat /\ k * a <= 100 * a
    <3>1. a \in Nat /\ k \in Nat /\ k <= 100
      BY <2>2, <2>3
    <3> HIDE DEF a, k
    <3> QED BY <3>1
  <2> HIDE DEF percent
  <2> QED BY <2>1, <2>3, <2>4, <1>1, <1>3
<1>5. commission \in 0..total /\ (v.percent >= 100 => commission = total)
  <2>1. commission = PartOf(percent, total)
    BY DEF CommissionPayout
  <2>2. total \in Nat
    BY <1>1, <1>2
  <2> HIDE DEF percent, total, commission
  <2> QED BY <1>4, <2>1, <2>2, PartBounds
<1>6. Leftover(e, v) = Greater(total - commission, 0)
  BY DEF Leftover, SaturatingSub
<1> HIDE DEF percent, total, commission
<1>7. /\ Leftover(e, v) = total - commission /\ Leftover(e, v) \in Nat
      /\ v.percent >= 100 => Leftover(e, v) = 0
  BY <1>1, <1>2, <1>5, <1>6 DEF Greater
<1>8. commission \in Nat
  BY <1>1, <1>2, <1>5
<1> QED BY <1>2, <1>7, <1>8 DEF total, commission

\* calc_payout
LEMMA EveryPayoutShared ==
  ASSUME NEW e \in EraPoints, NEW v \in ValidatorPoints, NEW exposures \in Seq(Nat)
  PROVE  PayoutShares(e, v, exposures)
<1> DEFINE n == Len(exposures)
           left == Leftover(e, v)
           commission == CommissionPayout(e, v)
           share(x) == PartOf(FromRational(x, v.total), left)
           paid(i) == CalcPayout(e, v, exposures[i], i = 1)
           paidOut == [i \in DOMAIN exposures |-> paid(i)]
           shares == [i \in DOMAIN exposures |-> share(exposures[i])]
           slack == (n * (left + Accuracy)) \div Accuracy
<1> SUFFICES ASSUME v.total = Sum(exposures), v.total > 0, v.points <= e.points
             PROVE  /\ ValidatorTotal(e, v) <= e.payout
                    /\ Sum(paidOut) - ValidatorTotal(e, v) \in (-slack)..slack
                    /\ \A i, j \in DOMAIN exposures \ {1} :
                         exposures[i] <= exposures[j] => paid(i) <= paid(j)
                    /\ v.percent >= 100 => \A i \in DOMAIN exposures \ {1} : paid(i) = 0
  BY DEF PayoutShares
<1>1. /\ ValidatorTotal(e, v) \in Nat /\ ValidatorTotal(e, v) <= e.payout
      /\ commission \in Nat /\ left \in Nat /\ left = ValidatorTotal(e, v) - commission
      /\ v.percent >= 100 => left = 0
  <2>1. e.payout \in Nat
    BY DEF EraPoints
  <2> QED BY <2>1, CommissionBounds
<1>2. v.total \in Nat /\ DOMAIN exposures = 1..n /\ n \in Nat
      /\ \A i \in 1..n : exposures[i] \in Nat
  BY DEF ValidatorPoints
<1>3. \A i \in 1..n : paid(i) = share(exposures[i]) + IF i = 1 THEN commission ELSE 0
  BY DEF CalcPayout
<1>4. \A x \in Nat : share(x) \in Nat /\ (left = 0 => share(x) = 0)
  <2> TAKE x \in Nat
  <2>1. FromRational(x, v.total) \in 0..Accuracy
    BY <1>2, FractionBounds
  <2> HIDE DEF left
  <2>2. PartOf(FromRational(x, v.total), left) \in 0..left
    BY <1>1, <2>1, PartBounds
  <2> QED BY <1>1, <2>2
<1>5. ASSUME NEW x \in Nat, NEW y \in Nat, x <= y PROVE share(x) <= share(y)
  <2>1. /\ FromRational(x, v.total) \in Nat /\ FromRational(y, v.total) \in Nat
        /\ FromRational(x, v.total) <= FromRational(y, v.total)
    <3>1. v.total \in Nat /\ Accuracy \in Nat
      BY <1>2, AccuracyAssumption
    <3>2. FromRational(x, v.total) \in 0..Accuracy /\ FromRational(y, v.total) \in 0..Accuracy
      BY <3>1, FractionBounds
    <3>3. FromRational(x, v.total) <= FromRational(y, v.total)
      BY <1>5, <3>1, FractionGrows
    <3> QED BY <3>1, <3>2, <3>3
  <2> HIDE DEF left
  <2> QED BY <1>1, <2>1, PartGrows
<1>6. \A i \in 1..n : share(exposures[i]) \in Nat
  <2> HIDE DEF share, n
  <2> QED BY <1>2, <1>4
<1>7. \A i \in DOMAIN exposures \ {1} : paid(i) = share(exposures[i])
  <2> HIDE DEF share, paid, n
  <2>1. \A i \in 1..n : i # 1 => paid(i) = share(exposures[i]) + 0
    BY <1>3
  <2> QED BY <1>2, <1>6, <2>1
<1>8. \A i, j \in DOMAIN exposures \ {1} :
        exposures[i] <= exposures[j] => paid(i) <= paid(j)
  <2> HIDE DEF share, paid, n
  <2> QED BY <1>2, <1>5, <1>7
<1>9. v.percent >= 100 => \A i \in DOMAIN exposures \ {1} : paid(i) = 0
  <2> HIDE DEF share, paid, n, left
  <2> QED BY <1>1, <1>2, <1>4, <1>7
<1>10. Sum(exposures) > 0 => n > 0
  <2>1. PICK p : AddsUp(p, exposures) /\ Sum(exposures) = p[n]
    <3>1. exposures \in Seq(Int)
      OBVIOUS
    <3> QED BY <3>1, SumAddsUp DEF AddsUpTo
  <2> QED BY <1>2, <2>1 DEF AddsUp
<1>11. shares \in Seq(Int) /\ Len(shares) = n /\ paidOut \in Seq(Int) /\ Len(paidOut) = n
       /\ \A i \in 1..n : shares[i] = share(exposures[i]) /\ paidOut[i] = paid(i)
  <2> HIDE DEF share, paid, n, commission
  <2>1. \A i \in 1..n : share(exposures[i]) \in Int /\ paid(i) \in Int
    BY <1>1, <1>3, <1>6
  <2> QED BY <1>2, <2>1
<1>12. Sum(paidOut) = Sum(shares) + commission
  <2> HIDE DEF share, paid, commission, shares, paidOut
  <2>1. n > 0
    BY <1>10
  <2>2. paidOut[1] = shares[1] + commission
    <3>1. 1 \in 1..n
      BY <1>2, <2>1
    <3> QED BY <1>3, <1>11, <3>1
  <2>3. \A i \in 2..n : paidOut[i] = shares[i]
    <3> TAKE i \in 2..n
    <3>1. i \in 1..n /\ i # 1 /\ i \in DOMAIN exposures \ {1}
      BY <1>2
    <3> QED BY <1>7, <1>11, <3>1
  <2>4. commission \in Int
    BY <1>1
  <2> QED BY <1>11, <2>1, <2>2, <2>3, <2>4, SumWithFirst
<1>13. /\ Sum(shares) \in Int /\ slack \in Nat
       /\ Sum(shares) - left <= slack /\ left - Sum(shares) <= slack
  <2>1. \A i \in 1..Len(exposures) :
          shares[i] = PartOf(FromRational(exposures[i], Sum(exposures)), left)
    BY <1>11
  <2>2. shares \in Seq(Int) /\ Len(shares) = Len(exposures) /\ Sum(exposures) > 0
    BY <1>11
  <2> HIDE DEF left, shares
  <2> QED BY <1>1, <2>1, <2>2, SharesAddUp
<1>14. Sum(paidOut) - ValidatorTotal(e, v) \in (-slack)..slack
  <2> HIDE DEF left, commission, shares, paidOut, slack
  <2>1. Sum(paidOut) - ValidatorTotal(e, v) = Sum(shares) - left
    BY <1>1, <1>12, <1>13
  <2> QED BY <1>1, <1>13, <2>1
<1> HIDE DEF paid, paidOut, slack
<1> QED BY <1>1, <1>8, <1>9, <1>14

\* calc_payout and the priorities, for every amount.
THEOREM EveryAmountExact ==
  ASSUME input \in AmountInputs
  PROVE  AmountsExact
<1>1. ASSUME Is("payout") PROVE PayoutShares(input.era, input.validator, input.exposures)
  <2>1. /\ input.era \in EraPoints /\ input.validator \in ValidatorPoints
        /\ input.exposures \in Seq(Nat)
    BY <1>1 DEF AmountInputs, Is
  <2> QED BY <2>1, EveryPayoutShared
<1>2. ASSUME Is("pending") PROVE PriorityOrdered(input.first, input.second, input.limits)
  <2>1. /\ input.first \in PendingExtrinsics /\ input.second \in PendingExtrinsics
        /\ input.limits \in Limits
    BY <1>2 DEF AmountInputs, Is
  <2> QED BY <2>1, EveryPriorityOrdered
<1> QED BY <1>1, <1>2 DEF AmountsExact

-----------------------------------------------------------------------------
(* Values that are made in steps, and filters. *)

\* A value that is made in n steps.
HasSteps(T, base, n, step) ==
  \E f \in [0..n -> T] : f[0] = base /\ \A m \in 1..n : f[m] = step[m][f[m - 1]]

LEMMA StepsExist ==
  ASSUME NEW T, NEW base \in T, NEW n \in Nat, NEW step \in [1..n -> [T -> T]]
  PROVE  HasSteps(T, base, n, step)
<1>1. HasIteration(T, base, step, n)
  BY IterationExists
<1>2. PICK iter \in [SUBSET (1..n) -> T] : Iterates(iter, base, step, n)
  BY <1>1 DEF HasIteration
<1> DEFINE f == [m \in 0..n |-> iter[1..m]]
<1>3. \A m \in 0..n : 1..m \in SUBSET (1..n)
  OBVIOUS
<1>4. f \in [0..n -> T]
  BY <1>2, <1>3
<1>5. f[0] = base
  <2>1. 1..0 = {} /\ 0 \in 0..n
    OBVIOUS
  <2>2. iter[1..0] = base
    BY <1>2, <2>1 DEF Iterates
  <2> QED BY <2>1, <2>2
<1>6. ASSUME NEW m \in 1..n PROVE f[m] = step[m][f[m - 1]]
  <2>1. /\ 1..m \in SUBSET (1..n) /\ 1..m # {}
        /\ Max(1..m) = m /\ (1..m) \ {Max(1..m)} = 1..(m - 1)
    BY IterationInOrder
  <2>2. iter[1..m] = step[Max(1..m)][iter[(1..m) \ {Max(1..m)}]]
    BY <1>2, <2>1 DEF Iterates
  <2>3. m \in 0..n /\ m - 1 \in 0..n
    OBVIOUS
  <2> QED BY <2>1, <2>2, <2>3
<1> HIDE DEF f
<1> QED BY <1>4, <1>5, <1>6 DEF HasSteps

AreSteps(step, n, T) == step \in [1..n -> [T -> T]]

LEMMA StepsOf ==
  ASSUME NEW T, NEW base, base \in T, NEW n, n \in Nat, NEW step, AreSteps(step, n, T)
  PROVE  HasSteps(T, base, n, step)
BY StepsExist DEF AreSteps

-----------------------------------------------------------------------------
(* Filters.  p[n] is what is kept of the first n. *)

KeepsStepwise(p, s, places) ==
  /\ p[0] = <<>>
  /\ \A n \in 1..Len(s) : p[n] = IF n \in places THEN Append(p[n - 1], s[n]) ELSE p[n - 1]

LEMMA KeptStepwise ==
  ASSUME NEW T, NEW s \in Seq(T), NEW places
  PROVE  \E p \in [0..Len(s) -> Seq(T)] : KeepsStepwise(p, s, places) /\ Kept(s, places) = p[Len(s)]
<1> DEFINE len == Len(s)
           step == [n \in 1..len |-> [t \in Seq(T) |->
                      IF n \in places THEN Append(t, s[n]) ELSE t]]
           Fits(f) == f = [n \in 0..len |->
                             IF n = 0 THEN <<>>
                             ELSE IF n \in places THEN Append(f[n - 1], s[n]) ELSE f[n - 1]]
<1>1. len \in Nat /\ \A n \in 1..len : s[n] \in T
  OBVIOUS
<1>2. <<>> \in Seq(T) /\ step \in [1..len -> [Seq(T) -> Seq(T)]]
  BY <1>1
<1> HIDE DEF step, len
<1>3. \E f \in [0..len -> Seq(T)] : f[0] = <<>> /\ \A m \in 1..len : f[m] = step[m][f[m - 1]]
  <2> DEFINE U == Seq(T)
  <2> HIDE DEF U
  <2>1. <<>> \in U /\ len \in Nat
    BY <1>1, <1>2 DEF U
  <2>2. AreSteps(step, len, U)
    BY <1>2 DEF U, AreSteps
  <2>3. HasSteps(U, <<>>, len, step)
    BY <2>1, <2>2, StepsOf
  <2> QED BY <2>3 DEF U, HasSteps
<1>4. PICK f \in [0..len -> Seq(T)] : f[0] = <<>> /\ \A m \in 1..len : f[m] = step[m][f[m - 1]]
  BY <1>3
<1> USE DEF step, len
<1>5. \A m \in 1..len : f[m] = IF m \in places THEN Append(f[m - 1], s[m]) ELSE f[m - 1]
  <2> TAKE m \in 1..len
  <2>1. m - 1 \in 0..len
    BY <1>1
  <2>2. f[m - 1] \in Seq(T)
    BY <1>4, <2>1
  <2> HIDE DEF len
  <2> QED BY <1>4, <2>2
<1>6. Fits(f)
  <2>1. \A m \in 0..len : m # 0 => m \in 1..len
    BY <1>1
  <2> HIDE DEF step, len
  <2> QED BY <1>4, <1>5, <2>1
<1>7. Kept(s, places) = (CHOOSE g : Fits(g))[len]
  BY DEF Kept
<1>8. PICK g : Fits(g) /\ Kept(s, places) = g[len]
  <2> HIDE DEF Fits
  <2> QED BY <1>6, <1>7
<1>9. /\ g[0] = <<>>
      /\ \A n \in 1..len : g[n] = IF n \in places THEN Append(g[n - 1], s[n]) ELSE g[n - 1]
  <2>1. \A x \in 0..len : g[x] = IF x = 0 THEN <<>>
                               ELSE IF x \in places THEN Append(g[x - 1], s[x]) ELSE g[x - 1]
    <3> HIDE DEF step, len
    <3> QED BY <1>8
  <2>2. 0 \in 0..len /\ \A x \in 1..len : x \in 0..len /\ x # 0
    BY <1>1
  <2> HIDE DEF step, len, Fits
  <2> QED BY <2>1, <2>2
<1>10. \A m \in 0..len : g[m] = f[m]
  <2> DEFINE Same == {m \in Nat : m <= len => g[m] = f[m]}
  <2>1. 0 \in Same
    BY <1>4, <1>9
  <2>2. ASSUME NEW m \in Nat, m \in Same PROVE m + 1 \in Same
    <3> SUFFICES ASSUME m + 1 <= len PROVE g[m + 1] = f[m + 1]
      OBVIOUS
    <3>1. m + 1 \in 1..len /\ (m + 1) - 1 = m /\ g[m] = f[m]
      BY <1>1, <2>2
    <3> HIDE DEF step, len, Fits
    <3> QED BY <1>5, <1>9, <3>1
  <2>3. Nat \subseteq Same
    <3> HIDE DEF Same
    <3> QED BY <2>1, <2>2, SetInduction
  <2> QED BY <1>1, <2>3
<1>11. KeepsStepwise(f, s, places)
  BY <1>4, <1>5 DEF KeepsStepwise
<1>12. Kept(s, places) = f[len]
  <2> HIDE DEF Fits, step
  <2> QED BY <1>1, <1>8, <1>10
<1> QED BY <1>4, <1>11, <1>12

\* at lists the places among the first n, from the lowest on.
Lists(at, count, places, n) ==
  /\ count \in Nat /\ at \in [1..count -> (1..n) \cap places]
  /\ \A i, j \in 1..count : i < j => at[i] < at[j]
  /\ \A k \in (1..n) \cap places : \E i \in 1..count : at[i] = k

\* What is kept is what is at those places.
LEMMA KeptIsListed ==
  ASSUME NEW T, NEW s \in Seq(T), NEW places
  PROVE  /\ Kept(s, places) \in Seq(T)
         /\ \E at : /\ Lists(at, Len(Kept(s, places)), places, Len(s))
                    /\ \A i \in 1..Len(Kept(s, places)) : Kept(s, places)[i] = s[at[i]]
<1>1. PICK p \in [0..Len(s) -> Seq(T)] :
        KeepsStepwise(p, s, places) /\ Kept(s, places) = p[Len(s)]
  BY KeptStepwise
<1> DEFINE Listed(t, n) == \E at : /\ Lists(at, Len(t), places, n)
                                   /\ \A i \in 1..Len(t) : t[i] = s[at[i]]
           Good == {n \in Nat : n <= Len(s) => Listed(p[n], n)}
<1>2. Len(s) \in Nat /\ \A n \in 1..Len(s) : s[n] \in T
  OBVIOUS
<1>3. 0 \in Good
  <2>1. p[0] = <<>> /\ Len(p[0]) = 0
    BY <1>1 DEF KeepsStepwise
  <2>2. Lists(<<>>, 0, places, 0)
    BY DEF Lists
  <2>3. \A i \in 1..0 : FALSE
    OBVIOUS
  <2> QED BY <2>1, <2>2, <2>3
<1>4. ASSUME NEW n \in Nat, n \in Good PROVE n + 1 \in Good
  <2> SUFFICES ASSUME n + 1 <= Len(s) PROVE Listed(p[n + 1], n + 1)
    OBVIOUS
  <2>1. n + 1 \in 1..Len(s) /\ (n + 1) - 1 = n /\ n \in 0..Len(s)
    BY <1>2
  <2>2. p[n + 1] = IF n + 1 \in places THEN Append(p[n], s[n + 1]) ELSE p[n]
    BY <1>1, <2>1 DEF KeepsStepwise
  <2>3. p[n] \in Seq(T) /\ Len(p[n]) \in Nat
    BY <1>1, <2>1
  <2>4. Listed(p[n], n)
    BY <1>4, <2>1
  <2>5. PICK at : /\ Lists(at, Len(p[n]), places, n)
                  /\ \A i \in 1..Len(p[n]) : p[n][i] = s[at[i]]
    BY <2>4
  <2> DEFINE count == Len(p[n])
  <2>6. CASE n + 1 \in places
    <3> DEFINE new == [i \in 1..(count + 1) |-> IF i = count + 1 THEN n + 1 ELSE at[i]]
    <3>1. p[n + 1] = Append(p[n], s[n + 1])
      BY <2>2, <2>6
    <3>2. /\ Len(p[n + 1]) = count + 1
          /\ \A i \in 1..(count + 1) :
               p[n + 1][i] = IF i = count + 1 THEN s[n + 1] ELSE p[n][i]
      BY <1>2, <2>1, <2>3, <3>1
    <3>3. /\ count \in Nat /\ at \in [1..count -> (1..n) \cap places]
          /\ \A i, j \in 1..count : i < j => at[i] < at[j]
          /\ \A k \in (1..n) \cap places : \E i \in 1..count : at[i] = k
      BY <2>5 DEF Lists
    <3> HIDE DEF count
    <3>4. \A i \in 1..(count + 1) : i # count + 1 => i \in 1..count
      BY <3>3
    <3>5. new \in [1..(count + 1) -> (1..(n + 1)) \cap places]
      <4>1. \A i \in 1..(count + 1) : new[i] \in (1..(n + 1)) \cap places
        BY <2>6, <3>3, <3>4
      <4> QED BY <4>1
    <3>6. \A i, j \in 1..(count + 1) : i < j => new[i] < new[j]
      <4> TAKE i, j \in 1..(count + 1)
      <4> HAVE i < j
      <4>1. i \in 1..count /\ new[i] = at[i] /\ at[i] \in 1..n
        BY <3>3
      <4>2. CASE j = count + 1
        BY <4>1, <4>2
      <4>3. CASE j # count + 1
        BY <3>3, <3>4, <4>1, <4>3
      <4> QED BY <4>2, <4>3
    <3>7. \A k \in (1..(n + 1)) \cap places : \E i \in 1..(count + 1) : new[i] = k
      <4> TAKE k \in (1..(n + 1)) \cap places
      <4>1. CASE k = n + 1
        <5>1. count + 1 \in 1..(count + 1) /\ new[count + 1] = k
          BY <3>3, <4>1
        <5> QED BY <5>1
      <4>2. CASE k # n + 1
        <5>1. k \in (1..n) \cap places
          BY <4>2
        <5>2. PICK i \in 1..count : at[i] = k
          BY <3>3, <5>1
        <5>3. i \in 1..(count + 1) /\ new[i] = k
          BY <3>3, <5>2
        <5> QED BY <5>3
      <4> QED BY <4>1, <4>2
    <3>8. count + 1 \in Nat
      BY <3>3
    <3>9. Lists(new, count + 1, places, n + 1)
      <4> HIDE DEF new
      <4> QED BY <3>5, <3>6, <3>7, <3>8 DEF Lists
    <3>10. \A i \in 1..(count + 1) : p[n + 1][i] = s[new[i]]
      <4> TAKE i \in 1..(count + 1)
      <4>1. CASE i = count + 1
        BY <3>2, <4>1
      <4>2. CASE i # count + 1
        <5>1. i \in 1..count
          BY <3>4, <4>2
        <5>2. p[n][i] = s[at[i]]
          BY <2>5, <5>1 DEF count
        <5> QED BY <3>2, <4>2, <5>2
      <4> QED BY <4>1, <4>2
    <3> HIDE DEF new
    <3> QED BY <3>2, <3>9, <3>10
  <2>7. CASE n + 1 \notin places
    <3>1. p[n + 1] = p[n]
      BY <2>2, <2>7
    <3>2. (1..(n + 1)) \cap places = (1..n) \cap places
      BY <2>7
    <3>3. Lists(at, count, places, n + 1)
      BY <2>5, <3>2 DEF Lists
    <3> QED BY <2>5, <3>1, <3>3
  <2> QED BY <2>6, <2>7
<1>5. Nat \subseteq Good
  <2> HIDE DEF Good
  <2> QED BY <1>3, <1>4, SetInduction
<1>6. Listed(p[Len(s)], Len(s))
  <2> HIDE DEF Listed
  <2> QED BY <1>2, <1>5
<1>7. p[Len(s)] \in Seq(T)
  BY <1>1, <1>2
<1> QED BY <1>1, <1>6, <1>7

\* There is one list.
LEMMA ListedOnce ==
  ASSUME NEW n \in Nat, NEW places, NEW at, NEW a, NEW other, NEW b,
         Lists(at, a, places, n), Lists(other, b, places, n)
  PROVE  a = b /\ at = other
<1>1. /\ a \in Nat /\ at \in [1..a -> (1..n) \cap places]
      /\ \A i, j \in 1..a : i < j => at[i] < at[j]
      /\ \A k \in (1..n) \cap places : \E i \in 1..a : at[i] = k
  BY DEF Lists
<1>2. /\ b \in Nat /\ other \in [1..b -> (1..n) \cap places]
      /\ \A i, j \in 1..b : i < j => other[i] < other[j]
      /\ \A k \in (1..n) \cap places : \E i \in 1..b : other[i] = k
  BY DEF Lists
<1> DEFINE Same == {m \in Nat : \A i \in 1..m : (i \in 1..a <=> i \in 1..b)
                                                 /\ (i \in 1..a => at[i] = other[i])}
<1>3. 0 \in Same
  OBVIOUS
<1>4. ASSUME NEW m \in Nat, m \in Same PROVE m + 1 \in Same
  <2> DEFINE k == m + 1
  <2>0. \A i \in 1..m : (i \in 1..a <=> i \in 1..b) /\ (i \in 1..a => at[i] = other[i])
    BY <1>4
  <2>1. ASSUME k \in 1..a PROVE k \in 1..b /\ other[k] <= at[k]
    <3>1. at[k] \in (1..n) \cap places
      BY <1>1, <2>1
    <3>2. PICK i \in 1..b : other[i] = at[k]
      BY <1>2, <3>1
    <3>3. ~(i <= m)
      <4> SUFFICES ASSUME i <= m PROVE FALSE
        OBVIOUS
      <4>1. i \in 1..m
        BY <1>2
      <4>2. i \in 1..a /\ at[i] = other[i]
        BY <2>0, <4>1
      <4>3. at[i] < at[k] /\ at[i] \in Nat
        BY <1>1, <2>1, <4>1, <4>2
      <4> QED BY <3>2, <4>2, <4>3
    <3>4. k \in 1..b /\ (i = k \/ k < i)
      BY <1>2, <3>3
    <3>5. other[k] \in Nat /\ other[i] \in Nat
      BY <1>2, <3>4
    <3> QED BY <1>2, <3>2, <3>4, <3>5
  <2>2. ASSUME k \in 1..b PROVE k \in 1..a /\ at[k] <= other[k]
    <3>1. other[k] \in (1..n) \cap places
      BY <1>2, <2>2
    <3>2. PICK i \in 1..a : at[i] = other[k]
      BY <1>1, <3>1
    <3>3. ~(i <= m)
      <4> SUFFICES ASSUME i <= m PROVE FALSE
        OBVIOUS
      <4>1. i \in 1..m
        BY <1>1
      <4>2. i \in 1..b /\ at[i] = other[i]
        BY <2>0, <4>1
      <4>3. other[i] < other[k] /\ other[i] \in Nat
        BY <1>2, <2>2, <4>1, <4>2
      <4> QED BY <3>2, <4>2, <4>3
    <3>4. k \in 1..a /\ (i = k \/ k < i)
      BY <1>1, <3>3
    <3>5. at[k] \in Nat /\ at[i] \in Nat
      BY <1>1, <3>4
    <3> QED BY <1>1, <3>2, <3>4, <3>5
  <2>3. k \in 1..a => at[k] = other[k]
    <3> SUFFICES ASSUME k \in 1..a PROVE at[k] = other[k]
      OBVIOUS
    <3>1. other[k] <= at[k] /\ at[k] <= other[k]
      BY <2>1, <2>2
    <3>2. at[k] \in Nat /\ other[k] \in Nat
      BY <1>1, <1>2, <2>1
    <3> HIDE DEF k
    <3> QED BY <3>1, <3>2
  <2>4. \A i \in 1..(m + 1) : i \in 1..m \/ i = k
    OBVIOUS
  <2> HIDE DEF k
  <2> QED BY <2>0, <2>1, <2>2, <2>3, <2>4
<1>5. Nat \subseteq Same
  <2> HIDE DEF Same
  <2> QED BY <1>3, <1>4, SetInduction
<1>6. a \in Same /\ b \in Same
  <2> HIDE DEF Same
  <2> QED BY <1>1, <1>2, <1>5
<1>7. a = b
  <2>1. \A i \in 1..a : i \in 1..b
    BY <1>6
  <2>2. \A i \in 1..b : i \in 1..a
    BY <1>6
  <2> HIDE DEF Same
  <2>3. a > 0 => a \in 1..b
    BY <1>1, <2>1
  <2>4. b > 0 => b \in 1..a
    BY <1>2, <2>2
  <2> QED BY <1>1, <1>2, <2>3, <2>4
<1>8. \A i \in 1..a : at[i] = other[i]
  BY <1>6
<1> QED BY <1>1, <1>2, <1>7, <1>8

-----------------------------------------------------------------------------
(* Account holdings *)

\* Balances, assets and addresses, of any accounts and assets.
Locks == Seq([amount : Nat, until : Nat \cup {Null}])
OldData == [free : Nat, reserved : Nat, miscFrozen : Nat, feeFrozen : Nat]
NewData == [free : Nat, reserved : Nat, frozen : Nat]
BalanceStates ==
  [runtime : {"freeBalance", "withoutAt", "modern"}, unread : BOOLEAN, native : STRING,
   data : OldData \cup NewData, locks : Locks, existentialDeposit : Nat,
   decimals : UNION {[D -> Nat] : D \in SUBSET STRING},
   tokens : UNION {[D -> [data : NewData, locks : Locks]] : D \in SUBSET STRING}]
StoredBalances ==
  [balance : Nat, isSufficient : BOOLEAN, isFrozen : BOOLEAN, shape : {"status", "bool"}]
AddressesOf(accounts) ==
  [kind : {"ss58", "hex", "ethereum", "malformed"}, account : accounts, long : BOOLEAN,
   upper : BOOLEAN]

HoldingInputs(accounts, assets) ==
  [kind : {"balance"}, at : BalanceStates, head : Nat \cup {Null}, token : STRING]
    \cup [kind : {"denomination"}, balance : Nat, decimals : Nat \cup {Null}]
    \cup [kind : {"assets"}, assets : Seq(assets), ids : Seq(assets),
          accounts : [assets -> StoredBalances \cup {Null}]]
    \cup [kind : {"addresses"}, addresses : Seq(AddressesOf(accounts))]

-----------------------------------------------------------------------------

\* p[m] is what the first m digits of s are worth.
Reads(p, s) ==
  /\ p \in [0..Len(s) -> Nat] /\ p[0] = 0
  /\ \A m \in 1..Len(s) : p[m] = 10 * p[m - 1] + s[m]

LEMMA ValueIsRead ==
  ASSUME NEW s \in Seq(Nat), NEW text, text.digits = s
  PROVE  \E p : Reads(p, s) /\ ValueOf(text) = p[Len(s)]
<1> DEFINE n == Len(s)
           step == [k \in 1..n |-> [total \in Nat |-> 10 * total + s[k]]]
           Adds(iter) == iter = [S \in SUBSET DOMAIN s |->
                                   IF S = {} THEN 0 ELSE 10 * iter[S \ {Max(S)}] + s[Max(S)]]
<1>1. n \in Nat /\ DOMAIN s = 1..n /\ \A k \in 1..n : s[k] \in Nat
  OBVIOUS
<1>2. step \in [1..n -> [Nat -> Nat]]
  BY <1>1
<1>3. PICK f \in [SUBSET (1..n) -> Nat] : Iterates(f, 0, step, n)
  <2>1. HasIteration(Nat, 0, step, n)
    <3>1. \A base \in Nat : \A k \in Nat : \A st \in [1..k -> [Nat -> Nat]] :
            HasIteration(Nat, base, st, k)
      BY IterationExists
    <3>2. 0 \in Nat
      OBVIOUS
    <3> HIDE DEF step, n
    <3> QED BY <1>1, <1>2, <3>1, <3>2
  <2> HIDE DEF step, n
  <2> QED BY <2>1 DEF HasIteration
<1>4. Adds(f)
  <2>1. ASSUME NEW S \in SUBSET (1..n)
        PROVE  f[S] = IF S = {} THEN 0 ELSE 10 * f[S \ {Max(S)}] + s[Max(S)]
    <3>1. f[S] = IF S = {} THEN 0 ELSE step[Max(S)][f[S \ {Max(S)}]]
      BY <1>3 DEF Iterates
    <3>2. S # {} => Max(S) \in 1..n
      <4> HIDE DEF n
      <4> QED BY <1>1, MaxIsLargest
    <3>3. f[S \ {Max(S)}] \in Nat
      BY <1>3
    <3>4. S # {} => step[Max(S)][f[S \ {Max(S)}]] = 10 * f[S \ {Max(S)}] + s[Max(S)]
      <4> HIDE DEF n
      <4> QED BY <3>2, <3>3
    <3> QED BY <3>1, <3>4
  <2> HIDE DEF n
  <2> QED BY <1>1, <1>3, <2>1
<1>5. ValueOf(text) = (CHOOSE iter : Adds(iter))[DOMAIN s]
  BY DEF ValueOf, FoldLeft, MapThenFoldSet
<1>6. PICK iter : Adds(iter) /\ ValueOf(text) = iter[DOMAIN s]
  <2> HIDE DEF Adds
  <2> QED BY <1>4, <1>5
<1> DEFINE p == [m \in 0..n |-> iter[1..m]]
<1>7. iter[1..0] = 0
  <2>1. 1..0 = {} /\ {} \in SUBSET DOMAIN s
    OBVIOUS
  <2> QED BY <1>6, <2>1
<1>8. \A m \in 1..n : iter[1..m] = 10 * iter[1..(m - 1)] + s[m]
  <2> TAKE m \in 1..n
  <2>1. /\ 1..m \in SUBSET (1..n) /\ 1..m # {}
        /\ Max(1..m) = m /\ (1..m) \ {Max(1..m)} = 1..(m - 1)
    BY <1>1, IterationInOrder
  <2>2. iter[1..m] = 10 * iter[(1..m) \ {Max(1..m)}] + s[Max(1..m)]
    BY <1>1, <1>6, <2>1
  <2> QED BY <2>1, <2>2
<1>9. \A m \in 0..n : iter[1..m] \in Nat
  <2> DEFINE Good == {m \in Nat : m <= n => iter[1..m] \in Nat}
  <2>1. 0 \in Good
    BY <1>7
  <2>2. ASSUME NEW m \in Nat, m \in Good PROVE m + 1 \in Good
    <3> SUFFICES ASSUME m + 1 <= n PROVE iter[1..(m + 1)] \in Nat
      OBVIOUS
    <3>1. m + 1 \in 1..n /\ (m + 1) - 1 = m /\ iter[1..m] \in Nat
      BY <1>1, <2>2
    <3>2. iter[1..(m + 1)] = 10 * iter[1..m] + s[m + 1]
      BY <1>8, <3>1
    <3> QED BY <1>1, <3>1, <3>2
  <2>3. Nat \subseteq Good
    <3> HIDE DEF Good
    <3> QED BY <2>1, <2>2, SetInduction
  <2> QED BY <1>1, <2>3
<1>10. Reads(p, s) /\ ValueOf(text) = p[n]
  <2>1. p \in [0..n -> Nat] /\ p[0] = 0 /\ p[n] = iter[1..n]
    <3> HIDE DEF n
    <3> QED BY <1>1, <1>7, <1>9
  <2>2. \A m \in 1..n : p[m] = 10 * p[m - 1] + s[m]
    <3> TAKE m \in 1..n
    <3>1. m \in 0..n /\ m - 1 \in 0..n
      BY <1>1
    <3> QED BY <1>8, <3>1
  <2> HIDE DEF p
  <2> QED BY <1>1, <1>6, <2>1, <2>2 DEF Reads
<1> QED BY <1>10

\* Digits are worth the same behind what is worth nothing.
IsBehind(s, t, k) ==
  k \in Nat /\ k + Len(s) <= Len(t) /\ \A m \in 1..Len(s) : t[k + m] = s[m]

LEMMA ReadBehind ==
  ASSUME NEW s \in Seq(Nat), NEW t \in Seq(Nat), NEW p, NEW q, Reads(p, s), Reads(q, t),
         NEW k, IsBehind(s, t, k), q[k] = 0
  PROVE  \A m \in 0..Len(s) : q[k + m] = p[m]
<1> DEFINE n == Len(s)
           Same == {m \in Nat : m <= n => q[k + m] = p[m]}
<1>1. n \in Nat /\ Len(t) \in Nat /\ p[0] = 0
      /\ \A m \in 1..n : p[m] = 10 * p[m - 1] + s[m]
  BY DEF Reads
<1>0. k \in Nat /\ k + n <= Len(t) /\ \A m \in 1..n : t[k + m] = s[m]
  BY DEF IsBehind
<1>2. \A m \in 1..Len(t) : q[m] = 10 * q[m - 1] + t[m]
  BY DEF Reads
<1>3. 0 \in Same
  BY <1>0, <1>1
<1>4. ASSUME NEW m \in Nat, m \in Same PROVE m + 1 \in Same
  <2> SUFFICES ASSUME m + 1 <= n PROVE q[k + (m + 1)] = p[m + 1]
    OBVIOUS
  <2>1. /\ m + 1 \in 1..n /\ (m + 1) - 1 = m
        /\ k + (m + 1) \in 1..Len(t) /\ (k + (m + 1)) - 1 = k + m
    BY <1>0, <1>1
  <2>2. q[k + m] = p[m]
    BY <1>1, <1>4
  <2>3. t[k + (m + 1)] = s[m + 1]
    BY <1>0, <2>1
  <2>4. q[k + (m + 1)] = 10 * q[k + m] + t[k + (m + 1)]
    BY <1>2, <2>1
  <2>5. p[m + 1] = 10 * p[m] + s[m + 1]
    BY <1>1, <2>1
  <2> QED BY <2>2, <2>3, <2>4, <2>5
<1>5. Nat \subseteq Same
  <2> HIDE DEF Same
  <2> QED BY <1>3, <1>4, SetInduction
<1> QED BY <1>1, <1>5

Text(digits) == [digits |-> digits, after |-> 0]

LEMMA ValueIsNumber ==
  ASSUME NEW s \in Seq(Nat)
  PROVE  ValueOf(Text(s)) \in Nat
<1>1. Text(s).digits = s
  BY DEF Text
<1>2. PICK p : Reads(p, s) /\ ValueOf(Text(s)) = p[Len(s)]
  BY <1>1, ValueIsRead
<1>3. Len(s) \in 0..Len(s)
  OBVIOUS
<1> QED BY <1>2, <1>3 DEF Reads

LEMMA ValueOfDigits ==
  ASSUME NEW text, NEW s \in Seq(Nat), text.digits = s
  PROVE  ValueOf(text) = ValueOf(Text(s))
BY DEF ValueOf, Text

LEMMA ValueOfOne ==
  ASSUME NEW d \in Nat
  PROVE  ValueOf(Text(<<d>>)) = d
<1>1. Text(<<d>>).digits = <<d>> /\ <<d>> \in Seq(Nat) /\ Len(<<d>>) = 1 /\ <<d>>[1] = d
  BY DEF Text
<1>2. PICK p : Reads(p, <<d>>) /\ ValueOf(Text(<<d>>)) = p[Len(<<d>>)]
  BY <1>1, ValueIsRead
<1>3. 1 \in 1..Len(<<d>>) /\ 1 - 1 = 0
  BY <1>1
<1>4. p[0] = 0 /\ p[1] = 10 * p[1 - 1] + <<d>>[1]
  BY <1>2, <1>3 DEF Reads
<1> QED BY <1>1, <1>2, <1>3, <1>4

LEMMA ValueOfMore ==
  ASSUME NEW s \in Seq(Nat), NEW d \in Nat
  PROVE  ValueOf(Text(Append(s, d))) = 10 * ValueOf(Text(s)) + d
<1> DEFINE t == Append(s, d)
           n == Len(s)
<1>1. t \in Seq(Nat) /\ Len(t) = n + 1 /\ t[n + 1] = d /\ n \in Nat
      /\ \A m \in 1..n : t[m] = s[m]
  OBVIOUS
<1>2. Text(s).digits = s /\ Text(t).digits = t
  BY DEF Text
<1>3. PICK p : Reads(p, s) /\ ValueOf(Text(s)) = p[n]
  BY <1>2, ValueIsRead
<1> HIDE DEF t
<1>4. PICK q : Reads(q, t) /\ ValueOf(Text(t)) = q[Len(t)]
  BY <1>1, <1>2, ValueIsRead
<1>5. q[0] = 0 /\ q[n + 1] = 10 * q[(n + 1) - 1] + t[n + 1]
  <2>1. n + 1 \in 1..Len(t)
    BY <1>1
  <2> QED BY <1>4, <2>1 DEF Reads
<1>6. \A m \in 0..n : q[0 + m] = p[m]
  <2>1. IsBehind(s, t, 0)
    BY <1>1 DEF IsBehind
  <2> QED BY <1>1, <1>3, <1>4, <1>5, <2>1, ReadBehind
<1>7. q[n] = p[n]
  <2>1. n \in 0..n /\ 0 + n = n
    BY <1>1
  <2> QED BY <1>6, <2>1
<1>8. (n + 1) - 1 = n
  BY <1>1
<1> QED BY <1>1, <1>3, <1>4, <1>5, <1>7, <1>8 DEF t

\* Zeros in front do not count.
LEMMA ValueOfPadded ==
  ASSUME NEW s \in Seq(Nat), NEW length \in Nat
  PROVE  /\ Padded(s, length) \in Seq(Nat)
         /\ Len(Padded(s, length)) >= length /\ Len(Padded(s, length)) >= Len(s)
         /\ ValueOf(Text(Padded(s, length))) = ValueOf(Text(s))
<1> DEFINE n == Len(s)
           k == IF n < length THEN length - n ELSE 0
           zeros == [i \in 1..k |-> 0]
           t == Padded(s, length)
<1>1. n \in Nat /\ k \in Nat /\ k + n >= length
  OBVIOUS
<1>2. zeros \in Seq(Nat) /\ Len(zeros) = k /\ \A i \in 1..k : zeros[i] = 0
  <2> HIDE DEF k
  <2> QED BY <1>1
<1>3. t = zeros \o s
  BY DEF Padded
<1> HIDE DEF k, zeros, t
<1>4. /\ t \in Seq(Nat) /\ Len(t) = k + n
      /\ \A i \in 1..k : t[i] = 0
      /\ \A m \in 1..n : t[k + m] = s[m]
  <2>1. t \in Seq(Nat) /\ Len(t) = k + n
    <3>1. zeros \o s \in Seq(Nat) /\ Len(zeros \o s) = Len(zeros) + Len(s)
      BY SMTT(30), <1>2
    <3> QED BY <1>2, <1>3, <3>1
  <2>2. \A i \in 1..(k + n) : t[i] = IF i <= k THEN zeros[i] ELSE s[i - k]
    BY <1>1, <1>2, <1>3
  <2>3. \A i \in 1..k : t[i] = 0
    BY <1>1, <1>2, <2>2
  <2>4. \A m \in 1..n : t[k + m] = s[m]
    <3> TAKE m \in 1..n
    <3>1. k + m \in 1..(k + n) /\ ~(k + m <= k) /\ (k + m) - k = m
      BY <1>1
    <3> QED BY <2>2, <3>1
  <2> QED BY <2>1, <2>3, <2>4
<1>5. Text(s).digits = s /\ Text(t).digits = t
  BY DEF Text
<1>6. PICK p : Reads(p, s) /\ ValueOf(Text(s)) = p[n]
  BY <1>5, ValueIsRead
<1>7. PICK q : Reads(q, t) /\ ValueOf(Text(t)) = q[Len(t)]
  BY <1>4, <1>5, ValueIsRead
<1>8. q[k] = 0
  <2> DEFINE Zero == {m \in Nat : m <= k => q[m] = 0}
  <2>1. 0 \in Zero
    BY <1>7 DEF Reads
  <2>2. ASSUME NEW m \in Nat, m \in Zero PROVE m + 1 \in Zero
    <3> SUFFICES ASSUME m + 1 <= k PROVE q[m + 1] = 0
      OBVIOUS
    <3>1. m + 1 \in 1..k /\ m + 1 \in 1..Len(t) /\ (m + 1) - 1 = m
      BY <1>1, <1>4
    <3>2. q[m] = 0 /\ t[m + 1] = 0
      BY <1>1, <1>4, <2>2, <3>1
    <3>3. q[m + 1] = 10 * q[(m + 1) - 1] + t[m + 1]
      BY <1>7, <3>1 DEF Reads
    <3> QED BY <3>1, <3>2, <3>3
  <2>3. Nat \subseteq Zero
    <3> HIDE DEF Zero
    <3> QED BY <2>1, <2>2, SetInduction
  <2> QED BY <1>1, <2>3
<1>9. \A m \in 0..n : q[k + m] = p[m]
  <2>1. IsBehind(s, t, k)
    BY <1>1, <1>4 DEF IsBehind
  <2>2. \A m \in 0..Len(s) : q[k + m] = p[m]
    BY <1>4, <1>6, <1>7, <1>8, <2>1, ReadBehind
  <2> QED BY <2>2
<1>10. q[k + n] = p[n]
  <2>1. n \in 0..n
    BY <1>1
  <2> QED BY <1>9, <2>1
<1> QED BY <1>1, <1>4, <1>6, <1>7, <1>10 DEF t

\* Every number's digits are those of its tenth, and one more.
DividesOut(f, n) ==
  \A m \in 0..n : f[m] = IF m < 10 THEN <<m>> ELSE Append(f[m \div 10], m % 10)

LEMMA DigitsStepwise ==
  ASSUME NEW n \in Nat
  PROVE  \E f : DividesOut(f, n) /\ Digits(n) = f[n]
<1> DEFINE Fits(f, l) == f = [m \in 0..l |->
                               IF m < 10 THEN <<m>> ELSE Append(f[m \div 10], m % 10)]
           Have == {l \in Nat : \E f : Fits(f, l)}
<1>1. \A m \in Nat : m \div 10 \in Nat /\ m % 10 \in 0..9 /\ m = 10 * (m \div 10) + (m % 10)
                     /\ (m >= 10 => m \div 10 < m)
  OBVIOUS
<1>2. 0 \in Have
  <2> DEFINE g == [m \in 0..0 |-> <<m>>]
  <2>1. \A m \in 0..0 : m < 10
    OBVIOUS
  <2>2. Fits(g, 0)
    BY <2>1
  <2> QED BY <2>2
<1>3. ASSUME NEW l \in Nat, l \in Have PROVE l + 1 \in Have
  <2>1. PICK f : Fits(f, l)
    BY <1>3
  <2> DEFINE k == l + 1
             last == IF k < 10 THEN <<k>> ELSE Append(f[k \div 10], k % 10)
             g == [m \in 0..k |-> IF m = k THEN last ELSE f[m]]
  <2>2. \A m \in 0..l : f[m] = IF m < 10 THEN <<m>> ELSE Append(f[m \div 10], m % 10)
    BY <2>1
  <2>3. \A m \in 0..k : m = k \/ (m \in 0..l /\ m # k)
    OBVIOUS
  <2>4. k \in 0..k /\ \A m \in 0..l : m \in 0..k
    OBVIOUS
  <2>5. \A m \in 0..k : m >= 10 => m \div 10 \in 0..l
    <3> TAKE m \in 0..k
    <3> HAVE m >= 10
    <3>1. m \in Nat /\ m \div 10 \in Nat /\ m \div 10 < m
      BY <1>1
    <3> QED BY <3>1
  <2> HIDE DEF k
  <2>6. \A m \in 0..l : g[m] = f[m]
    BY <2>3, <2>4 DEF k
  <2>7. \A m \in 0..k : m >= 10 => g[m \div 10] = f[m \div 10]
    <3> HIDE DEF g
    <3> QED BY <2>5, <2>6
  <2>8. \A m \in 0..k : g[m] = IF m < 10 THEN <<m>> ELSE Append(g[m \div 10], m % 10)
    <3> TAKE m \in 0..k
    <3>0. m \in Int /\ (~(m < 10) => m >= 10)
      OBVIOUS
    <3>1. CASE m = k
      <4>1. g[m] = last
        BY <3>1
      <4>2. m >= 10 => g[m \div 10] = f[m \div 10]
        BY <2>7
      <4> HIDE DEF g
      <4> QED BY <3>0, <3>1, <4>1, <4>2
    <3>2. CASE m # k
      <4>1. m \in 0..l
        BY <2>3, <3>2
      <4>2. g[m] = f[m]
        BY <2>6, <4>1
      <4>3. m >= 10 => g[m \div 10] = f[m \div 10]
        BY <2>7
      <4> HIDE DEF g
      <4> QED BY <2>2, <3>0, <4>1, <4>2, <4>3
    <3> QED BY <3>1, <3>2
  <2>9. Fits(g, k)
    <3>1. g = [m \in 0..k |-> g[m]]
      OBVIOUS
    <3> HIDE DEF g
    <3> QED BY <2>8, <3>1
  <2> HIDE DEF g, Fits
  <2> QED BY <2>9 DEF k
<1>4. n \in Have
  <2>1. Nat \subseteq Have
    <3> HIDE DEF Have
    <3> QED BY <1>2, <1>3, SetInduction
  <2> QED BY <2>1
<1>5. Digits(n) = (CHOOSE f : Fits(f, n))[n]
  BY DEF Digits
<1>6. PICK f : Fits(f, n) /\ Digits(n) = f[n]
  <2> HIDE DEF Fits
  <2> QED BY <1>4, <1>5
<1>7. \A m \in 0..n : f[m] = IF m < 10 THEN <<m>> ELSE Append(f[m \div 10], m % 10)
  BY <1>6
<1>8. DividesOut(f, n)
  BY <1>7 DEF DividesOut
<1> QED BY <1>6, <1>8

\* The digits of a number are worth it.
LEMMA DigitsAreWorth ==
  ASSUME NEW n \in Nat
  PROVE  Digits(n) \in Seq(Nat) /\ ValueOf(Text(Digits(n))) = n
<1>1. \A m \in Nat : m \div 10 \in Nat /\ m % 10 \in 0..9 /\ m = 10 * (m \div 10) + (m % 10)
                     /\ (m >= 10 => m \div 10 < m)
  OBVIOUS
<1>2. PICK f : DividesOut(f, n) /\ Digits(n) = f[n]
  BY DigitsStepwise
<1>3. \A m \in 0..n : f[m] = IF m < 10 THEN <<m>> ELSE Append(f[m \div 10], m % 10)
  BY <1>2 DEF DividesOut
<1> DEFINE Worth(m) == f[m] \in Seq(Nat) /\ ValueOf(Text(f[m])) = m
           Good == {l \in Nat : \A m \in 0..l : m <= n => Worth(m)}
<1>4. ASSUME NEW m \in 0..n, \A i \in 0..n : i < m => Worth(i) PROVE Worth(m)
  <2>1. CASE m < 10
    <3>1. f[m] = <<m>>
      <4>1. f[m] = IF m < 10 THEN <<m>> ELSE Append(f[m \div 10], m % 10)
        BY <1>3
      <4> HIDE DEF Worth, Good
      <4> QED BY <2>1, <4>1, Zenon
    <3>2. m \in Nat
      OBVIOUS
    <3>3. <<m>> \in Seq(Nat) /\ ValueOf(Text(<<m>>)) = m
      BY <3>2, ValueOfOne
    <3> QED BY <3>1, <3>3
  <2>2. CASE ~(m < 10)
    <3>1. m \in Nat /\ m >= 10 /\ m \div 10 \in Nat /\ m \div 10 < m
      BY <1>1, <2>2
    <3>2. m \div 10 \in 0..n
      BY <3>1
    <3>3. Worth(m \div 10)
      BY <1>4, <3>1, <3>2
    <3>4. f[m] = Append(f[m \div 10], m % 10)
      BY <1>3, <2>2
    <3>5. m % 10 \in Nat /\ m = 10 * (m \div 10) + (m % 10)
      BY <1>1, <3>1
    <3>6. ValueOf(Text(Append(f[m \div 10], m % 10))) = 10 * ValueOf(Text(f[m \div 10])) + (m % 10)
      BY <3>3, <3>5, ValueOfMore
    <3>7. Append(f[m \div 10], m % 10) \in Seq(Nat)
      BY <3>3, <3>5
    <3> QED BY <3>3, <3>4, <3>5, <3>6, <3>7
  <2> QED BY <2>1, <2>2
<1>5. 0 \in Good
  <2>1. \A m \in 0..0 : m = 0
    OBVIOUS
  <2>2. 0 \in 0..n /\ \A i \in 0..n : ~(i < 0)
    OBVIOUS
  <2>3. Worth(0)
    <3> HIDE DEF Worth
    <3> QED BY <1>4, <2>2
  <2> HIDE DEF Worth
  <2> QED BY <2>1, <2>3
<1>6. ASSUME NEW l \in Nat, l \in Good PROVE l + 1 \in Good
  <2> HIDE DEF Worth
  <2>1. \A m \in 0..l : m <= n => Worth(m)
    BY <1>6
  <2>2. l + 1 <= n => Worth(l + 1)
    <3> SUFFICES ASSUME l + 1 <= n PROVE Worth(l + 1)
      OBVIOUS
    <3>1. l + 1 \in 0..n /\ \A i \in 0..n : i < l + 1 => i \in 0..l
      OBVIOUS
    <3> QED BY <1>4, <2>1, <3>1
  <2>3. \A m \in 0..(l + 1) : m \in 0..l \/ m = l + 1
    OBVIOUS
  <2> QED BY <2>1, <2>2, <2>3
<1>7. Worth(n)
  <2>1. Nat \subseteq Good
    <3> HIDE DEF Good
    <3> QED BY <1>5, <1>6, SetInduction
  <2> HIDE DEF Worth
  <2>2. n \in Good
    <3> HIDE DEF Good
    <3> QED BY <2>1
  <2> QED BY <2>2
<1> QED BY <1>2, <1>7

-----------------------------------------------------------------------------

LEMMA DenominatedIs ==
  ASSUME NEW balance \in Nat, NEW decimals \in Nat \cup {Null}
  PROVE  /\ Denominated(balance, decimals) \in Denominations
         /\ ValueOf(Denominated(balance, decimals)) = balance
         /\ Len(Denominated(balance, decimals).digits) >= Denominated(balance, decimals).after
         /\ decimals # Null /\ balance # 0 => Denominated(balance, decimals).after = decimals
<1> DEFINE s == Digits(balance)
           text == Denominated(balance, decimals)
<1>1. s \in Seq(Nat) /\ ValueOf(Text(s)) = balance /\ Len(s) \in Nat
  <2>1. s \in Seq(Nat) /\ ValueOf(Text(s)) = balance
    BY DigitsAreWorth
  <2> HIDE DEF s
  <2> QED BY <2>1
<1>2. Null \notin Int
  BY NullAssumption
<1>3. text = IF balance = 0 \/ decimals = 0 THEN [digits |-> s, after |-> 0]
             ELSE IF decimals = Null THEN [digits |-> s, after |-> Len(s)]
             ELSE [digits |-> Padded(s, decimals), after |-> decimals]
  BY DEF Denominated
<1> HIDE DEF s, text
<1>4. CASE balance = 0 \/ decimals = 0
  <2>1. text.digits = s /\ text.after = 0 /\ text \in Denominations
    BY <1>1, <1>3, <1>4 DEF Denominations
  <2>2. ValueOf(text) = balance
    BY <1>1, <2>1, ValueOfDigits
  <2>3. balance # 0 => decimals = 0
    BY <1>4
  <2> QED BY <1>1, <2>1, <2>2, <2>3 DEF text
<1>5. CASE ~(balance = 0 \/ decimals = 0) /\ decimals = Null
  <2>1. text.digits = s /\ text.after = Len(s) /\ text \in Denominations
    BY <1>1, <1>3, <1>5 DEF Denominations
  <2>2. ValueOf(text) = balance
    BY <1>1, <2>1, ValueOfDigits
  <2> QED BY <1>1, <1>5, <2>1, <2>2 DEF text
<1>6. CASE ~(balance = 0 \/ decimals = 0) /\ decimals # Null
  <2>0. decimals \in Nat
    BY <1>6
  <2>1. /\ Padded(s, decimals) \in Seq(Nat) /\ Len(Padded(s, decimals)) >= decimals
        /\ ValueOf(Text(Padded(s, decimals))) = ValueOf(Text(s))
    BY <1>1, <2>0, ValueOfPadded
  <2>2. text.digits = Padded(s, decimals) /\ text.after = decimals /\ text \in Denominations
    BY <1>3, <1>6, <2>0, <2>1 DEF Denominations
  <2>3. ValueOf(text) = ValueOf(Text(Padded(s, decimals)))
    BY <2>1, <2>2, ValueOfDigits
  <2> QED BY <1>1, <2>1, <2>2, <2>3 DEF text
<1> QED BY <1>4, <1>5, <1>6

LEMMA EveryDenominationExact ==
  ASSUME NEW balance \in Nat, NEW decimals \in Nat \cup {Null}
  PROVE  DenominationExact(balance, decimals)
BY DenominatedIs DEF DenominationExact, Denotes

-----------------------------------------------------------------------------

\* What is transferable of an account, in plain numbers.
LEMMA TransferableIs ==
  ASSUME NEW data, data.free \in Nat, data.reserved \in Nat, data.frozen \in Nat,
         NEW deposit \in Nat, NEW locks, NEW head, ~IsAllLocked(locks, head)
  PROVE  LET t == Transferable(data, locks, head, deposit)
         IN  /\ t \in 0..data.free
             /\ t > 0 => /\ (data.free - t) + data.reserved >= data.frozen
                         /\ data.frozen + data.reserved > 0 => data.free - t >= deposit
             /\ t < data.free =>
                  ~(/\ (data.free - (t + 1)) + data.reserved >= data.frozen
                    /\ data.frozen + data.reserved > 0 => data.free - (t + 1) >= deposit)
<1> DEFINE free == data.free
           reserved == data.reserved
           frozen == data.frozen
           kept == IF frozen = 0 /\ reserved = 0 THEN 0 ELSE deposit
           least == IF kept > frozen - reserved THEN kept ELSE frozen - reserved
           t == Transferable(data, locks, head, deposit)
<1>1. t = IF 0 > free - least THEN 0 ELSE free - least
  BY DEF Transferable, Larger
<1>2. kept \in Nat /\ least \in Nat
  OBVIOUS
<1>3. free \in Nat /\ reserved \in Nat /\ frozen \in Nat
  OBVIOUS
<1>4. /\ t \in 0..free
      /\ t > 0 => /\ (free - t) + reserved >= frozen
                  /\ frozen + reserved > 0 => free - t >= deposit
      /\ t < free => ~(/\ (free - (t + 1)) + reserved >= frozen
                       /\ frozen + reserved > 0 => free - (t + 1) >= deposit)
  <2> HIDE DEF t, free, reserved, frozen
  <2> QED BY <1>1, <1>2, <1>3
<1> QED BY <1>4

\* An answer tells of the balance that was found.
LEMMA InfoIs ==
  ASSUME NEW at, NEW head, NEW token, NEW denominate,
         AccountBalanceInfo(at, head, token, denominate) # Error
  PROVE  LET told == AccountBalanceInfo(at, head, token, denominate)
             balance == BalanceOf(at, token)
             decimals == IF token \in DOMAIN at.decimals THEN at.decimals[token] ELSE Null
             shown == "frozen" \in DOMAIN balance.data /\ at.runtime # "freeBalance"
         IN  /\ balance # Error
             /\ told.free = InDenomination(denominate, balance.data.free, decimals)
             /\ told.transferable =
                  IF (IF shown THEN InDenomination(denominate, balance.data["frozen"], decimals)
                      ELSE Null) = Null THEN Null
                  ELSE InDenomination(denominate,
                         Transferable(balance.data, at.locks, head, at.existentialDeposit), decimals)
<1> DEFINE told == AccountBalanceInfo(at, head, token, denominate)
           balance == BalanceOf(at, token)
           decimals == IF token \in DOMAIN at.decimals THEN at.decimals[token] ELSE Null
           has(field) == field \in DOMAIN balance.data
           of(amount) == InDenomination(denominate, amount, decimals)
           told1(field) == IF has(field) /\ at.runtime # "freeBalance"
                           THEN of(balance.data[field]) ELSE Null
           refused == at.unread \/ (denominate /\ DOMAIN at.decimals = {}) \/ balance = Error
           answer == [token |-> token,
            free |-> of(balance.data.free), reserved |-> of(balance.data.reserved),
            frozen |-> told1("frozen"), miscFrozen |-> told1("miscFrozen"),
            feeFrozen |-> told1("feeFrozen"),
            transferable |->
              IF told1("frozen") = Null THEN Null
              ELSE of(Transferable(balance.data, at.locks, head, at.existentialDeposit)),
            locks |-> [k \in DOMAIN balance.locks |-> of(balance.locks[k].amount)]]
<1>1. told = IF refused THEN Error ELSE answer
  BY DEF AccountBalanceInfo
<1>2. ~refused /\ told = answer
  <2> HIDE DEF told, refused, answer
  <2>1. told # Error
    BY DEF told
  <2> QED BY <1>1, <2>1
<1>3. balance # Error
  BY <1>2
<1>4. /\ answer.free = of(balance.data.free)
      /\ answer.transferable =
           IF told1("frozen") = Null THEN Null
           ELSE of(Transferable(balance.data, at.locks, head, at.existentialDeposit))
  <2> HIDE DEF of, balance, told1
  <2> QED OBVIOUS
<1> HIDE DEF answer, told, refused
<1>5. /\ told.free = of(balance.data.free)
      /\ told.transferable =
           IF told1("frozen") = Null THEN Null
           ELSE of(Transferable(balance.data, at.locks, head, at.existentialDeposit))
  BY <1>2, <1>4
<1> QED BY <1>3, <1>5 DEF told

\* The balance of a token that is told.
LEMMA BalanceFound ==
  ASSUME NEW at \in BalanceStates, NEW token \in STRING, BalanceOf(at, token) # Error
  PROVE  /\ BalanceOf(at, token).data \in OldData \cup NewData
         /\ token = at.native => BalanceOf(at, token).data = at.data
         /\ at.runtime = "modern" /\ token # at.native =>
              BalanceOf(at, token).data = at.tokens[token].data
<1>1. /\ at.data \in OldData \cup NewData
      /\ \A t \in DOMAIN at.tokens : at.tokens[t].data \in NewData
  <2>1. at.tokens \in UNION {[D -> [data : NewData, locks : Locks]] : D \in SUBSET STRING}
    BY DEF BalanceStates
  <2>2. PICK D \in SUBSET STRING : at.tokens \in [D -> [data : NewData, locks : Locks]]
    BY <2>1
  <2>3. \A t \in DOMAIN at.tokens : at.tokens[t] \in [data : NewData, locks : Locks]
    BY <2>2
  <2>4. at.data \in OldData \cup NewData
    BY DEF BalanceStates
  <2> QED BY <2>3, <2>4
<1>2. CASE at.runtime = "modern" /\ token # at.native
  <2>1. token \in DOMAIN at.tokens /\ BalanceOf(at, token) = at.tokens[token]
    BY <1>2 DEF BalanceOf
  <2> QED BY <1>1, <1>2, <2>1
<1>3. CASE ~(at.runtime = "modern" /\ token # at.native)
  <2>1. BalanceOf(at, token) = [data |-> at.data, locks |-> at.locks]
    BY <1>3 DEF BalanceOf
  <2> QED BY <1>1, <1>3, <2>1
<1> QED BY <1>2, <1>3

LEMMA FrozenIsNew ==
  ASSUME NEW data \in OldData \cup NewData
  PROVE  /\ data.free \in Nat
         /\ "frozen" \in DOMAIN data => data \in NewData
BY DEF OldData, NewData

\* A lock of everything leaves nothing.
LEMMA NothingUnderLock ==
  ASSUME NEW data, NEW locks, NEW head, NEW deposit, IsAllLocked(locks, head)
  PROVE  Transferable(data, locks, head, deposit) = 0
BY DEF Transferable

LEMMA TransferableIsNumber ==
  ASSUME NEW data \in NewData, NEW locks, NEW head, NEW deposit \in Nat
  PROVE  Transferable(data, locks, head, deposit) \in 0..data.free
<1>1. data.free \in Nat /\ data.reserved \in Nat /\ data.frozen \in Nat
  BY DEF NewData
<1>2. CASE IsAllLocked(locks, head)
  BY <1>1, <1>2, NothingUnderLock
<1>3. CASE ~IsAllLocked(locks, head)
  BY <1>1, <1>3, TransferableIs
<1> QED BY <1>2, <1>3

LEMMA EveryTransferableSound ==
  ASSUME NEW at \in BalanceStates, NEW head \in Nat \cup {Null}
  PROVE  TransferableSound(at, head)
<1>0. PICK token : token = at.native
  OBVIOUS
<1> DEFINE told == AccountBalanceInfo(at, head, token, FALSE)
           t == Transferable(at.data, at.locks, head, at.existentialDeposit)
           allowed(amount) ==
             /\ (at.data.free - amount) + at.data.reserved >= at.data.frozen
             /\ at.data.frozen + at.data.reserved > 0 =>
                  at.data.free - amount >= at.existentialDeposit
<1> SUFFICES ASSUME told # Error, told.transferable # Null
             PROVE  /\ told.transferable \in 0..at.data.free
                    /\ told.transferable > 0 => allowed(told.transferable)
                    /\ head # Null =>
                         IF \E l \in ToSet(at.locks) : /\ l.amount = MaxAmount
                                                       /\ l.until = Null \/ l.until > head
                         THEN told.transferable = 0
                         ELSE told.transferable < at.data.free => ~allowed(told.transferable + 1)
  <2> QED BY <1>0 DEF TransferableSound
<1>1. /\ token \in STRING /\ at.existentialDeposit \in Nat
      /\ at.data \in OldData \cup NewData
  BY <1>0 DEF BalanceStates
<1>2. BalanceOf(at, token) # Error /\ BalanceOf(at, token).data = at.data
  <2>1. BalanceOf(at, token) # Error
    BY InfoIs
  <2> HIDE DEF told
  <2> QED BY <1>0, <1>1, <2>1, BalanceFound
<1>3. "frozen" \in DOMAIN at.data /\ told.transferable = t
  <2> DEFINE shown == "frozen" \in DOMAIN at.data /\ at.runtime # "freeBalance"
  <2>1. \A d : \A amount : InDenomination(FALSE, amount, d) = amount
    BY DEF InDenomination
  <2>2. told.transferable =
          IF (IF shown THEN at.data["frozen"] ELSE Null) = Null THEN Null ELSE t
    <3> DEFINE d == IF token \in DOMAIN at.decimals THEN at.decimals[token] ELSE Null
    <3>1. told.transferable =
            IF (IF shown THEN InDenomination(FALSE, at.data["frozen"], d) ELSE Null) = Null
            THEN Null ELSE InDenomination(FALSE, t, d)
      <4>1. LET balance == BalanceOf(at, token)
                sh == "frozen" \in DOMAIN balance.data /\ at.runtime # "freeBalance"
            IN  told.transferable =
                  IF (IF sh THEN InDenomination(FALSE, balance.data["frozen"], d) ELSE Null) = Null
                  THEN Null
                  ELSE InDenomination(FALSE,
                         Transferable(balance.data, at.locks, head, at.existentialDeposit), d)
        BY InfoIs
      <4> HIDE DEF d, told
      <4> QED BY <1>2, <4>1
    <3> HIDE DEF d, told, t, shown
    <3> QED BY <2>1, <3>1
  <2>3. shown
    <3> HIDE DEF told, t, shown
    <3> QED BY <2>2
  <2>4. at.data["frozen"] # Null
    <3>1. at.data \in NewData
      BY <1>1, <2>3, FrozenIsNew
    <3> QED BY <3>1, NullAssumption DEF NewData
  <2> HIDE DEF told, t
  <2> QED BY <2>2, <2>3, <2>4
<1>4. at.data \in NewData
  BY <1>1, <1>3, FrozenIsNew
<1>5. at.data.free \in Nat /\ at.data.reserved \in Nat /\ at.data.frozen \in Nat
  BY <1>4 DEF NewData
<1>6. head # Null =>
      (IsAllLocked(at.locks, head) <=>
        \E l \in ToSet(at.locks) : l.amount = MaxAmount /\ (l.until = Null \/ l.until > head))
  BY DEF IsAllLocked
<1> HIDE DEF told, t
<1>7. CASE IsAllLocked(at.locks, head)
  <2>1. t = 0
    BY <1>7, NothingUnderLock DEF t
  <2> QED BY <1>3, <1>5, <1>6, <1>7, <2>1
<1>8. CASE ~IsAllLocked(at.locks, head)
  <2>1. /\ t \in 0..at.data.free
        /\ t > 0 => allowed(t)
        /\ t < at.data.free => ~allowed(t + 1)
    <3>1. at.existentialDeposit \in Nat
      BY <1>1
    <3>2. LET u == Transferable(at.data, at.locks, head, at.existentialDeposit)
          IN  /\ u \in 0..at.data.free
              /\ u > 0 => allowed(u)
              /\ u < at.data.free => ~allowed(u + 1)
      BY <1>5, <1>8, <3>1, TransferableIs
    <3> QED BY <3>2 DEF t
  <2> HIDE DEF allowed
  <2> QED BY <1>3, <1>6, <1>8, <2>1
<1> QED BY <1>7, <1>8

LEMMA EveryTokenExact ==
  ASSUME NEW at \in BalanceStates, NEW head \in Nat \cup {Null}, NEW token \in STRING
  PROVE  TokenExact(at, head, token)
<1> DEFINE plain == AccountBalanceInfo(at, head, token, FALSE)
           denominated == AccountBalanceInfo(at, head, token, TRUE)
           balance == BalanceOf(at, token)
           d == IF token \in DOMAIN at.decimals THEN at.decimals[token] ELSE Null
           shown == "frozen" \in DOMAIN balance.data /\ at.runtime # "freeBalance"
           t == Transferable(balance.data, at.locks, head, at.existentialDeposit)
<1>1. d \in Nat \cup {Null} /\ at.existentialDeposit \in Nat
  <2>1. at.decimals \in UNION {[D -> Nat] : D \in SUBSET STRING}
    BY DEF BalanceStates
  <2>2. \A k \in DOMAIN at.decimals : at.decimals[k] \in Nat
    BY <2>1
  <2> QED BY <2>2 DEF BalanceStates
<1>2. ASSUME plain # Error
      PROVE  /\ balance # Error /\ plain.free = balance.data.free
             /\ plain.transferable =
                  IF (IF shown THEN balance.data["frozen"] ELSE Null) = Null THEN Null ELSE t
  <2>1. \A x : \A amount : InDenomination(FALSE, amount, x) = amount
    BY DEF InDenomination
  <2>2. /\ balance # Error
        /\ plain.free = InDenomination(FALSE, balance.data.free, d)
        /\ plain.transferable =
             IF (IF shown THEN InDenomination(FALSE, balance.data["frozen"], d) ELSE Null) = Null
             THEN Null ELSE InDenomination(FALSE, t, d)
    BY <1>2, InfoIs
  <2> HIDE DEF plain, balance, d, shown, t
  <2> QED BY <2>1, <2>2
<1>3. ASSUME denominated # Error
      PROVE  /\ denominated.free = Denominated(balance.data.free, d)
             /\ denominated.transferable =
                  IF (IF shown THEN Denominated(balance.data["frozen"], d) ELSE Null) = Null
                  THEN Null ELSE Denominated(t, d)
  <2>1. \A x : \A amount : InDenomination(TRUE, amount, x) = Denominated(amount, x)
    BY DEF InDenomination
  <2>2. /\ denominated.free = InDenomination(TRUE, balance.data.free, d)
        /\ denominated.transferable =
             IF (IF shown THEN InDenomination(TRUE, balance.data["frozen"], d) ELSE Null) = Null
             THEN Null ELSE InDenomination(TRUE, t, d)
    BY <1>3, InfoIs
  <2> HIDE DEF denominated, balance, d, shown, t
  <2> QED BY <2>1, <2>2
<1> HIDE DEF plain, denominated, balance, d
<1>4. ASSUME plain # Error, at.runtime = "modern"
      PROVE  plain.free = (IF token = at.native THEN at.data ELSE at.tokens[token].data).free
  BY <1>2, <1>4, BalanceFound DEF balance
<1>5. ASSUME plain # Error, denominated # Error
      PROVE  /\ denominated.transferable = Null <=> plain.transferable = Null
             /\ d # Null =>
                  /\ Denotes(denominated.free, plain.free, d)
                  /\ denominated.transferable # Null =>
                       Denotes(denominated.transferable, plain.transferable, d)
  <2>1. balance # Error /\ balance.data \in OldData \cup NewData
    BY <1>2, <1>5, BalanceFound DEF balance
  <2>2. balance.data.free \in Nat /\ ("frozen" \in DOMAIN balance.data => balance.data \in NewData)
    BY <2>1, FrozenIsNew
  <2>3. d # Null => Denotes(denominated.free, plain.free, d)
    <3>1. d # Null => Denotes(Denominated(balance.data.free, d), balance.data.free, d)
      BY <1>1, <2>2, DenominatedIs DEF Denotes
    <3> QED BY <1>2, <1>3, <1>5, <3>1
  <2>4. CASE ~shown
    BY <1>2, <1>3, <1>5, <2>3, <2>4
  <2>5. CASE shown
    <3>1. balance.data \in NewData
      BY <2>2, <2>5
    <3>2. balance.data["frozen"] \in Nat /\ balance.data["frozen"] # Null
      BY <3>1, NullAssumption DEF NewData
    <3>3. t \in Nat /\ t # Null
      <4>1. t \in 0..balance.data.free
        BY <1>1, <3>1, TransferableIsNumber
      <4> HIDE DEF t
      <4> QED BY <2>2, <4>1, NullAssumption
    <3> HIDE DEF t
    <3>4. /\ Denominated(balance.data["frozen"], d) # Null
          /\ Denominated(t, d) # Null /\ (d # Null => Denotes(Denominated(t, d), t, d))
      <4>1. /\ Denominated(balance.data["frozen"], d) \in Denominations
            /\ Denominated(t, d) \in Denominations
            /\ d # Null => Denotes(Denominated(t, d), t, d)
        BY <1>1, <3>2, <3>3, DenominatedIs DEF Denotes
      <4> QED BY <4>1, DenominationAssumption
    <3>5. plain.transferable = t
      BY <1>2, <1>5, <2>5, <3>2
    <3>6. denominated.transferable = Denominated(t, d)
      BY <1>3, <1>5, <2>5, <3>4
    <3> QED BY <2>3, <3>3, <3>4, <3>5, <3>6
  <2> QED BY <2>4, <2>5
<1>6. token \in DOMAIN at.decimals => d = at.decimals[token] /\ d # Null
  <2>1. at.decimals \in UNION {[D -> Nat] : D \in SUBSET STRING}
    BY DEF BalanceStates
  <2>2. \A k \in DOMAIN at.decimals : at.decimals[k] \in Nat
    BY <2>1
  <2> QED BY <2>2, NullAssumption DEF d
<1> QED BY <1>4, <1>5, <1>6 DEF TokenExact, plain, denominated

-----------------------------------------------------------------------------

LEMMA EveryAddressCompared ==
  ASSUME NEW S, NEW addresses \in Seq(AddressesOf(S))
  PROVE  ComparedSoundly(addresses)
<1> DEFINE all == ToSet(addresses)
           equal == \A a \in all : AccountOf(a) = AccountOf(addresses[1])
           same == \A a, b \in all : a.account = b.account
           plain == \A a \in all : a.kind = "ss58" \/ ~(a.long \/ a.upper)
           ethereum == {a \in all : a.kind = "ethereum"}
<1> SUFFICES ASSUME Compared(addresses) # Error
             PROVE  /\ equal => same \/ all = ethereum
                    /\ same /\ plain /\ ethereum = {} => equal
  <2>1. Compared(addresses) # Error => Compared(addresses) = [areEqual |-> equal]
    BY DEF Compared
  <2> QED BY <2>1 DEF ComparedSoundly
<1>1. /\ Len(addresses) \in 2..MaxAddresses
      /\ \A a \in all : a.kind # "malformed"
  BY DEF Compared, AddressAccepted
<1>2. /\ \A a \in all : a \in AddressesOf(S)
      /\ addresses[1] \in all
  BY <1>1 DEF ToSet
<1>3. \A a \in all : /\ a.kind \in {"ss58", "hex", "ethereum"}
                     /\ a.long \in BOOLEAN /\ a.upper \in BOOLEAN
  BY <1>1, <1>2 DEF AddressesOf
<1> DEFINE account(a) == IF a.kind = "ss58" THEN [id |-> a.account, long |-> FALSE, upper |-> FALSE]
                         ELSE [id |-> a.account, long |-> a.long, upper |-> a.upper]
<1>4. \A a \in all : AccountOf(a) = IF a.kind = "ethereum" THEN {} ELSE {account(a)}
  BY <1>3 DEF AccountOf
<1>5. \A a, b : account(a) = account(b) => a.account = b.account
  <2> TAKE a, b
  <2> HAVE account(a) = account(b)
  <2>1. account(a).id = a.account /\ account(b).id = b.account
    OBVIOUS
  <2> HIDE DEF account
  <2> QED BY <2>1
<1> HIDE DEF all
<1>6. ASSUME equal PROVE same \/ all = ethereum
  <2> DEFINE first == addresses[1]
  <2>1. CASE first.kind = "ethereum"
    <3>1. \A a \in all : a.kind = "ethereum"
      <4> TAKE a \in all
      <4>1. AccountOf(a) = {}
        BY <1>2, <1>4, <1>6, <2>1
      <4> HIDE DEF account
      <4>2. AccountOf(a) = IF a.kind = "ethereum" THEN {} ELSE {account(a)}
        BY <1>4
      <4> QED BY <4>1, <4>2
    <3> QED BY <3>1
  <2>2. CASE first.kind # "ethereum"
    <3>1. \A a \in all : a.account = first.account
      <4> TAKE a \in all
      <4>1. AccountOf(first) = {account(first)}
        BY <1>2, <1>4, <2>2
      <4>2. AccountOf(a) = {account(first)}
        BY <1>6, <4>1
      <4> HIDE DEF account, first
      <4>3. account(a) = account(first)
        <5>1. AccountOf(a) = IF a.kind = "ethereum" THEN {} ELSE {account(a)}
          BY <1>4
        <5> QED BY <4>2, <5>1
      <4> QED BY <1>5, <4>3
    <3> QED BY <3>1
  <2> QED BY <2>1, <2>2
<1>7. ASSUME same, plain, ethereum = {} PROVE equal
  <2> TAKE a \in all
  <2> DEFINE b == addresses[1]
  <2>1. b \in all /\ a.account = b.account /\ a.kind # "ethereum" /\ b.kind # "ethereum"
    BY <1>2, <1>7
  <2>2. \A x \in {a, b} : account(x) = [id |-> x.account, long |-> FALSE, upper |-> FALSE]
    <3> TAKE x \in {a, b}
    <3>1. x \in all
      BY <2>1
    <3>2. x.kind = "ss58" \/ (x.long = FALSE /\ x.upper = FALSE)
      BY <1>3, <1>7, <3>1
    <3> QED BY <3>2
  <2> HIDE DEF b, account
  <2> QED BY <1>4, <2>1, <2>2 DEF b
<1> QED BY <1>6, <1>7

-----------------------------------------------------------------------------

\* What is kept at the same places of two sequences of one length.
Matched(r, q, s, t) ==
  /\ Len(r) = Len(q)
  /\ \A i \in 1..Len(r) : \E k \in 1..Len(s) : r[i] = s[k] /\ q[i] = t[k]

LEMMA KeptTogether ==
  ASSUME NEW T, NEW U, NEW s \in Seq(T), NEW t \in Seq(U), NEW places, Len(s) = Len(t)
  PROVE  /\ Kept(s, places) \in Seq(T) /\ Kept(t, places) \in Seq(U)
         /\ Matched(Kept(s, places), Kept(t, places), s, t)
<1>1. PICK at : /\ Lists(at, Len(Kept(s, places)), places, Len(s))
                /\ \A i \in 1..Len(Kept(s, places)) : Kept(s, places)[i] = s[at[i]]
  BY KeptIsListed
<1>2. PICK other : /\ Lists(other, Len(Kept(t, places)), places, Len(t))
                   /\ \A i \in 1..Len(Kept(t, places)) : Kept(t, places)[i] = t[other[i]]
  BY KeptIsListed
<1>3. Len(Kept(s, places)) = Len(Kept(t, places)) /\ at = other
  <2> DEFINE n == Len(s)
             a == Len(Kept(s, places))
             b == Len(Kept(t, places))
  <2>1. n \in Nat /\ Lists(at, a, places, n) /\ Lists(other, b, places, n)
    BY <1>1, <1>2
  <2> HIDE DEF n, a, b
  <2>2. a = b /\ at = other
    BY <2>1, ListedOnce
  <2> QED BY <2>2 DEF a, b
<1>4. \A i \in 1..Len(Kept(s, places)) : at[i] \in 1..Len(s)
  BY <1>1 DEF Lists
<1>5. Kept(s, places) \in Seq(T) /\ Kept(t, places) \in Seq(U)
  BY KeptIsListed
<1>6. \A i \in 1..Len(Kept(s, places)) :
        Kept(s, places)[i] = s[at[i]] /\ Kept(t, places)[i] = t[at[i]]
  BY <1>1, <1>2, <1>3
<1>7. Matched(Kept(s, places), Kept(t, places), s, t)
  BY <1>3, <1>4, <1>6 DEF Matched
<1> QED BY <1>5, <1>7

LEMMA EveryAssetTold ==
  ASSUME NEW A, NEW assets \in Seq(A), NEW ids \in Seq(A),
         NEW accounts \in [A -> StoredBalances \cup {Null}]
  PROVE  AssetsComplete(assets, accounts, ids)
<1> DEFINE asked == IF ids = <<>> THEN assets ELSE ids
           balance(id) == IF accounts[id] = Null THEN 0 ELSE accounts[id].balance
           told(unknown) == QueryAssets(accounts, asked, unknown)
           foreign == ForeignAssetBalances(assets, accounts, ids)
<1>1. /\ asked \in Seq(A) /\ DOMAIN asked = 1..Len(asked) /\ Len(asked) \in Nat
      /\ \A k \in DOMAIN asked : asked[k] \in A
  OBVIOUS
<1> HIDE DEF asked
<1>2. \A id : \A unknown :
        /\ AssetBalance(id, accounts[id], unknown).asset = id
        /\ AssetBalance(id, accounts[id], unknown).balance = balance(id)
  BY DEF AssetBalance
<1>3. \A unknown : /\ DOMAIN told(unknown) = 1..Len(asked)
                   /\ \A k \in 1..Len(asked) : /\ told(unknown)[k].asset = asked[k]
                                               /\ told(unknown)[k].balance = balance(asked[k])
  <2> TAKE unknown
  <2>1. told(unknown) = [k \in 1..Len(asked) |->
                           AssetBalance(asked[k], accounts[asked[k]], unknown)]
    BY <1>1 DEF QueryAssets
  <2>2. DOMAIN told(unknown) = 1..Len(asked)
    BY <2>1
  <2>3. \A k \in 1..Len(asked) :
          told(unknown)[k] = AssetBalance(asked[k], accounts[asked[k]], unknown)
    BY <2>1
  <2> HIDE DEF balance, told
  <2>4. ASSUME NEW k \in 1..Len(asked)
        PROVE  told(unknown)[k].asset = asked[k] /\ told(unknown)[k].balance = balance(asked[k])
    <3>1. told(unknown)[k] = AssetBalance(asked[k], accounts[asked[k]], unknown)
      BY <2>3
    <3> QED BY <1>2, <3>1
  <2> QED BY <2>2, <2>4
<1>4. AssetBalances(assets, accounts, ids) = told(Null)
  BY DEF AssetBalances, asked
<1>5. /\ [k \in DOMAIN told(Null) |-> told(Null)[k].asset] = asked
      /\ \A k \in DOMAIN told(Null) : told(Null)[k].balance = balance(asked[k])
  <2>1. asked = [k \in 1..Len(asked) |-> asked[k]]
    BY <1>1
  <2> HIDE DEF told, balance
  <2>2. [k \in DOMAIN told(Null) |-> told(Null)[k].asset] = [k \in 1..Len(asked) |-> asked[k]]
    <3> DEFINE t == told(Null)
    <3>1. DOMAIN t = 1..Len(asked) /\ \A k \in 1..Len(asked) : t[k].asset = asked[k]
      BY <1>3
    <3> HIDE DEF t
    <3>2. [k \in DOMAIN t |-> t[k].asset] = [k \in 1..Len(asked) |-> asked[k]]
      BY <3>1
    <3> QED BY <3>2 DEF t
  <2> QED BY <1>3, <2>1, <2>2
<1> DEFINE all == told(FALSE)
           places == {k \in 1..Len(asked) : balance(asked[k]) # 0}
<1>6. \A id \in A : balance(id) \in Nat
  BY DEF StoredBalances
<1>7. foreign = Kept(all, places)
  <2>1. foreign = Kept(all, {k \in DOMAIN all : all[k].balance # 0})
    BY DEF ForeignAssetBalances, asked
  <2> HIDE DEF told, balance, foreign
  <2>2. {k \in DOMAIN all : all[k].balance # 0} = places
    BY <1>3
  <2> QED BY <2>1, <2>2
<1>8. Kept(asked, {k \in DOMAIN asked : balance(asked[k]) > 0}) = Kept(asked, places)
  <2> HIDE DEF balance
  <2>1. {k \in DOMAIN asked : balance(asked[k]) > 0} = places
    BY <1>1, <1>6
  <2> QED BY <2>1
<1> DEFINE T == {all[k] : k \in 1..Len(asked)}
<1>9. all \in Seq(T) /\ Len(all) = Len(asked)
  <2> HIDE DEF told
  <2>1. all = [k \in 1..Len(asked) |-> all[k]]
    BY <1>3 DEF told, QueryAssets
  <2> DEFINE a == all
  <2>2. \A k \in 1..Len(asked) : a[k] \in T
    OBVIOUS
  <2> HIDE DEF all, T, a
  <2>3. a = [k \in 1..Len(asked) |-> a[k]]
    BY <2>1 DEF a
  <2> QED BY <1>1, <2>2, <2>3 DEF a
<1> HIDE DEF all, T, places, balance, told
<1>10. /\ foreign \in Seq(T) /\ Kept(asked, places) \in Seq(A)
       /\ Len(foreign) = Len(Kept(asked, places))
       /\ \A i \in 1..Len(foreign) :
            \E k \in 1..Len(all) : foreign[i] = all[k] /\ Kept(asked, places)[i] = asked[k]
  <2>1. /\ Kept(all, places) \in Seq(T) /\ Kept(asked, places) \in Seq(A)
        /\ Matched(Kept(all, places), Kept(asked, places), all, asked)
    BY <1>1, <1>9, KeptTogether
  <2> QED BY <1>7, <2>1 DEF Matched
<1>11. \A i \in 1..Len(foreign) : foreign[i].asset = Kept(asked, places)[i]
  <2> TAKE i \in 1..Len(foreign)
  <2>1. PICK k \in 1..Len(all) : foreign[i] = all[k] /\ Kept(asked, places)[i] = asked[k]
    BY <1>10
  <2>2. all[k].asset = asked[k]
    BY <1>3, <1>9 DEF all
  <2> QED BY <2>1, <2>2
<1>12. [k \in DOMAIN foreign |-> foreign[k].asset] = Kept(asked, places)
  <2> HIDE DEF foreign
  <2>1. DOMAIN foreign = 1..Len(foreign) /\ DOMAIN Kept(asked, places) = 1..Len(foreign)
    BY <1>10
  <2>2. Kept(asked, places) = [k \in 1..Len(foreign) |-> Kept(asked, places)[k]]
    BY <1>10
  <2> QED BY <1>11, <2>1, <2>2
<1> QED
  BY <1>4, <1>5, <1>8, <1>12 DEF AssetsComplete, asked, balance, told

\* fetchAccountBalanceInfo and the asset routes, for every account; and the
\* comparison of addresses, for any number of them.
THEOREM EveryHoldingExact ==
  ASSUME NEW accounts, NEW assets, input \in HoldingInputs(accounts, assets)
  PROVE  HoldingsExact
<1>1. ASSUME Is("balance")
      PROVE  TransferableSound(input.at, input.head) /\ TokenExact(input.at, input.head, input.token)
  <2>1. input.at \in BalanceStates /\ input.head \in Nat \cup {Null} /\ input.token \in STRING
    BY <1>1 DEF HoldingInputs, Is
  <2> QED BY <2>1, EveryTransferableSound, EveryTokenExact
<1>2. ASSUME Is("denomination") PROVE DenominationExact(input.balance, input.decimals)
  <2>1. input.balance \in Nat /\ input.decimals \in Nat \cup {Null}
    BY <1>2 DEF HoldingInputs, Is
  <2> QED BY <2>1, EveryDenominationExact
<1>3. ASSUME Is("assets") PROVE AssetsComplete(input.assets, input.accounts, input.ids)
  <2>1. /\ input.assets \in Seq(assets) /\ input.ids \in Seq(assets)
        /\ input.accounts \in [assets -> StoredBalances \cup {Null}]
    BY <1>3 DEF HoldingInputs, Is
  <2> QED BY <2>1, EveryAssetTold
<1>4. ASSUME Is("addresses") PROVE ComparedSoundly(input.addresses)
  <2>1. input.addresses \in Seq(AddressesOf(accounts))
    BY <1>4 DEF HoldingInputs, Is
  <2> QED BY <2>1, EveryAddressCompared
<1> QED BY <1>1, <1>2, <1>3, <1>4 DEF HoldingsExact

-----------------------------------------------------------------------------
(* Parachains *)

\* Leases and auctions, of any holders and bids: the pallet keeps a bid, or none,
\* of each range for each sample of the ending period.
ParaInputs(holders, bids) ==
  [kind : {"leases"}, now : Nat, leases : Seq(holders \cup {Null})]
    \cup [kind : {"auction"}, now : Nat, auction : (Nat \X Nat) \cup {Null},
          winningAt : [0..(EndingPeriod \div SampleLength - 1) ->
                         [1..Cardinality(SlotRanges) -> bids]]]

LEMMA WholePeriods ==
  ASSUME NEW x \in Nat, NEW d \in Nat \ {0}, NEW m \in Nat
  PROVE  (x + m * d) \div d = x \div d + m
<1> DEFINE q == x \div d
           r == x - q * d
<1>1. q \in Nat /\ r \in 0..(d - 1) /\ x = q * d + r
  <2>1. x \div d \in Nat /\ (x \div d) * d <= x /\ x < (x \div d) * d + d
    BY Division
  <2> QED BY <2>1
<1>2. q + m \in Int /\ x + m * d = (q + m) * d + r
  <2>1. q \in Int /\ x = q * d + r
    BY <1>1
  <2> HIDE DEF q, r
  <2>2. (q + m) * d = q * d + m * d
    BY <2>1
  <2>3. q * d \in Int /\ m * d \in Int /\ r \in Int
    BY <1>1, <2>1
  <2> QED BY <2>1, <2>2, <2>3
<1> HIDE DEF q, r
<1>3. ((q + m) * d + r) \div d = q + m
  BY <1>1, <1>2, QuotientOf
<1> QED BY <1>2, <1>3 DEF q

\* The k-th lease is held in the k-th period.
LEMMA EveryLeaseExact ==
  ASSUME NEW now \in Nat, NEW T, NEW leases \in Seq(T)
  PROVE  LeasePeriodsExact(now, leases)
<1> DEFINE x == now - LeaseOffset
           d == LeasePeriod
           index == LeasePeriodIndexAt(now)
           end == EndOfLeasePeriod(now)
           places == {i \in DOMAIN leases : leases[i] # Null}
           all == [i \in DOMAIN leases |-> i]
           held == Kept(all, places)
           formatted == LeasesFormatted(now, leases)
<1> SUFFICES ASSUME now >= LeaseOffset
             PROVE  /\ now < end /\ end - LeasePeriod <= now
                    /\ end = LeaseOffset + (index + 1) * LeasePeriod
                    /\ \A k \in DOMAIN leases : leases[k] # Null =>
                         \E j \in DOMAIN formatted :
                           formatted[j] = [leasePeriodIndex |->
                                             LeasePeriodIndexAt(now + (k - 1) * LeasePeriod),
                                           account |-> leases[k]]
  BY DEF LeasePeriodsExact
<1>1. d \in Nat \ {0} /\ LeaseOffset \in Nat /\ x \in Nat
  BY ConstsAssumption
<1>2. index = x \div d
  BY <1>1 DEF LeasePeriodIndexAt
<1>3. index \in Nat /\ index * d <= x /\ x < index * d + d /\ index # Null
  <2>1. x \div d \in Nat /\ (x \div d) * d <= x /\ x < (x \div d) * d + d
    <3> HIDE DEF x, d
    <3> QED BY <1>1, Division
  <2> HIDE DEF x, d, index
  <2> QED BY <1>2, <2>1, NullAssumption
<1>4. end = index * d + d + LeaseOffset
  <2> HIDE DEF index
  <2> QED BY <1>3 DEF EndOfLeasePeriod, index
<1>5. now < end /\ end - d <= now /\ end = LeaseOffset + (index + 1) * d
  <2>1. (index + 1) * d = index * d + d /\ index * d \in Int
    <3> HIDE DEF index, d
    <3> QED BY <1>1, <1>3
  <2> DEFINE y == index * d
  <2>2. now = x + LeaseOffset
    BY <1>1
  <2> HIDE DEF x, y, d, index, end
  <2>3. y \in Int /\ (index + 1) * d = y + d /\ end = y + d + LeaseOffset /\ y <= x /\ x < y + d
    BY <1>3, <1>4, <2>1 DEF y
  <2> QED BY <1>1, <2>2, <2>3
<1>6. ASSUME NEW k \in DOMAIN leases, leases[k] # Null
      PROVE  \E j \in DOMAIN formatted :
               formatted[j] = [leasePeriodIndex |-> LeasePeriodIndexAt(now + (k - 1) * LeasePeriod),
                               account |-> leases[k]]
  <2>1. k \in 1..Len(leases) /\ k \in places /\ leases # <<>>
    BY <1>6
  <2>2. all \in Seq(1..Len(leases)) /\ Len(all) = Len(leases)
    OBVIOUS
  <2>3. PICK at : /\ Lists(at, Len(held), places, Len(leases))
                  /\ \A i \in 1..Len(held) : held[i] = all[at[i]]
    <3> HIDE DEF all, places
    <3> QED BY <2>2, KeptIsListed
  <2>4. PICK j \in 1..Len(held) : at[j] = k
    <3> HIDE DEF held, places
    <3> QED BY <2>1, <2>3 DEF Lists
  <2>5. held[j] = k
    <3>1. held[j] = all[k]
      <4> HIDE DEF held, all
      <4> QED BY <2>3, <2>4
    <3>2. all[k] = k
      BY <2>1
    <3> HIDE DEF held, all
    <3> QED BY <3>1, <3>2
  <2>6. j \in DOMAIN held
    <3>1. held \in Seq(1..Len(leases))
      <4> HIDE DEF all, places
      <4> QED BY <2>2, KeptIsListed
    <3> HIDE DEF held
    <3> QED BY <3>1
  <2>7. formatted = [i \in DOMAIN held |->
                       [leasePeriodIndex |-> IF index = Null THEN Null ELSE index + held[i] - 1,
                        account |-> leases[held[i]]]]
    BY <2>1 DEF LeasesFormatted
  <2>8. formatted[j] = [leasePeriodIndex |-> index + k - 1, account |-> leases[k]]
        /\ j \in DOMAIN formatted
    <3> HIDE DEF held, formatted, index
    <3> QED BY <1>3, <2>5, <2>6, <2>7
  <2>9. LeasePeriodIndexAt(now + (k - 1) * d) = index + k - 1
    <3>1. k - 1 \in Nat /\ (k - 1) * d \in Nat
      <4>1. k - 1 \in Nat
        BY <2>1
      <4> DEFINE m == k - 1
      <4> HIDE DEF m, d
      <4>2. m * d \in Nat
        BY <1>1, <4>1 DEF m
      <4> QED BY <4>1, <4>2 DEF m
    <3> DEFINE y == (k - 1) * d
    <3>2. (x + y) \div d = x \div d + (k - 1)
      <4> HIDE DEF x, d
      <4> QED BY <1>1, <3>1, WholePeriods DEF y
    <3>3. ~(now + y < LeaseOffset) /\ (now + y) - LeaseOffset = x + y
      <4> HIDE DEF d
      <4>1. y \in Nat
        BY <3>1 DEF y
      <4> HIDE DEF y
      <4> QED BY <1>1, <4>1
    <3>4. LeasePeriodIndexAt(now + y) = (x + y) \div d
      <4> HIDE DEF x, y
      <4> QED BY <3>3 DEF LeasePeriodIndexAt
    <3>5. x \div d + (k - 1) = index + k - 1
      <4> HIDE DEF x, d, index
      <4> QED BY <1>2, <1>3, <2>1
    <3> QED BY <3>2, <3>4, <3>5
  <2> HIDE DEF formatted, index
  <2> QED BY <2>8, <2>9
<1> HIDE DEF formatted, end, index
<1> QED BY <1>5, <1>6 DEF end, index, formatted, d

-----------------------------------------------------------------------------

\* FlattenSeq appends one sequence after the other.
AppendsAll(p, ss, n) ==
  p[0] = <<>> /\ \A m \in 1..n : p[m] = p[m - 1] \o ss[m]

FlattenedBy(p, ss, n, T) ==
  p \in [0..n -> Seq(T)] /\ AppendsAll(p, ss, n) /\ FlattenSeq(ss) = p[n]

IsFlattened(ss, n, T) == \E p : FlattenedBy(p, ss, n, T)

LEMMA FlattenStepwise ==
  ASSUME NEW T, NEW n \in Nat \ {0}, NEW ss \in [1..n -> Seq(T)]
  PROVE  IsFlattened(ss, n, T)
<1> DEFINE step == [m \in 1..n |-> [t \in Seq(T) |-> t \o ss[m]]]
           Fits(f) == f = [m \in 1..n |-> IF m = 1 THEN ss[m] ELSE f[m - 1] \o ss[m]]
<1>1. <<>> \in Seq(T) /\ step \in [1..n -> [Seq(T) -> Seq(T)]] /\ Len(ss) = n
  OBVIOUS
<1>2. \E f \in [0..n -> Seq(T)] : f[0] = <<>> /\ \A m \in 1..n : f[m] = step[m][f[m - 1]]
  <2> DEFINE U == Seq(T)
  <2> HIDE DEF step, U
  <2>1. <<>> \in U /\ n \in Nat
    BY <1>1 DEF U
  <2>2. AreSteps(step, n, U)
    BY <1>1 DEF U, AreSteps
  <2>3. HasSteps(U, <<>>, n, step)
    BY <2>1, <2>2, StepsOf
  <2> QED BY <2>3 DEF U, HasSteps
<1>3. PICK p \in [0..n -> Seq(T)] : p[0] = <<>> /\ \A m \in 1..n : p[m] = step[m][p[m - 1]]
  BY <1>2
<1>4. \A m \in 1..n : p[m] = p[m - 1] \o ss[m]
  <2> TAKE m \in 1..n
  <2>1. m - 1 \in 0..n
    OBVIOUS
  <2>2. p[m - 1] \in Seq(T)
    BY <1>3, <2>1
  <2> QED BY <1>3, <2>2
<1> DEFINE f == [m \in 1..n |-> p[m]]
<1>5. Fits(f)
  <2>1. \A m \in 1..n : f[m] = IF m = 1 THEN ss[m] ELSE f[m - 1] \o ss[m]
    <3> TAKE m \in 1..n
    <3>1. CASE m = 1
      <4>1. p[1] = p[0] \o ss[1] /\ p[0] = <<>> /\ ss[1] \in Seq(T)
        <5>1. 1 \in 1..n /\ 1 - 1 = 0
          OBVIOUS
        <5>2. p[1] = p[1 - 1] \o ss[1]
          BY <1>4, <5>1, Zenon
        <5> QED BY <1>3, <5>1, <5>2
      <4>2. p[1] = ss[1]
        BY <4>1
      <4> QED BY <3>1, <4>2
    <3>2. CASE m # 1
      <4>1. m - 1 \in 1..n
        BY <3>2
      <4> QED BY <1>4, <3>2, <4>1
    <3> QED BY <3>1, <3>2
  <2>2. f = [m \in 1..n |-> f[m]]
    OBVIOUS
  <2> HIDE DEF f
  <2> QED BY <2>1, <2>2
<1>6. FlattenSeq(ss) = (CHOOSE g : Fits(g))[n]
  BY <1>1 DEF FlattenSeq
<1> HIDE DEF f
<1>7. PICK g : Fits(g) /\ FlattenSeq(ss) = g[n]
  <2> HIDE DEF Fits
  <2> QED BY <1>5, <1>6
<1>8. \A m \in 1..n : g[m] = IF m = 1 THEN ss[m] ELSE g[m - 1] \o ss[m]
  BY <1>7
<1>9. \A m \in 1..n : f[m] = IF m = 1 THEN ss[m] ELSE f[m - 1] \o ss[m]
  BY <1>5
<1>10. n \in 1..n => g[n] = f[n]
  <2> DEFINE Same == {m \in Nat : m \in 1..n => g[m] = f[m]}
  <2>1. 0 \in Same
    OBVIOUS
  <2>2. ASSUME NEW m \in Nat, m \in Same PROVE m + 1 \in Same
    <3> SUFFICES ASSUME m + 1 \in 1..n PROVE g[m + 1] = f[m + 1]
      OBVIOUS
    <3>1. CASE m = 0
      <4>1. 1 \in 1..n
        OBVIOUS
      <4>2. g[1] = ss[1] /\ f[1] = ss[1]
        BY <1>8, <1>9, <4>1
      <4> QED BY <3>1, <4>2
    <3>2. CASE m # 0
      <4>1. m \in 1..n /\ m + 1 # 1 /\ (m + 1) - 1 = m
        BY <3>2
      <4>2. g[m] = f[m]
        BY <2>2, <4>1
      <4>3. g[m + 1] = g[m] \o ss[m + 1] /\ f[m + 1] = f[m] \o ss[m + 1]
        BY <1>8, <1>9, <4>1
      <4> QED BY <4>2, <4>3
    <3> QED BY <3>1, <3>2
  <2>3. Nat \subseteq Same
    <3> HIDE DEF Same
    <3> QED BY <2>1, <2>2, SetInduction
  <2> QED BY <2>3
<1>11. g[n] = p[n]
  BY <1>10 DEF f
<1>12. AppendsAll(p, ss, n)
  BY <1>3, <1>4 DEF AppendsAll
<1> QED BY <1>3, <1>7, <1>11, <1>12 DEF IsFlattened, FlattenedBy

AreSequences(ss, n, T) == ss \in [1..n -> Seq(T)]

LEMMA FlattenOf ==
  ASSUME NEW T, NEW n, n \in Nat \ {0}, NEW ss, AreSequences(ss, n, T)
  PROVE  IsFlattened(ss, n, T)
BY FlattenStepwise DEF AreSequences

-----------------------------------------------------------------------------
(* The order of the ranges. *)

RangesBelow(m) == {r \in SlotRanges : r[1] < m}

LEMMA RangesAreFinite ==
  /\ IsFiniteSet(SlotRanges)
  /\ \A m : IsFiniteSet(RangesBelow(m))
  /\ \A r : IsFiniteSet(RangesBefore(r))
<1> DEFINE I == 0..(LeasePeriodsPerSlot - 1)
<1>1. IsFiniteSet(I)
  <2>1. LeasePeriodsPerSlot - 1 \in Int
    BY ConstsAssumption
  <2> QED BY <2>1, FS_Interval
<1>2. IsFiniteSet(I \X I)
  <2> HIDE DEF I
  <2> QED BY <1>1, FS_Product
<1>3. SlotRanges \in SUBSET (I \X I)
  BY DEF SlotRanges
<1>4. IsFiniteSet(SlotRanges)
  <2> HIDE DEF I
  <2> QED BY <1>2, <1>3, FS_Subset
<1>5. \A m : RangesBelow(m) \in SUBSET SlotRanges
  BY DEF RangesBelow
<1>6. \A r : RangesBefore(r) \in SUBSET SlotRanges
  BY DEF RangesBefore
<1> QED BY <1>4, <1>5, <1>6, FS_Subset

\* A range is made out by how many come before it.
LEMMA RangesDiffer ==
  ASSUME NEW r \in SlotRanges, NEW q \in SlotRanges,
         Cardinality(RangesBefore(r)) = Cardinality(RangesBefore(q))
  PROVE  r = q
<1>1. /\ r[1] \in Int /\ r[2] \in Int /\ q[1] \in Int /\ q[2] \in Int
      /\ r = <<r[1], r[2]>> /\ q = <<q[1], q[2]>>
      /\ \A p \in SlotRanges : p[1] \in Int /\ p[2] \in Int
  BY DEF SlotRanges
<1>2. ASSUME NEW a \in SlotRanges, NEW b \in SlotRanges, a \in RangesBefore(b)
      PROVE  Cardinality(RangesBefore(a)) < Cardinality(RangesBefore(b))
  <2>1. a[1] \in Int /\ a[2] \in Int /\ b[1] \in Int /\ b[2] \in Int
    BY <1>1
  <2>2. a[1] < b[1] \/ (a[1] = b[1] /\ a[2] < b[2])
    BY <1>2 DEF RangesBefore
  <2>3. a \notin RangesBefore(a)
    BY <2>1 DEF RangesBefore
  <2>4. RangesBefore(a) \cup {a} \in SUBSET RangesBefore(b)
    <3>1. ASSUME NEW p \in RangesBefore(a) PROVE p \in RangesBefore(b)
      <4>1. p \in SlotRanges /\ (p[1] < a[1] \/ (p[1] = a[1] /\ p[2] < a[2]))
        BY <3>1 DEF RangesBefore
      <4>2. p[1] \in Int /\ p[2] \in Int
        BY <1>1, <4>1
      <4> QED BY <2>1, <2>2, <4>1, <4>2 DEF RangesBefore
    <3> QED BY <1>2, <3>1
  <2>5. IsFiniteSet(RangesBefore(a)) /\ IsFiniteSet(RangesBefore(b))
    BY RangesAreFinite
  <2>6. Cardinality(RangesBefore(a) \cup {a}) = Cardinality(RangesBefore(a)) + 1
    BY <2>3, <2>5, FS_AddElement
  <2>7. Cardinality(RangesBefore(a) \cup {a}) <= Cardinality(RangesBefore(b))
    BY <2>4, <2>5, FS_Subset
  <2>8. Cardinality(RangesBefore(a)) \in Nat /\ Cardinality(RangesBefore(b)) \in Nat
    BY <2>5, FS_CardinalityType
  <2> QED BY <2>6, <2>7, <2>8
<1>3. r # q => r \in RangesBefore(q) \/ q \in RangesBefore(r)
  BY <1>1 DEF RangesBefore
<1>4. Cardinality(RangesBefore(r)) \in Nat /\ Cardinality(RangesBefore(q)) \in Nat
  BY RangesAreFinite, FS_CardinalityType
<1>5. ~(r \in RangesBefore(q)) /\ ~(q \in RangesBefore(r))
  BY <1>2, <1>4
<1> QED BY <1>3, <1>5

\* The ranges that begin with one period, up to one of them.
Row(m, n) == {<<m, j>> : j \in m..(m + n - 1)}

LEMMA RowIs ==
  ASSUME NEW m \in Nat, NEW n \in Nat
  PROVE  IsFiniteSet(Row(m, n)) /\ Cardinality(Row(m, n)) = n
<1> DEFINE I == m..(m + n - 1)
           f == [j \in I |-> <<m, j>>]
<1>1. IsFiniteSet(I) /\ Cardinality(I) = n
  <2>1. m \in Int /\ m + n - 1 \in Int
    OBVIOUS
  <2>2. IsFiniteSet(I) /\ Cardinality(I) = IF m > m + n - 1 THEN 0 ELSE (m + n - 1) - m + 1
    BY <2>1, FS_Interval
  <2> HIDE DEF I
  <2> QED BY <2>2
<1>2. ExistsBijection(I, Row(m, n))
  <2>1. f \in [I -> Row(m, n)]
    BY DEF Row
  <2>2. \A i, j \in I : f[i] = f[j] => i = j
    OBVIOUS
  <2>3. \A t \in Row(m, n) : \E j \in I : f[j] = t
    BY DEF Row
  <2>4. f \in Bijection(I, Row(m, n))
    <3> HIDE DEF f, I
    <3> QED BY <2>1, <2>2, <2>3 DEF Bijection, Injection, IsInjective, Surjection
  <2> QED BY <2>4 DEF ExistsBijection
<1> HIDE DEF I
<1> QED BY <1>1, <1>2, FS_Bijection

LEMMA RangesInRows ==
  ASSUME NEW m \in Nat, m < LeasePeriodsPerSlot
  PROVE  /\ Cardinality(RangesBelow(m)) \in Nat
         /\ Cardinality(RangesBelow(m + 1)) =
              Cardinality(RangesBelow(m)) + (LeasePeriodsPerSlot - m)
         /\ \A n \in 0..(LeasePeriodsPerSlot - m - 1) :
              /\ <<m, m + n>> \in SlotRanges
              /\ Cardinality(RangesBefore(<<m, m + n>>)) = Cardinality(RangesBelow(m)) + n
<1>1. LeasePeriodsPerSlot \in Nat
  BY ConstsAssumption
<1>2. \A n \in 0..(LeasePeriodsPerSlot - m) :
        /\ RangesBelow(m) \cap Row(m, n) = {}
        /\ n \in Nat
  BY <1>1 DEF RangesBelow, Row
<1>3. \A n \in 0..(LeasePeriodsPerSlot - m) :
        Cardinality(RangesBelow(m) \cup Row(m, n)) = Cardinality(RangesBelow(m)) + n
  <2> TAKE n \in 0..(LeasePeriodsPerSlot - m)
  <2>1. /\ IsFiniteSet(RangesBelow(m)) /\ Cardinality(RangesBelow(m)) \in Nat
        /\ IsFiniteSet(Row(m, n)) /\ Cardinality(Row(m, n)) = n
    BY <1>2, RangesAreFinite, RowIs, FS_CardinalityType
  <2>2. Cardinality(RangesBelow(m) \cap Row(m, n)) = 0
    BY <1>2, FS_EmptySet
  <2>3. Cardinality(RangesBelow(m) \cup Row(m, n)) =
          Cardinality(RangesBelow(m)) + Cardinality(Row(m, n))
            - Cardinality(RangesBelow(m) \cap Row(m, n))
    BY <2>1, FS_Union
  <2> QED BY <1>2, <2>1, <2>2, <2>3
<1>4. RangesBelow(m + 1) = RangesBelow(m) \cup Row(m, LeasePeriodsPerSlot - m)
  <2>1. \A r \in SlotRanges : /\ r = <<r[1], r[2]>> /\ r[1] \in Int /\ r[2] \in Int
                              /\ r[1] <= r[2] /\ 0 <= r[1] /\ r[2] <= LeasePeriodsPerSlot - 1
    BY <1>1 DEF SlotRanges
  <2>2. m + (LeasePeriodsPerSlot - m) - 1 = LeasePeriodsPerSlot - 1
    BY <1>1
  <2>3. Row(m, LeasePeriodsPerSlot - m) = {<<m, j>> : j \in m..(LeasePeriodsPerSlot - 1)}
    BY <2>2 DEF Row
  <2>4. \A j \in m..(LeasePeriodsPerSlot - 1) : <<m, j>> \in SlotRanges
    BY <1>1 DEF SlotRanges
  <2>5. ASSUME NEW r \in RangesBelow(m + 1)
        PROVE  r \in RangesBelow(m) \cup Row(m, LeasePeriodsPerSlot - m)
    <3>1. r \in SlotRanges /\ r[1] < m + 1
      BY <2>5 DEF RangesBelow
    <3>2. CASE r[1] < m
      BY <3>1, <3>2 DEF RangesBelow
    <3>3. CASE r[1] = m
      <4>1. r = <<m, r[2]>> /\ r[2] \in m..(LeasePeriodsPerSlot - 1)
        BY <1>1, <2>1, <3>1, <3>3
      <4> QED BY <2>3, <4>1
    <3>4. r[1] \in Int
      BY <2>1, <3>1
    <3> QED BY <3>1, <3>2, <3>3, <3>4
  <2>6. ASSUME NEW r \in RangesBelow(m) \cup Row(m, LeasePeriodsPerSlot - m)
        PROVE  r \in RangesBelow(m + 1)
    <3>1. CASE r \in RangesBelow(m)
      BY <2>1, <3>1 DEF RangesBelow
    <3>2. CASE r \in Row(m, LeasePeriodsPerSlot - m)
      <4>1. PICK j \in m..(LeasePeriodsPerSlot - 1) : r = <<m, j>>
        BY <2>3, <3>2
      <4> QED BY <2>4, <4>1 DEF RangesBelow
    <3> QED BY <2>6, <3>1, <3>2
  <2> QED BY <2>5, <2>6
<1>5. Cardinality(RangesBelow(m + 1)) = Cardinality(RangesBelow(m)) + (LeasePeriodsPerSlot - m)
  BY <1>1, <1>3, <1>4
<1>6. ASSUME NEW n \in 0..(LeasePeriodsPerSlot - m - 1)
      PROVE  /\ <<m, m + n>> \in SlotRanges
             /\ Cardinality(RangesBefore(<<m, m + n>>)) = Cardinality(RangesBelow(m)) + n
  <2>1. \A j \in m..(m + n) : <<m, j>> \in SlotRanges
    BY <1>1 DEF SlotRanges
  <2>2. \A r \in SlotRanges : /\ r = <<r[1], r[2]>> /\ r[1] \in Int /\ r[2] \in Int
                              /\ r[1] <= r[2]
    BY <1>1 DEF SlotRanges
  <2>3. RangesBefore(<<m, m + n>>) = {q \in SlotRanges : q[1] < m \/ (q[1] = m /\ q[2] < m + n)}
    BY DEF RangesBefore
  <2>4. \A r : r \in RangesBefore(<<m, m + n>>) => r \in RangesBelow(m) \cup Row(m, n)
    <3> TAKE r
    <3> HAVE r \in RangesBefore(<<m, m + n>>)
    <3>1. r \in SlotRanges /\ (r[1] < m \/ (r[1] = m /\ r[2] < m + n))
      BY <2>3
    <3>2. CASE r[1] < m
      BY <3>1, <3>2 DEF RangesBelow
    <3>3. CASE r[1] = m /\ r[2] < m + n
      <4>1. r = <<m, r[2]>> /\ r[2] \in m..(m + n - 1)
        BY <2>2, <3>1, <3>3
      <4> QED BY <4>1 DEF Row
    <3> QED BY <3>1, <3>2, <3>3
  <2>5. \A r : r \in RangesBelow(m) \cup Row(m, n) => r \in RangesBefore(<<m, m + n>>)
    <3> TAKE r
    <3> HAVE r \in RangesBelow(m) \cup Row(m, n)
    <3>1. CASE r \in RangesBelow(m)
      BY <2>3, <3>1 DEF RangesBelow
    <3>2. CASE r \in Row(m, n)
      <4>1. PICK j \in m..(m + n - 1) : r = <<m, j>>
        BY <3>2 DEF Row
      <4>2. j \in m..(m + n) /\ j < m + n /\ r[1] = m /\ r[2] = j
        BY <4>1
      <4> QED BY <2>1, <2>3, <4>1, <4>2
    <3> QED BY <3>1, <3>2
  <2>6. RangesBefore(<<m, m + n>>) = RangesBelow(m) \cup Row(m, n)
    BY <2>4, <2>5
  <2>7. n \in 0..(LeasePeriodsPerSlot - m) /\ m + n \in m..(m + n)
    BY <1>1
  <2> QED BY <1>3, <2>1, <2>6, <2>7
<1>7. Cardinality(RangesBelow(m)) \in Nat
  BY RangesAreFinite, FS_CardinalityType
<1> QED BY <1>5, <1>6, <1>7

-----------------------------------------------------------------------------
(* The lease sets, in the order of the ranges. *)

PeriodsOf(first, r) == [i \in 1..(r[2] - r[1] + 1) |-> first + r[1] + i - 1]

\* s has the lease sets of the ranges below m, in their order.
Enumerates(s, first, m) ==
  /\ Len(s) = Cardinality(RangesBelow(m))
  /\ \A k \in 1..Len(s) : \E r \in SlotRanges : /\ Cardinality(RangesBefore(r)) = k - 1
                                                /\ s[k] = PeriodsOf(first, r)

LEMMA Concatenated ==
  ASSUME NEW T, NEW s \in Seq(T), NEW t \in Seq(T)
  PROVE  /\ Len(s \o t) = Len(s) + Len(t)
         /\ \A k \in 1..Len(s) : (s \o t)[k] = s[k]
         /\ \A k \in (Len(s) + 1)..(Len(s) + Len(t)) : (s \o t)[k] = t[k - Len(s)]
OBVIOUS

LEMMA OneRowMore ==
  ASSUME NEW first \in Nat, NEW m \in Nat, m < LeasePeriodsPerSlot,
         NEW s \in Seq(Seq(Int)), Enumerates(s, first, m)
  PROVE  Enumerates(s \o LeaseSetsFrom(first, m), first, m + 1)
<1> DEFINE t == LeaseSetsFrom(first, m)
           h == LeasePeriodsPerSlot - m
           c == Len(s)
<1>1. h \in Nat /\ c \in Nat
  BY ConstsAssumption
<1>2. t \in Seq(Seq(Int)) /\ Len(t) = h
      /\ \A n \in 1..h : t[n] = [i \in 1..n |-> first + m + i - 1]
  <2> DEFINE u == [n \in 1..h |-> [i \in 1..n |-> first + m + i - 1]]
  <2>1. t = u
    BY DEF LeaseSetsFrom
  <2>2. \A n \in 1..h : u[n] = [i \in 1..n |-> first + m + i - 1]
    OBVIOUS
  <2>3. \A n \in 1..h : [i \in 1..n |-> first + m + i - 1] \in Seq(Int)
    <3> TAKE n \in 1..h
    <3>1. n \in Nat
      BY <1>1
    <3>2. \A i \in 1..n : first + m + i - 1 \in Int
      BY <3>1
    <3> QED BY <3>1, <3>2
  <2>4. u \in [1..h -> Seq(Int)]
    BY <2>3
  <2> HIDE DEF u, t, h
  <2>5. u \in Seq(Seq(Int)) /\ Len(u) = h
    BY <1>1, <2>4
  <2> QED BY <2>1, <2>2, <2>5
<1> HIDE DEF t
<1>3. /\ c = Cardinality(RangesBelow(m))
      /\ Cardinality(RangesBelow(m + 1)) = c + h
      /\ \A n \in 0..(h - 1) : /\ <<m, m + n>> \in SlotRanges
                               /\ Cardinality(RangesBefore(<<m, m + n>>)) = c + n
  BY RangesInRows DEF Enumerates
<1>4. /\ Len(s \o t) = c + h
      /\ \A k \in 1..c : (s \o t)[k] = s[k]
      /\ \A k \in (c + 1)..(c + h) : (s \o t)[k] = t[k - c]
  <2> DEFINE U == Seq(Int)
  <2>1. s \in Seq(U) /\ t \in Seq(U)
    BY <1>2
  <2> HIDE DEF h, U
  <2>2. /\ Len(s \o t) = Len(s) + Len(t)
        /\ \A k \in 1..Len(s) : (s \o t)[k] = s[k]
        /\ \A k \in (Len(s) + 1)..(Len(s) + Len(t)) : (s \o t)[k] = t[k - Len(s)]
    BY <2>1, Concatenated
  <2> QED BY <1>2, <2>2
<1>5. ASSUME NEW k \in 1..(c + h)
      PROVE  \E r \in SlotRanges : /\ Cardinality(RangesBefore(r)) = k - 1
                                   /\ (s \o t)[k] = PeriodsOf(first, r)
  <2>1. CASE k <= c
    <3>1. k \in 1..c
      BY <2>1
    <3>2. (s \o t)[k] = s[k]
      BY <1>4, <3>1
    <3> QED BY <3>1, <3>2 DEF Enumerates
  <2>2. CASE ~(k <= c)
    <3> DEFINE n == k - c
               r == <<m, m + (n - 1)>>
    <3>1. n \in 1..h /\ n - 1 \in 0..(h - 1) /\ k \in (c + 1)..(c + h)
      <4> HIDE DEF h, c
      <4> QED BY <1>1, <2>2
    <3>2. r \in SlotRanges /\ Cardinality(RangesBefore(r)) = c + (n - 1)
      BY <1>3, <3>1
    <3>3. c + (n - 1) = k - 1
      <4> HIDE DEF c, h
      <4> QED BY <1>1
    <3>4. (s \o t)[k] = [i \in 1..n |-> first + m + i - 1]
      <4> HIDE DEF c, h
      <4> QED BY <1>2, <1>4, <3>1
    <3>5. PeriodsOf(first, r) = [i \in 1..n |-> first + m + i - 1]
      <4>1. r[1] = m /\ r[2] - r[1] + 1 = n
        <5> HIDE DEF n, h, c
        <5> QED BY <3>1
      <4> HIDE DEF r, n
      <4> QED BY <4>1 DEF PeriodsOf
    <3> HIDE DEF r, n
    <3> QED BY <3>2, <3>3, <3>4, <3>5
  <2> QED BY <2>1, <2>2
<1>6. \A k \in 1..Len(s \o t) :
        \E r \in SlotRanges : /\ Cardinality(RangesBefore(r)) = k - 1
                              /\ (s \o t)[k] = PeriodsOf(first, r)
  BY <1>4, <1>5
<1> HIDE DEF c, h
<1> QED BY <1>3, <1>4, <1>6 DEF Enumerates, t

LEMMA LeaseSetsInOrder ==
  ASSUME NEW first \in Nat
  PROVE  /\ LeaseSets(first) \in Seq(Seq(Int))
         /\ Len(LeaseSets(first)) = Cardinality(SlotRanges)
         /\ \A k \in 1..Cardinality(SlotRanges) :
              LeaseSets(first)[k] = PeriodsOf(first, SlotRange(k))
<1> DEFINE N == LeasePeriodsPerSlot
           T == Seq(Int)
           ss == [s \in 1..N |-> LeaseSetsFrom(first, s - 1)]
<1>1. N \in Nat \ {0}
  BY ConstsAssumption
<1>2. ss \in [1..N -> Seq(T)]
  <2>1. ASSUME NEW m \in 1..N PROVE LeaseSetsFrom(first, m - 1) \in Seq(Seq(Int))
    <3> DEFINE h == N - (m - 1)
               u == [n \in 1..h |-> [i \in 1..n |-> first + (m - 1) + i - 1]]
    <3>1. LeaseSetsFrom(first, m - 1) = u
      BY DEF LeaseSetsFrom
    <3>2. h \in Nat
      BY <1>1
    <3>3. \A n \in 1..h : [i \in 1..n |-> first + (m - 1) + i - 1] \in Seq(Int)
      <4> TAKE n \in 1..h
      <4>1. n \in Nat
        BY <3>2
      <4>2. \A i \in 1..n : first + (m - 1) + i - 1 \in Int
        BY <4>1
      <4> QED BY <4>1, <4>2
    <3>4. u \in [1..h -> Seq(Int)]
      BY <3>3
    <3> HIDE DEF u, h
    <3> QED BY <3>1, <3>2, <3>4
  <2> QED BY <2>1
<1> HIDE DEF ss, T, N
<1>3. PICK p : FlattenedBy(p, ss, N, T)
  <2>1. AreSequences(ss, N, T)
    BY <1>2 DEF AreSequences
  <2>2. IsFlattened(ss, N, T)
    BY <1>1, <2>1, FlattenOf
  <2> QED BY <2>2 DEF IsFlattened
<1> USE DEF ss, T, N
<1>3a. p \in [0..N -> Seq(T)] /\ AppendsAll(p, ss, N) /\ FlattenSeq(ss) = p[N]
  BY <1>3 DEF FlattenedBy
<1>4. p[0] = <<>> /\ \A m \in 1..N : p[m] = p[m - 1] \o LeaseSetsFrom(first, m - 1)
  <2>1. \A m \in 1..N : ss[m] = LeaseSetsFrom(first, m - 1)
    OBVIOUS
  <2> HIDE DEF ss, N, T
  <2> QED BY <1>3a, <2>1 DEF AppendsAll
<1>5. LeaseSets(first) = p[N]
  BY <1>3a DEF LeaseSets
<1> DEFINE Good == {m \in Nat : m <= N => Enumerates(p[m], first, m)}
<1>6. 0 \in Good
  <2>1. RangesBelow(0) = {}
    BY ConstsAssumption DEF RangesBelow, SlotRanges
  <2>2. Cardinality(RangesBelow(0)) = 0
    BY <2>1, FS_EmptySet
  <2>3. Len(<<>>) = 0 /\ 1..0 = {}
    OBVIOUS
  <2> QED BY <1>4, <2>2, <2>3 DEF Enumerates
<1>7. ASSUME NEW m \in Nat, m \in Good PROVE m + 1 \in Good
  <2> SUFFICES ASSUME m + 1 <= N PROVE Enumerates(p[m + 1], first, m + 1)
    OBVIOUS
  <2>1. m \in 0..N /\ m + 1 \in 1..N /\ (m + 1) - 1 = m /\ m < LeasePeriodsPerSlot /\ m <= N
    BY <1>1
  <2>2. p[m] \in Seq(Seq(Int)) /\ Enumerates(p[m], first, m)
    BY <1>3a, <1>7, <2>1
  <2>3. p[m + 1] = p[m] \o LeaseSetsFrom(first, m)
    <3>1. p[m + 1] = p[(m + 1) - 1] \o LeaseSetsFrom(first, (m + 1) - 1)
      BY <1>4, <2>1, Zenon
    <3> QED BY <2>1, <3>1
  <2> HIDE DEF Good, N, ss, T
  <2> QED BY <2>1, <2>2, <2>3, OneRowMore
<1>8. Nat \subseteq Good
  <2> HIDE DEF Good
  <2> QED BY <1>6, <1>7, SetInduction
<1>9. Enumerates(p[N], first, N)
  BY <1>1, <1>8
<1>10. RangesBelow(N) = SlotRanges
  BY <1>1 DEF RangesBelow, SlotRanges
<1>11. p[N] \in Seq(Seq(Int)) /\ Len(p[N]) = Cardinality(SlotRanges)
  <2> HIDE DEF Good, ss
  <2>1. N \in 0..N
    BY <1>1
  <2> QED BY <1>3a, <1>9, <1>10, <2>1 DEF Enumerates
<1>12. ASSUME NEW k \in 1..Cardinality(SlotRanges)
       PROVE  p[N][k] = PeriodsOf(first, SlotRange(k))
  <2> HIDE DEF N, Good, ss, T
  <2>1. PICK r \in SlotRanges : /\ Cardinality(RangesBefore(r)) = k - 1
                                /\ p[N][k] = PeriodsOf(first, r)
    BY <1>9, <1>11 DEF Enumerates
  <2>2. /\ SlotRange(k) \in SlotRanges
        /\ Cardinality(RangesBefore(SlotRange(k))) = k - 1
    BY <2>1 DEF SlotRange
  <2>3. SlotRange(k) = r
    BY <2>1, <2>2, RangesDiffer
  <2> QED BY <2>1, <2>3
<1> HIDE DEF N, Good, ss, T
<1> QED BY <1>5, <1>11, <1>12

\* The sample of a block in the ending period is one of those that are kept.
LEMMA SampleIsKept ==
  ASSUME NEW x \in Nat, x < EndingPeriod
  PROVE  x \div SampleLength \in 0..(EndingPeriod \div SampleLength - 1)
<1> DEFINE d == SampleLength
           q == x \div d
           e == EndingPeriod \div d
<1>1. d \in Nat \ {0} /\ EndingPeriod \in Nat /\ EndingPeriod % d = 0
  BY ConstsAssumption
<1>2. q \in Nat /\ q * d <= x
  <2> HIDE DEF d
  <2> QED BY <1>1, Division
<1>3. e \in Nat /\ EndingPeriod = e * d
  <2>1. \A a \in Nat : \A b \in Nat \ {0} : a % b = 0 => a \div b \in Nat /\ a = (a \div b) * b
    OBVIOUS
  <2> HIDE DEF d
  <2> QED BY <1>1, <2>1
<1>4. q < e
  <2>1. \A a, b \in Nat : \A c \in Nat \ {0} : a * c < b * c => a < b
    <3> SUFFICES ASSUME NEW a \in Nat, NEW b \in Nat, NEW c \in Nat \ {0}, b <= a
                 PROVE  b * c <= a * c
      <4>1. \A a, b \in Nat : \A c \in Nat \ {0} : a * c \in Int /\ b * c \in Int
        OBVIOUS
      <4> QED BY <4>1
    <3>1. a = b + (a - b) /\ a - b \in Nat
      OBVIOUS
    <3>2. a * c = b * c + (a - b) * c
      BY <3>1
    <3>3. (a - b) * c \in Nat /\ b * c \in Int
      BY <3>1
    <3> QED BY <3>2, <3>3
  <2>2. q * d < e * d
    <3>1. q * d \in Int
      BY <1>1, <1>2
    <3> HIDE DEF q, e, d
    <3> QED BY <1>1, <1>2, <1>3, <3>1
  <2> HIDE DEF q, e, d
  <2> QED BY <1>1, <1>2, <1>3, <2>1, <2>2
<1> HIDE DEF q, e, d
<1> QED BY <1>2, <1>3, <1>4 DEF q, e, d

\* Every winning bid is told, with the lease periods it was made for.
LEMMA EveryWinningExact ==
  ASSUME NEW now \in Nat, NEW bids, NEW auction \in (Nat \X Nat) \cup {Null},
         NEW winningAt \in [0..(EndingPeriod \div SampleLength - 1) ->
                              [1..Cardinality(SlotRanges) -> bids]]
  PROVE  WinningExact(now, auction, winningAt)
<1> DEFINE first == auction[1]
           begin == auction[2]
           sample == (now - begin) \div SampleLength
           phase == Phase(now, begin)
           offset == EndingOffset(now, begin, phase)
           sets == LeaseSets(first)
           winning == AuctionsCurrent(now, auction, winningAt).winning
           leaseSet(r) == [i \in 1..(r[2] - r[1] + 1) |-> first + r[1] + i - 1]
           told == [k \in DOMAIN winningAt[sample] |->
                      [bid |-> winningAt[sample][k], leaseSet |-> leaseSet(SlotRange(k))]]
<1> SUFFICES ASSUME auction # Null
             PROVE  IF begin < now /\ now < begin + EndingPeriod
                    THEN /\ sample \in 0..(EndingPeriod \div SampleLength - 1)
                         /\ winning = told
                    ELSE winning = Null
  BY DEF WinningExact
<1>1. first \in Nat /\ begin \in Nat /\ SampleLength \in Nat \ {0} /\ EndingPeriod \in Nat \ {0}
  BY ConstsAssumption
<1>2. winning = IF offset = Null THEN Null
                ELSE [k \in DOMAIN winningAt[offset] |->
                        [bid |-> winningAt[offset][k], leaseSet |-> sets[k]]]
  BY DEF AuctionsCurrent
<1> HIDE DEF winning, sets
<1>3. CASE begin < now /\ now < begin + EndingPeriod
  <2>1. now - begin \in Nat /\ now - begin < EndingPeriod
    BY <1>1, <1>3
  <2>2. sample \in 0..(EndingPeriod \div SampleLength - 1)
    BY <2>1, SampleIsKept
  <2>3. phase = "endPeriod"
    BY <1>1, <1>3 DEF Phase
  <2>4. offset = sample
    <3>1. ~(now <= begin)
      BY <1>1, <1>3
    <3> HIDE DEF sample, phase
    <3> QED BY <2>3, <3>1 DEF EndingOffset, sample
  <2>5. offset # Null
    <3>1. \A a \in 0..(EndingPeriod \div SampleLength - 1) : a \in Int
      OBVIOUS
    <3> HIDE DEF sample, offset
    <3> QED BY <2>2, <2>4, <3>1, NullAssumption
  <2>6. DOMAIN winningAt[sample] = 1..Cardinality(SlotRanges)
    <3> HIDE DEF sample
    <3> QED BY <2>2
  <2>7. \A k \in 1..Cardinality(SlotRanges) : sets[k] = leaseSet(SlotRange(k))
    <3>1. \A k \in 1..Cardinality(SlotRanges) : sets[k] = PeriodsOf(first, SlotRange(k))
      BY <1>1, LeaseSetsInOrder DEF sets
    <3> QED BY <3>1 DEF PeriodsOf
  <2> HIDE DEF sample, offset, leaseSet, first, begin
  <2>8. winning = told
    BY <1>2, <2>4, <2>5, <2>6, <2>7
  <2> QED BY <1>3, <2>2, <2>8
<1>4. CASE ~(begin < now /\ now < begin + EndingPeriod)
  <2>1. now <= begin \/ (~(now <= begin) /\ phase = "vrfDelay")
    BY <1>1, <1>4 DEF Phase
  <2>2. offset = Null
    <3> HIDE DEF phase, begin
    <3> QED BY <2>1 DEF EndingOffset
  <2> HIDE DEF offset, begin
  <2> QED BY <1>2, <1>4, <2>2
<1> QED BY <1>3, <1>4

\* The lease and auction routes, for any leases, bids and auction.
THEOREM EveryParaExact ==
  ASSUME NEW holders, NEW bids, input \in ParaInputs(holders, bids)
  PROVE  ParasExact
<1>1. ASSUME Is("leases") PROVE LeasePeriodsExact(input.now, input.leases)
  <2>1. input.now \in Nat /\ input.leases \in Seq(holders \cup {Null})
    BY <1>1 DEF ParaInputs, Is
  <2> QED BY <2>1, EveryLeaseExact
<1>2. ASSUME Is("auction") PROVE WinningExact(input.now, input.auction, input.winningAt)
  <2>1. /\ input.now \in Nat /\ input.auction \in (Nat \X Nat) \cup {Null}
        /\ input.winningAt \in [0..(EndingPeriod \div SampleLength - 1) ->
                                  [1..Cardinality(SlotRanges) -> bids]]
    BY <1>2 DEF ParaInputs, Is
  <2> QED BY <2>1, EveryWinningExact
<1> QED BY <1>1, <1>2 DEF ParasExact

-----------------------------------------------------------------------------
(* Sorting, and more on filters. *)

IsListed(kept, s, places) ==
  \E at : /\ Lists(at, Len(kept), places, Len(s))
          /\ \A i \in 1..Len(kept) : kept[i] = s[at[i]]

LEMMA KeptHasList ==
  ASSUME NEW T, NEW s \in Seq(T), NEW places
  PROVE  Kept(s, places) \in Seq(T) /\ IsListed(Kept(s, places), s, places)
BY KeptIsListed DEF IsListed

\* What a filter answers is determined by the places it keeps.
LEMMA KeptDetermined ==
  ASSUME NEW T, NEW s \in Seq(T), NEW places, NEW r \in Seq(T), NEW at,
         Lists(at, Len(r), places, Len(s)), \A i \in 1..Len(r) : r[i] = s[at[i]]
  PROVE  Kept(s, places) = r
<1> DEFINE k == Kept(s, places)
<1>1. k \in Seq(T)
  BY KeptIsListed
<1>2. PICK other : /\ Lists(other, Len(k), places, Len(s))
                   /\ \A i \in 1..Len(k) : k[i] = s[other[i]]
  BY KeptIsListed
<1>3. Len(s) \in Nat
  OBVIOUS
<1>4. Len(k) = Len(r) /\ other = at
  <2> HIDE DEF k
  <2> QED BY <1>2, <1>3, ListedOnce
<1> HIDE DEF k
<1>5. \A i \in 1..Len(k) : k[i] = r[i]
  BY <1>2, <1>4
<1>6. k = r
  BY <1>1, <1>4, <1>5
<1> QED BY <1>6 DEF k

\* Of the places of s and t together, these are in s and those in t.
SplitsIn(places, s, first, t, second) ==
  /\ \A k \in 1..Len(s) : k \in places <=> k \in first
  /\ \A k \in 1..Len(t) : Len(s) + k \in places <=> k \in second

\* A filter of a concatenation filters both parts.
LEMMA KeptOfBoth ==
  ASSUME NEW T, NEW s \in Seq(T), NEW t \in Seq(T), NEW first, NEW second, NEW places,
         SplitsIn(places, s, first, t, second)
  PROVE  Kept(s \o t, places) = Kept(s, first) \o Kept(t, second)
<1> DEFINE x == Kept(s, first)
           y == Kept(t, second)
           a == Len(x)
           b == Len(y)
           m == Len(s)
           n == Len(t)
           z == s \o t
           w == x \o y
<1>1. x \in Seq(T) /\ y \in Seq(T)
  BY KeptIsListed
<1>2. PICK at : Lists(at, a, first, m) /\ \A i \in 1..a : x[i] = s[at[i]]
  BY KeptIsListed
<1>3. PICK bt : Lists(bt, b, second, n) /\ \A i \in 1..b : y[i] = t[bt[i]]
  BY KeptIsListed
<1> HIDE DEF x, y
<1>4. a \in Nat /\ b \in Nat /\ m \in Nat /\ n \in Nat
  BY <1>1
<1>5. /\ z \in Seq(T) /\ Len(z) = m + n
      /\ \A k \in 1..m : z[k] = s[k]
      /\ \A k \in 1..n : z[m + k] = t[k]
  OBVIOUS
<1>6. /\ w \in Seq(T) /\ Len(w) = a + b
      /\ \A k \in 1..a : w[k] = x[k]
      /\ \A k \in 1..b : w[a + k] = y[k]
  BY <1>1
<1> HIDE DEF z, w
<1>7. /\ at \in [1..a -> (1..m) \cap first]
      /\ \A i, j \in 1..a : i < j => at[i] < at[j]
      /\ \A k \in (1..m) \cap first : \E i \in 1..a : at[i] = k
  BY <1>2 DEF Lists
<1>8. /\ bt \in [1..b -> (1..n) \cap second]
      /\ \A i, j \in 1..b : i < j => bt[i] < bt[j]
      /\ \A k \in (1..n) \cap second : \E i \in 1..b : bt[i] = k
  BY <1>3 DEF Lists
<1>9. /\ \A k \in 1..m : k \in places <=> k \in first
      /\ \A k \in 1..n : m + k \in places <=> k \in second
  BY DEF SplitsIn
<1> DEFINE ct == [i \in 1..(a + b) |-> IF i <= a THEN at[i] ELSE m + bt[i - a]]
<1> HIDE DEF a, b, m, n
<1>10. \A i \in 1..(a + b) : i <= a => i \in 1..a /\ ct[i] = at[i] /\ ct[i] \in (1..m) \cap places
  BY <1>4, <1>7, <1>9
<1>11. \A i \in 1..(a + b) : ~(i <= a) =>
          /\ i - a \in 1..b /\ ct[i] = m + bt[i - a]
          /\ bt[i - a] \in 1..n /\ ct[i] \in places
  <2> TAKE i \in 1..(a + b)
  <2> HAVE ~(i <= a)
  <2>1. i - a \in 1..b
    BY <1>4
  <2>2. bt[i - a] \in (1..n) \cap second
    BY <1>8, <2>1
  <2> QED BY <1>4, <1>9, <2>1, <2>2
<1>12. ct \in [1..(a + b) -> (1..(m + n)) \cap places]
  <2>1. \A i \in 1..(a + b) : ct[i] \in (1..(m + n)) \cap places
    <3> TAKE i \in 1..(a + b)
    <3> HIDE DEF ct
    <3> QED BY <1>4, <1>10, <1>11
  <2> QED BY <2>1
<1>13. \A i, j \in 1..(a + b) : i < j => ct[i] < ct[j]
  <2> TAKE i, j \in 1..(a + b)
  <2> HAVE i < j
  <2> HIDE DEF ct
  <2>1. CASE j <= a
    <3>1. i <= a
      BY <1>4, <2>1
    <3> QED BY <1>7, <1>10, <2>1, <3>1
  <2>2. CASE i <= a /\ ~(j <= a)
    BY <1>4, <1>10, <1>11, <2>2
  <2>3. CASE ~(i <= a)
    <3>1. ~(j <= a)
      BY <1>4, <2>3
    <3>2. i - a \in 1..b /\ j - a \in 1..b /\ i - a < j - a
      BY <1>4, <1>11, <2>3, <3>1
    <3>3. bt[i - a] < bt[j - a]
      BY <1>8, <3>2
    <3> QED BY <1>4, <1>11, <2>3, <3>1, <3>3
  <2> QED BY <2>1, <2>2, <2>3
<1>14. \A k \in (1..(m + n)) \cap places : \E i \in 1..(a + b) : ct[i] = k
  <2> TAKE k \in (1..(m + n)) \cap places
  <2>1. CASE k <= m
    <3>1. k \in (1..m) \cap first
      BY <1>4, <1>9, <2>1
    <3>2. PICK i \in 1..a : at[i] = k
      BY <1>7, <3>1
    <3>3. i \in 1..(a + b) /\ ct[i] = k
      BY <1>4, <3>2
    <3> QED BY <3>3
  <2>2. CASE ~(k <= m)
    <3>1. k - m \in 1..n /\ m + (k - m) = k
      BY <1>4, <2>2
    <3>2. k - m \in (1..n) \cap second
      BY <1>9, <3>1
    <3>3. PICK i \in 1..b : bt[i] = k - m
      BY <1>8, <3>2
    <3>4. a + i \in 1..(a + b) /\ ~(a + i <= a) /\ (a + i) - a = i
      BY <1>4
    <3>5. ct[a + i] = k
      BY <3>1, <3>3, <3>4
    <3> QED BY <3>4, <3>5
  <2> QED BY <2>1, <2>2
<1>15. Lists(ct, a + b, places, m + n)
  <2> HIDE DEF ct
  <2> QED BY <1>4, <1>12, <1>13, <1>14 DEF Lists
<1>16. \A i \in 1..(a + b) : w[i] = z[ct[i]]
  <2> TAKE i \in 1..(a + b)
  <2> HIDE DEF ct
  <2>1. CASE i <= a
    <3>1. i \in 1..a /\ ct[i] = at[i] /\ at[i] \in 1..m
      BY <1>7, <1>10, <2>1
    <3>2. z[ct[i]] = s[at[i]]
      BY <1>5, <3>1
    <3>3. w[i] = x[i]
      BY <1>6, <3>1
    <3>4. x[i] = s[at[i]]
      BY <1>2, <3>1
    <3> QED BY <3>2, <3>3, <3>4
  <2>2. CASE ~(i <= a)
    <3>0. a + (i - a) = i
      BY <1>4
    <3>1. i - a \in 1..b /\ ct[i] = m + bt[i - a] /\ bt[i - a] \in 1..n
      BY <1>11, <2>2
    <3>2. z[ct[i]] = t[bt[i - a]]
      <4> DEFINE k == bt[i - a]
      <4>1. k \in 1..n /\ ct[i] = m + k
        BY <3>1
      <4> HIDE DEF k
      <4>2. z[m + k] = t[k]
        BY <1>5, <4>1
      <4> QED BY <4>1, <4>2 DEF k
    <3>3. w[a + (i - a)] = y[i - a]
      BY <1>6, <3>1
    <3>4. y[i - a] = t[bt[i - a]]
      BY <1>3, <3>1
    <3> QED BY <3>0, <3>2, <3>3, <3>4
  <2> QED BY <2>1, <2>2
<1> HIDE DEF ct
<1>17. Kept(z, places) = w
  BY <1>5, <1>6, <1>15, <1>16, KeptDetermined
<1> QED BY <1>17 DEF x, y, z, w

-----------------------------------------------------------------------------

\* The places of a sequence that a sort puts no later than i.
NotAfter(places, key, i) == {j \in places : key[j] < key[i] \/ (key[j] = key[i] /\ j <= i)}

\* The ranks of n entries are the numbers 1 to n.
LEMMA RanksArePlaces ==
  ASSUME NEW n \in Nat, NEW key \in [1..n -> Int]
  PROVE  /\ \A i \in 1..n : Cardinality(NotAfter(1..n, key, i)) \in 1..n
         /\ \A i, j \in 1..n :
              key[i] < key[j] \/ (key[i] = key[j] /\ i < j)
                <=> Cardinality(NotAfter(1..n, key, i)) < Cardinality(NotAfter(1..n, key, j))
         /\ \A k \in 1..n : \E i \in 1..n : Cardinality(NotAfter(1..n, key, i)) = k
<1> DEFINE rank(i) == Cardinality(NotAfter(1..n, key, i))
           r == [i \in 1..n |-> rank(i)]
           Before(i, j) == key[i] < key[j] \/ (key[i] = key[j] /\ i < j)
<1>1. IsFiniteSet(1..n) /\ Cardinality(1..n) = n
  BY FS_Interval
<1>2. ASSUME NEW i \in 1..n
      PROVE  /\ IsFiniteSet(NotAfter(1..n, key, i)) /\ rank(i) \in 1..n
             /\ i \in NotAfter(1..n, key, i)
  <2>1. i \in NotAfter(1..n, key, i) /\ NotAfter(1..n, key, i) \in SUBSET (1..n)
    BY DEF NotAfter
  <2>2. /\ IsFiniteSet(NotAfter(1..n, key, i))
        /\ rank(i) <= n /\ rank(i) \in Nat /\ rank(i) # 0
    BY <1>1, <2>1, FS_Subset, FS_CardinalityType, FS_EmptySet
  <2> QED BY <2>1, <2>2
<1>3. \A i, j \in 1..n : Before(i, j) => rank(i) < rank(j)
  <2> SUFFICES ASSUME NEW i \in 1..n, NEW j \in 1..n, Before(i, j) PROVE rank(i) < rank(j)
    OBVIOUS
  <2>1. NotAfter(1..n, key, i) \subseteq NotAfter(1..n, key, j) /\ j \notin NotAfter(1..n, key, i)
    BY DEF NotAfter
  <2>2. NotAfter(1..n, key, i) # NotAfter(1..n, key, j)
    BY <1>2, <2>1
  <2>3. rank(i) <= rank(j) /\ rank(i) # rank(j)
    BY <1>2, <2>1, <2>2, FS_Subset
  <2> QED BY <1>2, <2>3
<1>4. \A i, j \in 1..n : i # j => Before(i, j) \/ Before(j, i)
  <2> TAKE i, j \in 1..n
  <2>1. key[i] \in Int /\ key[j] \in Int
    OBVIOUS
  <2> QED BY <2>1
<1>5. \A i \in 1..n : rank(i) \in Nat
  BY <1>2
<1> HIDE DEF Before, rank
<1>6. \A i, j \in 1..n : rank(i) < rank(j) => Before(i, j)
  <2> TAKE i, j \in 1..n
  <2>1. CASE i = j
    BY <1>5, <2>1
  <2>2. CASE i # j
    BY <1>3, <1>4, <1>5, <2>2
  <2> QED BY <2>1, <2>2
<1>7. \A i, j \in 1..n : i # j => rank(i) # rank(j)
  <2> TAKE i, j \in 1..n
  <2> HAVE i # j
  <2>1. rank(i) < rank(j) \/ rank(j) < rank(i)
    BY <1>3, <1>4
  <2> QED BY <1>5, <2>1
<1>8. r \in Injection(1..n, 1..n)
  BY <1>2, <1>7 DEF Injection, IsInjective
<1>9. r \in Surjection(1..n, 1..n)
  <2> HIDE DEF r
  <2> QED BY <1>1, <1>8, FS_Injection
<1>10. \A k \in 1..n : \E i \in 1..n : rank(i) = k
  BY <1>9 DEF Surjection
<1> QED BY <1>2, <1>3, <1>6, <1>10 DEF rank, Before

\* at puts n entries in the order of their keys; equal ones stay in their order.
Orders(at, n, key) ==
  /\ at \in [1..n -> 1..n]
  /\ \A i \in 1..n : \E k \in 1..n : at[k] = i
  /\ \A j, k \in 1..n :
       j < k => key[at[j]] < key[at[k]] \/ (key[at[j]] = key[at[k]] /\ at[j] < at[k])

SortsBy(sorted, s, key) ==
  \E at : Orders(at, Len(s), key) /\ sorted = [k \in 1..Len(s) |-> s[at[k]]]

LEMMA SortOrders ==
  ASSUME NEW T, NEW s \in Seq(T), NEW key \in [1..Len(s) -> Int]
  PROVE  SortsBy(Sorted(s, key), s, key)
<1> DEFINE n == Len(s)
           rank(i) == Cardinality(NotAfter(1..n, key, i))
           at == [k \in 1..n |-> CHOOSE i \in 1..n : rank(i) = k]
<1>1. n \in Nat /\ DOMAIN s = 1..n
  OBVIOUS
<1>2. /\ \A i \in 1..n : rank(i) \in 1..n
      /\ \A i, j \in 1..n :
           key[i] < key[j] \/ (key[i] = key[j] /\ i < j) <=> rank(i) < rank(j)
      /\ \A k \in 1..n : \E i \in 1..n : rank(i) = k
  <2> HIDE DEF n
  <2> QED BY <1>1, RanksArePlaces DEF n
<1>3. Sorted(s, key) = [k \in 1..n |-> s[CHOOSE i \in 1..n : rank(i) = k]]
  <2>1. Sorted(s, key) = [k \in DOMAIN s |-> s[CHOOSE i \in DOMAIN s :
                                                 Cardinality(NotAfter(DOMAIN s, key, i)) = k]]
    BY DEF Sorted, NotAfter
  <2> HIDE DEF n
  <2> QED BY <1>1, <2>1
<1> HIDE DEF rank
<1>4. Sorted(s, key) = [k \in 1..n |-> s[at[k]]]
  <2>1. \A k \in 1..n : at[k] = CHOOSE i \in 1..n : rank(i) = k
    OBVIOUS
  <2> HIDE DEF at, n
  <2> QED BY <1>3, <2>1
<1>5. \A k \in 1..n : at[k] \in 1..n /\ rank(at[k]) = k
  BY <1>2
<1> HIDE DEF at, n
<1>6. at \in [1..n -> 1..n]
  BY <1>5 DEF at
<1>7. \A j, k \in 1..n :
        j < k => key[at[j]] < key[at[k]] \/ (key[at[j]] = key[at[k]] /\ at[j] < at[k])
  <2> TAKE j, k \in 1..n
  <2> HAVE j < k
  <2>1. at[j] \in 1..n /\ at[k] \in 1..n /\ rank(at[j]) < rank(at[k])
    BY <1>5
  <2> QED BY <1>2, <2>1
<1>8. \A i \in 1..n : \E k \in 1..n : at[k] = i
  <2> TAKE i \in 1..n
  <2>1. rank(i) \in 1..n
    BY <1>2
  <2>2. at[rank(i)] \in 1..n /\ rank(at[rank(i)]) = rank(i)
    BY <1>5, <2>1
  <2>3. ~(rank(i) < rank(i))
    BY <1>1, <2>1
  <2>4. at[rank(i)] = i
    <3> DEFINE j == at[rank(i)]
    <3>1. key[i] \in Int /\ key[j] \in Int /\ i \in Nat /\ j \in Nat
      BY <1>1, <2>2 DEF n
    <3>2. /\ ~(key[i] < key[j] \/ (key[i] = key[j] /\ i < j))
          /\ ~(key[j] < key[i] \/ (key[j] = key[i] /\ j < i))
      BY <1>2, <2>2, <2>3
    <3> HIDE DEF j
    <3>3. i = j
      BY <3>1, <3>2
    <3> QED BY <3>3 DEF j
  <2> QED BY <2>1, <2>4
<1>9. Orders(at, n, key)
  BY <1>6, <1>7, <1>8 DEF Orders
<1> QED BY <1>4, <1>9 DEF n, SortsBy

\* The entries of one number keep their order.
\* Of a sequence and its order, the same is kept.
KeepsSame(s, at, places, own) == Kept([k \in 1..Len(s) |-> s[at[k]]], places) = Kept(s, own)

LEMMA KeptOfSorted ==
  ASSUME NEW T, NEW s \in Seq(T), NEW key \in [1..Len(s) -> Int], NEW id,
         NEW places, NEW own,
         own = {i \in 1..Len(s) : key[i] = id},
         NEW at, Orders(at, Len(s), key),
         places = {k \in 1..Len(s) : key[at[k]] = id}
  PROVE  KeepsSame(s, at, places, own)
<1> DEFINE n == Len(s)
           z == [k \in 1..n |-> s[at[k]]]
           x == Kept(z, places)
           c == Len(x)
<1>1. n \in Nat /\ \A k \in 1..n : s[k] \in T
  OBVIOUS
<1>2. /\ at \in [1..n -> 1..n]
      /\ \A i \in 1..n : \E k \in 1..n : at[k] = i
      /\ \A j, k \in 1..n :
           j < k => key[at[j]] < key[at[k]] \/ (key[at[j]] = key[at[k]] /\ at[j] < at[k])
  BY DEF Orders
<1>3. z \in Seq(T) /\ Len(z) = n /\ \A k \in 1..n : z[k] = s[at[k]]
  <2> HIDE DEF n
  <2>1. \A k \in 1..n : s[at[k]] \in T
    BY <1>1, <1>2
  <2>2. z \in [1..n -> T] /\ \A k \in 1..n : z[k] = s[at[k]]
    BY <2>1
  <2> HIDE DEF z
  <2> QED BY <1>1, <2>2
<1> HIDE DEF z
<1>4. x \in Seq(T)
  BY <1>3, KeptIsListed
<1>5. PICK bt : Lists(bt, c, places, n) /\ \A i \in 1..c : x[i] = z[bt[i]]
  <2>0. z \in Seq(T)
    BY <1>3
  <2>1. IsListed(x, z, places)
    BY <2>0, KeptHasList
  <2> HIDE DEF x
  <2>2. PICK bt : Lists(bt, c, places, Len(z)) /\ \A i \in 1..c : x[i] = z[bt[i]]
    BY <2>1 DEF IsListed
  <2>3. Lists(bt, c, places, n)
    <3>1. Len(z) = n
      BY <1>3
    <3> QED BY <2>2, <3>1
  <2> QED BY <2>2, <2>3
<1> HIDE DEF x
<1>6. /\ c \in Nat /\ bt \in [1..c -> (1..n) \cap places]
      /\ \A i, j \in 1..c : i < j => bt[i] < bt[j]
      /\ \A k \in (1..n) \cap places : \E i \in 1..c : bt[i] = k
  BY <1>5 DEF Lists
<1> DEFINE ct == [i \in 1..c |-> at[bt[i]]]
<1> HIDE DEF c, n
<1>7. places = {k \in 1..n : key[at[k]] = id} /\ own = {i \in 1..n : key[i] = id}
  BY DEF n
<1>8. \A i \in 1..c : bt[i] \in 1..n /\ at[bt[i]] \in 1..n /\ key[at[bt[i]]] = id
  <2> TAKE i \in 1..c
  <2>1. bt[i] \in 1..n /\ bt[i] \in places
    BY <1>6
  <2>2. at[bt[i]] \in 1..n
    BY <1>2, <2>1
  <2>3. key[at[bt[i]]] = id
    BY <1>7, <2>1
  <2> QED BY <2>1, <2>2, <2>3
<1>9. ct \in [1..c -> (1..n) \cap own]
  BY <1>7, <1>8
<1>10. \A i, j \in 1..c : i < j => ct[i] < ct[j]
  <2> TAKE i, j \in 1..c
  <2> HAVE i < j
  <2>1. bt[i] < bt[j] /\ bt[i] \in 1..n /\ bt[j] \in 1..n
    BY <1>6, <1>8
  <2>2. key[at[bt[i]]] = id /\ key[at[bt[j]]] = id /\ at[bt[i]] \in 1..n /\ at[bt[j]] \in 1..n
    BY <1>8
  <2>3. id \in Int
    BY <2>2 DEF n
  <2>4. ~(id < id)
    BY <2>3
  <2>5. at[bt[i]] < at[bt[j]]
    BY <1>2, <2>1, <2>2, <2>4
  <2> QED BY <2>5
<1>11. \A k \in (1..n) \cap own : \E i \in 1..c : ct[i] = k
  <2> TAKE k \in (1..n) \cap own
  <2>1. PICK m \in 1..n : at[m] = k
    BY <1>2
  <2>2. m \in places
    BY <1>7, <2>1
  <2>3. PICK i \in 1..c : bt[i] = m
    BY <1>6, <2>2
  <2>4. ct[i] = k
    BY <2>1, <2>3
  <2> QED BY <2>4
<1>12. Lists(ct, c, own, n)
  <2> HIDE DEF ct
  <2> QED BY <1>6, <1>9, <1>10, <1>11 DEF Lists
<1>13. \A i \in 1..c : x[i] = s[ct[i]]
  <2> TAKE i \in 1..c
  <2>1. x[i] = z[bt[i]] /\ bt[i] \in 1..n
    BY <1>5, <1>8
  <2> QED BY <1>3, <2>1
<1> HIDE DEF ct
<1>14. Kept(s, own) = x
  BY <1>4, <1>12, <1>13, KeptDetermined DEF c, n
<1>15. Kept(z, places) = Kept(s, own)
  BY <1>14 DEF x
<1> QED BY <1>15 DEF KeepsSame, z, n

\* Entries of ascending numbers stay where they are.
LEMMA OrderedStays ==
  ASSUME NEW T, NEW s \in Seq(T), NEW key \in [1..Len(s) -> Int],
         \A i, j \in 1..Len(s) : i < j => key[i] <= key[j]
  PROVE  Sorted(s, key) = s
<1> DEFINE n == Len(s)
<1>1. PICK at : Orders(at, n, key) /\ Sorted(s, key) = [k \in 1..n |-> s[at[k]]]
  <2>1. SortsBy(Sorted(s, key), s, key)
    BY SortOrders
  <2> QED BY <2>1 DEF SortsBy
<1>2. n \in Nat /\ key \in [1..n -> Int] /\ \A i, j \in 1..n : i < j => key[i] <= key[j]
  OBVIOUS
<1> HIDE DEF n
<1>3. /\ at \in [1..n -> 1..n]
      /\ \A i \in 1..n : \E k \in 1..n : at[k] = i
      /\ \A j, k \in 1..n : j < k => at[j] < at[k]
  <2>1. at \in [1..n -> 1..n] /\ \A i \in 1..n : \E k \in 1..n : at[k] = i
    BY <1>1 DEF Orders
  <2>2. \A j, k \in 1..n : j < k => at[j] < at[k]
    <3> TAKE j, k \in 1..n
    <3> HAVE j < k
    <3>1. key[at[j]] < key[at[k]] \/ (key[at[j]] = key[at[k]] /\ at[j] < at[k])
      BY <1>1 DEF Orders
    <3>2. at[j] \in 1..n /\ at[k] \in 1..n
      BY <2>1
    <3>3. key[at[j]] \in Int /\ key[at[k]] \in Int
      BY <1>2, <3>2
    <3>4. at[k] < at[j] => key[at[k]] <= key[at[j]]
      BY <1>2, <3>2
    <3>5. at[k] = at[j] => key[at[k]] = key[at[j]]
      OBVIOUS
    <3> QED BY <3>1, <3>2, <3>3, <3>4, <3>5
  <2> QED BY <2>1, <2>2
<1>4. Lists(at, n, 1..n, n)
  BY <1>2, <1>3 DEF Lists
<1> DEFINE id == [k \in 1..n |-> k]
<1>5. Lists(id, n, 1..n, n)
  BY <1>2 DEF Lists
<1>6. at = id
  <2> HIDE DEF id
  <2> QED BY <1>2, <1>4, <1>5, ListedOnce
<1>7. \A k \in 1..n : at[k] = k
  BY <1>6
<1>8. Sorted(s, key) = [k \in 1..n |-> s[k]]
  BY <1>1, <1>7
<1>9. s = [k \in 1..n |-> s[k]]
  BY DEF n
<1> QED BY <1>8, <1>9

-----------------------------------------------------------------------------

\* A list of places is no longer than the sequence.
LEMMA ListIsShort ==
  ASSUME NEW n \in Nat, NEW places, NEW at, NEW c, Lists(at, c, places, n)
  PROVE  c <= n
<1>1. /\ c \in Nat /\ at \in [1..c -> 1..n]
      /\ \A i, j \in 1..c : i < j => at[i] < at[j]
  BY DEF Lists
<1> DEFINE Good == {k \in Nat : k \in 1..c => k <= at[k]}
<1>2. 0 \in Good
  OBVIOUS
<1>3. ASSUME NEW k \in Nat, k \in Good PROVE k + 1 \in Good
  <2> SUFFICES ASSUME k + 1 \in 1..c PROVE k + 1 <= at[k + 1]
    OBVIOUS
  <2>1. at[k + 1] \in 1..n
    BY <1>1
  <2>2. CASE k = 0
    BY <2>1, <2>2
  <2>3. CASE k # 0
    <3>1. k \in 1..c /\ k < k + 1
      BY <1>1, <2>3
    <3>2. k <= at[k] /\ at[k] < at[k + 1] /\ at[k] \in 1..n
      BY <1>1, <1>3, <3>1
    <3> QED BY <2>1, <3>2
  <2> QED BY <2>2, <2>3
<1>4. Nat \subseteq Good
  <2> HIDE DEF Good
  <2> QED BY <1>2, <1>3, SetInduction
<1>5. CASE c = 0
  BY <1>5
<1>6. CASE c # 0
  <2>1. c \in 1..c
    BY <1>1, <1>6
  <2>2. c <= at[c] /\ at[c] \in 1..n
    BY <1>1, <1>4, <2>1
  <2> QED BY <1>1, <2>2
<1> QED BY <1>5, <1>6

\* Places that are not empty have a first.
LEMMA FirstExists ==
  ASSUME NEW n \in Nat, NEW K \in SUBSET (1..n), K # {}
  PROVE  \E k \in K : \A i \in K : k <= i
<1> DEFINE L == {n + 1 - k : k \in K}
<1>1. L \in SUBSET (1..n) /\ L # {}
  <2>1. \A k \in K : n + 1 - k \in 1..n /\ n + 1 - k \in L
    OBVIOUS
  <2>2. \A l \in L : l \in 1..n
    BY <2>1
  <2>3. \E k \in K : n + 1 - k \in L
    BY <2>1
  <2> HIDE DEF L
  <2> QED BY <2>2, <2>3
<1>2. PICK l \in L : \A i \in L : i <= l
  <2> HIDE DEF L
  <2> QED BY <1>1, LargestExists
<1>3. PICK k \in K : l = n + 1 - k
  BY <1>2
<1>4. \A i \in K : n + 1 - i \in L
  OBVIOUS
<1>5. \A i \in K : k <= i
  <2> TAKE i \in K
  <2>1. n + 1 - i <= n + 1 - k
    BY <1>2, <1>3, <1>4
  <2> QED BY <2>1
<1> QED BY <1>5

LEMMA MinIsFirst ==
  ASSUME NEW n \in Nat, NEW K \in SUBSET (1..n), K # {}
  PROVE  Min(K) \in K /\ \A i \in K : Min(K) <= i
BY FirstExists DEF Min

\* The first of some places, 0 if there is none.
FirstOf(position, K) ==
  IF K = {} THEN position = 0 ELSE position \in K /\ \A k \in K : position <= k

LEMMA SelectsFirst ==
  ASSUME NEW n \in Nat, NEW K \in SUBSET (1..n)
  PROVE  FirstOf(IF K # {} THEN Min(K) ELSE 0, K)
<1>1. CASE K = {}
  BY <1>1 DEF FirstOf
<1>2. CASE K # {}
  BY <1>2, MinIsFirst DEF FirstOf
<1> QED BY <1>1, <1>2

LEMMA LeastIsMin ==
  ASSUME NEW K \in SUBSET Nat, NEW m \in K, \A k \in K : m <= k
  PROVE  Min(K) = m
<1>1. \A k \in K : (\A j \in K : k <= j) => k = m
  <2> TAKE k \in K
  <2> HAVE \A j \in K : k <= j
  <2>1. k <= m /\ m <= k /\ k \in Nat /\ m \in Nat
    OBVIOUS
  <2> QED BY <2>1
<1> QED BY <1>1 DEF Min

-----------------------------------------------------------------------------
(* Listings *)

\* Pallets with different names; all or none of them are numbered, those
\* differently.
Items == Seq([name : STRING, index : Nat])
Pallets == [name : STRING, index : Nat, items : [ItemFields -> Items \cup {Null}]]
Metadata ==
  {m \in Seq(Pallets) :
     /\ \A j, k \in 1..Len(m) : m[j].name = m[k].name => j = k
     /\ \/ \A k \in 1..Len(m) : m[k].index = NoIndex
        \/ \A j, k \in 1..Len(m) : m[k].index # NoIndex /\ (m[j].index = m[k].index => j = k)}
PathIds == [name : STRING, number : Nat \cup {Null}]

\* A first match is a match.
LEMMA FirstMatches ==
  ASSUME NEW pallets \in Seq(Pallets), NEW id, Matches(pallets, id) # {}
  PROVE  /\ FirstMatch(pallets, id) \in Matches(pallets, id)
         /\ \A j \in Matches(pallets, id) : FirstMatch(pallets, id) <= j
<1>1. Len(pallets) \in Nat /\ Matches(pallets, id) \in SUBSET (1..Len(pallets))
  BY DEF Matches
<1>2. \E k \in Matches(pallets, id) : \A j \in Matches(pallets, id) : k <= j
  BY <1>1, FirstExists
<1> QED BY <1>2 DEF FirstMatch

\* The pallets that have a field, at their places in the metadata.
HaveField(w, m, field, at) ==
  /\ w = WithItems(m, field) /\ w \in Seq(Pallets) /\ Len(w) <= Len(m)
  /\ at \in [1..Len(w) -> 1..Len(m)]
  /\ \A j, k \in 1..Len(w) : at[j] = at[k] => j = k
  /\ \A k \in 1..Len(w) : w[k] = m[at[k]] /\ w[k].items[field] # Null

LEMMA FieldsKept ==
  ASSUME NEW m \in Seq(Pallets), NEW field
  PROVE  \E at : HaveField(WithItems(m, field), m, field, at)
<1> DEFINE places == {k \in DOMAIN m : m[k].items[field] # Null}
           w == Kept(m, places)
<1>1. WithItems(m, field) = w
  BY DEF WithItems
<1>2. w \in Seq(Pallets) /\ IsListed(w, m, places)
  BY KeptHasList
<1> HIDE DEF w
<1>3. PICK at : /\ Lists(at, Len(w), places, Len(m))
                /\ \A i \in 1..Len(w) : w[i] = m[at[i]]
  BY <1>2 DEF IsListed
<1>4. Len(w) <= Len(m)
  BY <1>3, ListIsShort
<1>5. /\ Len(w) \in Nat /\ at \in [1..Len(w) -> (1..Len(m)) \cap places]
      /\ \A i, j \in 1..Len(w) : i < j => at[i] < at[j]
  BY <1>3 DEF Lists
<1>6. \A j, k \in 1..Len(w) : at[j] = at[k] => j = k
  <2> TAKE j, k \in 1..Len(w)
  <2>1. at[j] \in Nat /\ at[k] \in Nat
    BY <1>5
  <2> QED BY <1>5, <2>1
<1>7. \A k \in 1..Len(w) : m[at[k]].items[field] # Null
  BY <1>5
<1>8. at \in [1..Len(w) -> 1..Len(m)]
  BY <1>5
<1>9. HaveField(w, m, field, at)
  BY <1>1, <1>2, <1>3, <1>4, <1>6, <1>7, <1>8 DEF HaveField
<1> QED BY <1>1, <1>9

\* Different pallets have different indices, numbered or not.
LEMMA IndicesApart ==
  ASSUME NEW m \in Metadata, NEW field, NEW w, NEW at, HaveField(w, m, field, at)
  PROVE  /\ \A j, k \in 1..Len(w) : IndexAt(w, j) = IndexAt(w, k) => j = k
         /\ \A k \in 1..Len(w) : IndexAt(w, k) \in Nat
                                  /\ \E j \in 1..Len(m) : IndexAt(m, j) = IndexAt(w, k)
<1>1. /\ m \in Seq(Pallets) /\ Len(w) \in Nat /\ Len(m) \in Nat /\ Len(w) <= Len(m)
      /\ at \in [1..Len(w) -> 1..Len(m)] /\ w \in Seq(Pallets)
      /\ \A j, k \in 1..Len(w) : at[j] = at[k] => j = k
      /\ \A k \in 1..Len(w) : w[k] = m[at[k]]
  BY DEF HaveField, Metadata
<1>2. CASE \A k \in 1..Len(m) : m[k].index = NoIndex
  <2>1. \A k \in 1..Len(w) : IndexAt(w, k) = k - 1
    BY <1>1, <1>2 DEF IndexAt
  <2>2. \A k \in 1..Len(m) : IndexAt(m, k) = k - 1
    BY <1>1, <1>2 DEF IndexAt
  <2>3. \A k \in 1..Len(w) : k \in 1..Len(m)
    BY <1>1
  <2> QED BY <1>1, <2>1, <2>2, <2>3
<1>3. CASE \A j, k \in 1..Len(m) : m[k].index # NoIndex /\ (m[j].index = m[k].index => j = k)
  <2>1. \A k \in 1..Len(w) : at[k] \in 1..Len(m) /\ IndexAt(w, k) = m[at[k]].index
    BY <1>1, <1>3 DEF IndexAt
  <2>2. \A k \in 1..Len(m) : IndexAt(m, k) = m[k].index
    BY <1>1, <1>3 DEF IndexAt
  <2>3. \A k \in 1..Len(m) : m[k].index \in Nat
    <3> TAKE k \in 1..Len(m)
    <3>1. m[k] \in Pallets
      BY <1>1
    <3> QED BY <3>1 DEF Pallets
  <2>4. ASSUME NEW j \in 1..Len(w), NEW k \in 1..Len(w), IndexAt(w, j) = IndexAt(w, k)
        PROVE  j = k
    <3>1. m[at[j]].index = m[at[k]].index /\ at[j] \in 1..Len(m) /\ at[k] \in 1..Len(m)
      BY <2>1, <2>4
    <3>2. at[j] = at[k]
      BY <1>3, <3>1
    <3> QED BY <1>1, <3>2
  <2>5. ASSUME NEW k \in 1..Len(w)
        PROVE  /\ IndexAt(w, k) \in Nat
               /\ \E j \in 1..Len(m) : IndexAt(m, j) = IndexAt(w, k)
    BY <2>1, <2>2, <2>3, <2>5
  <2> QED BY <2>4, <2>5
<1> QED BY <1>2, <1>3 DEF Metadata

LEMMA FoundPallet ==
  ASSUME NEW m \in Metadata, NEW id, NEW field, FindPallet(m, id, field) # Error
  PROVE  LET w == WithItems(m, field)
             k == FirstMatch(w, id)
         IN  /\ ~Unrecognized(m, id) /\ k \in Matches(w, id) /\ k \in 1..Len(w)
             /\ FindPallet(m, id, field) = [pallet |-> w[k], index |-> IndexAt(w, k)]
<1> DEFINE w == WithItems(m, field)
<1>1. w \in Seq(Pallets)
  BY FieldsKept DEF HaveField, Metadata
<1>2. ~Unrecognized(m, id) /\ Matches(w, id) # {}
  BY DEF FindPallet
<1>3. FindPallet(m, id, field)
        = [pallet |-> w[FirstMatch(w, id)], index |-> IndexAt(w, FirstMatch(w, id))]
  BY <1>2 DEF FindPallet
<1> HIDE DEF w
<1>4. FirstMatch(w, id) \in Matches(w, id)
  BY <1>1, <1>2, FirstMatches
<1>5. FirstMatch(w, id) \in 1..Len(w)
  BY <1>1, <1>4 DEF Matches
<1> QED BY <1>2, <1>3, <1>4, <1>5 DEF w

\* The routes of the pallets, for any metadata.
LEMMA EveryLookupAgrees ==
  ASSUME NEW m \in Metadata, NEW name \in STRING
  PROVE  PalletLookupsAgree(m, name)
<1> DEFINE id == [name |-> name, number |-> Null]
           found(field) == FindPallet(m, id, field)
<1>0. m \in Seq(Pallets) /\ Len(m) \in Nat /\ DOMAIN m = 1..Len(m)
  BY DEF Metadata
<1>1. ASSUME NEW field \in ItemFields, found(field) # Error
      PROVE  FindPallet(m, ById(found(field).index), field) = found(field)
  <2> DEFINE w == WithItems(m, field)
             k == FirstMatch(w, id)
             index == IndexAt(w, k)
             by == ById(index)
  <2>1. k \in 1..Len(w) /\ found(field) = [pallet |-> w[k], index |-> index]
    BY <1>1, FoundPallet
  <2>2. PICK at : HaveField(w, m, field, at)
    BY <1>0, FieldsKept
  <2>3. w \in Seq(Pallets)
    BY <2>2 DEF HaveField
  <2> HIDE DEF w, k
  <2>4. /\ \A j \in 1..Len(w) : IndexAt(w, j) = index => j = k
        /\ index \in Nat /\ \E j \in 1..Len(m) : IndexAt(m, j) = index
    BY <2>1, <2>2, IndicesApart
  <2> HIDE DEF index
  <2>5. by.number = index /\ index # Null
    BY <2>4, NullAssumption DEF ById
  <2> HIDE DEF by
  <2>6. ~Unrecognized(m, by)
    BY <1>0, <2>4, <2>5 DEF Unrecognized
  <2>7. Matches(w, by) = {k}
    <3>1. DOMAIN w = 1..Len(w)
      BY <2>3
    <3>2. Matches(w, by) = {j \in 1..Len(w) : IndexAt(w, j) = index}
      BY <2>5, <3>1 DEF Matches
    <3>3. IndexAt(w, k) = index
      BY DEF index
    <3> QED BY <2>1, <2>4, <3>2, <3>3
  <2>8. FirstMatch(w, by) = k
    <3>1. FirstMatch(w, by) \in Matches(w, by)
      BY <2>3, <2>7, FirstMatches
    <3> QED BY <2>7, <3>1
  <2>9. FindPallet(m, by, field) = [pallet |-> w[k], index |-> IndexAt(w, k)]
    BY <2>6, <2>7, <2>8 DEF FindPallet, w
  <2>10. found(field).index = index
    BY <2>1
  <2> HIDE DEF found
  <2> QED BY <2>1, <2>9, <2>10 DEF index, by
<1>2. ASSUME Numbered(m), NEW f \in ItemFields, NEW g \in ItemFields,
             found(f) # Error, found(g) # Error
      PROVE  found(f) = found(g)
  <2> DEFINE PalletOf(field, k) ==
               /\ k \in 1..Len(m) /\ m[k].name = name
               /\ found(field) = [pallet |-> m[k], index |-> m[k].index]
  <2>1. ASSUME NEW field \in ItemFields, found(field) # Error
        PROVE  \E k : PalletOf(field, k)
    <3> DEFINE w == WithItems(m, field)
               k == FirstMatch(w, id)
    <3>1. /\ k \in 1..Len(w) /\ k \in Matches(w, id)
          /\ found(field) = [pallet |-> w[k], index |-> IndexAt(w, k)]
      BY <2>1, FoundPallet
    <3>2. PICK at : HaveField(w, m, field, at)
      BY <1>0, FieldsKept
    <3> HIDE DEF w, k
    <3>3. w \in Seq(Pallets) /\ at[k] \in 1..Len(m) /\ w[k] = m[at[k]]
      BY <3>1, <3>2 DEF HaveField
    <3>4. w[k].name = name
      BY <3>1 DEF Matches
    <3>5. m[at[k]].index # NoIndex
      BY <1>0, <1>2, <3>3 DEF Numbered, ToSet
    <3>6. IndexAt(w, k) = m[at[k]].index
      BY <3>3, <3>5 DEF IndexAt
    <3> QED BY <3>1, <3>3, <3>4, <3>6
  <2>2. PICK j : PalletOf(f, j)
    BY <1>2, <2>1
  <2>3. PICK k : PalletOf(g, k)
    BY <1>2, <2>1
  <2>4. j = k
    BY <2>2, <2>3 DEF Metadata
  <2> QED BY <2>2, <2>3, <2>4
<1> HIDE DEF found
<1>3. /\ \A field \in ItemFields :
           found(field) # Error =>
             FindPallet(m, ById(found(field).index), field) = found(field)
      /\ Numbered(m) =>
           \A f, g \in ItemFields : found(f) # Error /\ found(g) # Error => found(f) = found(g)
  BY <1>1, <1>2
<1> QED BY <1>3 DEF found, PalletLookupsAgree

\* The position of a name: that of the first that has it, 0 if none has.
LEMMA NamedPosition ==
  ASSUME NEW T, NEW s \in Seq(T), NEW name
  PROVE  LET position == PositionOf(name, s)
         IN  /\ position \in 0..Len(s)
             /\ position = 0 <=> \A k \in 1..Len(s) : s[k].name # name
             /\ position # 0 => s[position].name = name
<1> DEFINE K == {k \in 1..Len(s) : s[k].name = name}
           position == PositionOf(name, s)
<1>1. position = IF K # {} THEN Min(K) ELSE 0
  BY DEF PositionOf, SelectInSeq
<1>2. Len(s) \in Nat /\ K \in SUBSET (1..Len(s))
  OBVIOUS
<1>3. CASE K = {}
  <2>1. position = 0 /\ \A k \in 1..Len(s) : s[k].name # name
    BY <1>1, <1>3
  <2> HIDE DEF position
  <2> QED BY <2>1, <1>2 DEF position
<1>4. CASE K # {}
  <2>1. Min(K) \in K
    <3> HIDE DEF K
    <3> QED BY <1>2, <1>4, MinIsFirst
  <2>2. position \in K
    BY <1>1, <1>4, <2>1
  <2>3. position \in 1..Len(s) /\ position # 0 /\ s[position].name = name
    <3> HIDE DEF position
    <3> QED BY <1>2, <2>2
  <2>4. position \in 0..Len(s)
    <3> HIDE DEF position
    <3> QED BY <2>3
  <2> QED BY <2>3, <2>4
<1> QED BY <1>3, <1>4

Entries == [name : STRING, index : Nat]

\* What a route has of the pallet it found.
LEMMA ItemsAre ==
  ASSUME NEW m \in Metadata, NEW head \in Seq(Pallets), NEW id, NEW field \in ItemFields,
         FindPallet(m, id, field) # Error
  PROVE  LET p == FindPallet(m, id, field).pallet
             items == ItemsOf(head, p, field)
         IN  /\ items = Null \/ items \in Seq(Entries)
             /\ field # "calls" => /\ p \in ToSet(m) /\ p.items[field] # Null
                                   /\ items = p.items[field]
<1> DEFINE w == WithItems(m, field)
           k == FirstMatch(w, id)
           p == FindPallet(m, id, field).pallet
           items == ItemsOf(head, p, field)
<1>0. m \in Seq(Pallets) /\ DOMAIN m = 1..Len(m)
  BY DEF Metadata
<1>1. k \in 1..Len(w) /\ p = w[k]
  BY FoundPallet
<1>2. PICK at : HaveField(w, m, field, at)
  BY <1>0, FieldsKept
<1> HIDE DEF w, k, p
<1>3. /\ w \in Seq(Pallets) /\ at[k] \in 1..Len(m) /\ w[k] = m[at[k]]
      /\ w[k].items[field] # Null
  BY <1>1, <1>2 DEF HaveField
<1>4. p \in ToSet(m) /\ p \in Pallets /\ p.items[field] # Null
  BY <1>0, <1>1, <1>3 DEF ToSet
<1>5. \A q \in Pallets, f \in ItemFields : q.items[f] = Null \/ q.items[f] \in Seq(Entries)
  BY DEF Pallets, Items, Entries
<1>6. CASE field = "calls"
  <2> DEFINE position == PositionOf(p.name, head)
  <2>1. position \in 0..Len(head)
    BY NamedPosition
  <2>2. items = IF position = 0 THEN Null ELSE head[position].items["calls"]
    BY <1>6 DEF ItemsOf, Dispatchables
  <2> HIDE DEF position, items
  <2>3. position = 0 => items = Null
    BY <2>2
  <2>4. position # 0 => items = Null \/ items \in Seq(Entries)
    <3> SUFFICES ASSUME position # 0 PROVE items = Null \/ items \in Seq(Entries)
      OBVIOUS
    <3>1. position \in 1..Len(head)
      BY <2>1
    <3>2. head[position] \in Pallets
      BY <3>1
    <3>3. "calls" \in ItemFields
      BY DEF ItemFields
    <3>4. LET c == head[position].items["calls"] IN c = Null \/ c \in Seq(Entries)
      BY <1>5, <3>2, <3>3
    <3> QED BY <2>2, <3>4
  <2> QED BY <1>6, <2>3, <2>4 DEF items, p
<1>7. CASE field # "calls"
  <2>1. items = p.items[field]
    BY <1>7 DEF ItemsOf
  <2> HIDE DEF items
  <2>2. items \in Seq(Entries)
    BY <1>4, <1>5, <2>1
  <2> QED BY <1>4, <2>1, <2>2 DEF items, p
<1> QED BY <1>6, <1>7

LEMMA NoError ==
  /\ \A a, b, c, d : [pallet |-> a, palletIndex |-> b, item |-> c, metadata |-> d] # Error
  /\ \A a, b, c : [pallet |-> a, palletIndex |-> b, items |-> c] # Error
BY DEF Error

\* The items of the pallets, for any metadata and paths.
LEMMA EveryItemAgrees ==
  ASSUME NEW m \in Metadata, NEW head \in Seq(Pallets), NEW palletId,
         NEW itemId \in [name : STRING, exact : BOOLEAN], NEW field \in ItemFields
  PROVE  ItemsAgree(m, head, palletId, itemId, field)
<1> DEFINE item == FetchItem(m, head, palletId, itemId, field, FALSE)
           told == FetchItem(m, head, palletId, itemId, field, TRUE)
           list == FetchItems(m, head, palletId, field)
           found == FindPallet(m, palletId, field)
           items == ItemsOf(head, found.pallet, field)
           position == PositionOf(itemId.name, items)
           meta == MetaOf(items, field, position)
           unasked == field = "storage" /\ ~itemId.exact
           answer(x) == [pallet |-> found.pallet.name, palletIndex |-> found.index,
                         item |-> itemId.name, metadata |-> x]
           dense(s) == \A k \in DOMAIN s : s[k].index = k - 1
<1>1. item = IF found = Error \/ items = Null \/ position = 0 \/ unasked
             THEN Error ELSE answer(Null)
  BY DEF FetchItem
<1>2. told = IF found = Error \/ items = Null \/ position = 0 \/ meta = Null \/ unasked
             THEN Error ELSE answer(meta)
  BY DEF FetchItem
<1>3. list = IF found = Error \/ items = Null THEN Error
             ELSE [pallet |-> found.pallet.name, palletIndex |-> found.index, items |-> items]
  BY DEF FetchItems
<1>4. ASSUME found # Error
      PROVE  /\ items = Null \/ items \in Seq(Entries)
             /\ field # "calls" => /\ found.pallet \in ToSet(m)
                                   /\ found.pallet.items[field] # Null
                                   /\ items = found.pallet.items[field]
  BY <1>4, ItemsAre
<1>5. ASSUME items \in Seq(Entries)
      PROVE  /\ position \in 0..Len(items)
             /\ position = 0 <=> ~\E i \in ToSet(items) : i.name = itemId.name
             /\ position # 0 => items[position].name = itemId.name
  <2> HIDE DEF items
  <2>1. /\ position \in 0..Len(items)
        /\ position = 0 <=> \A k \in 1..Len(items) : items[k].name # itemId.name
        /\ position # 0 => items[position].name = itemId.name
    BY <1>5, NamedPosition
  <2>2. DOMAIN items = 1..Len(items)
    BY <1>5
  <2> HIDE DEF position
  <2> QED BY <2>1, <2>2 DEF ToSet
<1>6. ASSUME items \in Seq(Entries), position \in 1..Len(items),
             items[position].name = itemId.name,
             field \in {"storage", "constants"} \/ dense(items)
      PROVE  meta # Null /\ meta.name = itemId.name
  <2>1. items[position] \in Entries /\ DOMAIN items = 1..Len(items)
    BY <1>6
  <2>2. meta = items[position]
    <3>1. CASE field \in {"storage", "constants"}
      BY <3>1 DEF MetaOf
    <3>2. CASE field \notin {"storage", "constants"}
      <4>1. items[position].index = position - 1
        BY <1>6, <2>1, <3>2
      <4>2. items[position].index + 1 = position /\ position \in DOMAIN items
        BY <1>6, <2>1, <4>1
      <4> HIDE DEF items, position
      <4> QED BY <3>2, <4>2 DEF MetaOf
    <3> QED BY <3>1, <3>2
  <2>3. Null \notin Entries
    BY ItemAssumption DEF Entries
  <2> HIDE DEF items, position, meta
  <2> QED BY <1>6, <2>1, <2>2, <2>3
<1>7. [answer(meta) EXCEPT !.metadata = Null] = answer(Null) /\ answer(meta).metadata = meta
  <2> HIDE DEF found, meta
  <2> QED OBVIOUS
<1>8. answer(Null) # Error /\ answer(meta) # Error
  BY NoError
<1>9. list # Error => list.items = items
  BY <1>3
<1>10. list # Error <=> found # Error /\ items # Null
  BY <1>3, NoError
<1>11. answer(Null).pallet = found.pallet.name
  OBVIOUS
<1> HIDE DEF item, told, list, found, items, position, meta, answer
<1>12. CASE found = Error \/ items = Null
  <2>1. item = Error /\ told = Error /\ list = Error
    BY <1>1, <1>2, <1>3, <1>12
  <2> QED BY <2>1 DEF ItemsAgree, item, told, list
<1>13. CASE found # Error /\ items # Null
  <2>1. items \in Seq(Entries)
    BY <1>4, <1>13
  <2>2. list # Error /\ list.items = items
    BY <1>9, <1>10, <1>13
  <2>3. item # Error <=> position # 0 /\ ~unasked
    BY <1>1, <1>8, <1>13
  <2>4. told # Error <=> position # 0 /\ ~unasked /\ meta # Null
    BY <1>2, <1>8, <1>13
  <2>5. position # 0 => position \in 1..Len(items)
    BY <1>5, <2>1
  <2>6. itemId.exact =>
          (item # Error <=> list # Error /\ \E i \in ToSet(list.items) : i.name = itemId.name)
    BY <1>5, <2>1, <2>2, <2>3
  <2>7. item # Error /\ field # "calls" =>
          \E p \in ToSet(m) : /\ p.name = item.pallet /\ p.items[field] # Null
                             /\ \E i \in ToSet(p.items[field]) : i.name = itemId.name
    <3> SUFFICES ASSUME item # Error, field # "calls"
                 PROVE  /\ found.pallet \in ToSet(m) /\ found.pallet.name = item.pallet
                        /\ found.pallet.items[field] # Null
                        /\ \E i \in ToSet(found.pallet.items[field]) : i.name = itemId.name
      OBVIOUS
    <3>1. item = answer(Null)
      BY <1>1, <1>13, <2>3
    <3> QED BY <1>4, <1>5, <1>11, <1>13, <2>1, <2>3, <3>1
  <2>8. item # Error /\ (field \in {"storage", "constants"} \/ dense(list.items)) =>
          told # Error /\ told.metadata.name = itemId.name
    <3> SUFFICES ASSUME item # Error, field \in {"storage", "constants"} \/ dense(list.items)
                 PROVE  told # Error /\ told.metadata.name = itemId.name
      OBVIOUS
    <3>1. meta # Null /\ meta.name = itemId.name
      BY <1>5, <1>6, <2>1, <2>2, <2>3, <2>5
    <3>2. told # Error /\ told = answer(meta)
      BY <1>2, <1>13, <2>3, <2>4, <3>1
    <3> QED BY <1>7, <3>1, <3>2
  <2>9. told # Error => item = [told EXCEPT !.metadata = Null]
    <3> SUFFICES ASSUME told # Error PROVE item = [told EXCEPT !.metadata = Null]
      OBVIOUS
    <3>1. item = answer(Null) /\ told = answer(meta)
      BY <1>1, <1>2, <1>13, <2>4
    <3> QED BY <1>7, <3>1
  <2> QED BY <2>6, <2>7, <2>8, <2>9 DEF ItemsAgree, item, told, list
<1> QED BY <1>12, <1>13

\* Sequences that say nothing twice.
SaidOnce(T) == {s \in Seq(T) : \A j, k \in 1..Len(s) : s[j] = s[k] => j = k}

\* What they say is as much as they are long.
LEMMA OnceCounts ==
  ASSUME NEW T, NEW s \in SaidOnce(T)
  PROVE  Cardinality(ToSet(s)) = Len(s)
<1>1. s \in Seq(T) /\ Len(s) \in Nat /\ DOMAIN s = 1..Len(s)
  BY DEF SaidOnce
<1>2. s \in [1..Len(s) -> ToSet(s)]
  BY <1>1 DEF ToSet
<1>3. s \in Bijection(1..Len(s), ToSet(s))
  BY <1>1, <1>2 DEF SaidOnce, Bijection, Injection, Surjection, IsInjective, ToSet
<1>4. ExistsBijection(1..Len(s), ToSet(s))
  BY <1>3 DEF ExistsBijection
<1> QED BY <1>1, <1>4, FS_CountingElements

\* What is left of a sequence by another keeps to that.
LEMMA OthersKept ==
  ASSUME NEW T, NEW a \in SaidOnce(T), NEW told
  PROVE  LET c == Kept(a, {k \in DOMAIN a : a[k] \notin told})
         IN  c \in SaidOnce(T) /\ ToSet(c) = ToSet(a) \ told
<1> DEFINE places == {k \in DOMAIN a : a[k] \notin told}
           c == Kept(a, places)
<1>1. a \in Seq(T) /\ Len(a) \in Nat /\ DOMAIN a = 1..Len(a)
  BY DEF SaidOnce
<1>2. c \in Seq(T) /\ IsListed(c, a, places)
  BY <1>1, KeptHasList
<1>3. PICK at : /\ Lists(at, Len(c), places, Len(a))
                /\ \A i \in 1..Len(c) : c[i] = a[at[i]]
  BY <1>2 DEF IsListed
<1>4. /\ Len(c) \in Nat /\ at \in [1..Len(c) -> (1..Len(a)) \cap places]
      /\ \A i, j \in 1..Len(c) : i < j => at[i] < at[j]
      /\ \A k \in (1..Len(a)) \cap places : \E i \in 1..Len(c) : at[i] = k
  BY <1>3 DEF Lists
<1>5. DOMAIN c = 1..Len(c)
  BY <1>2
<1> HIDE DEF c
<1>6. c \in SaidOnce(T)
  <2>1. ASSUME NEW j \in 1..Len(c), NEW k \in 1..Len(c), c[j] = c[k] PROVE j = k
    <3>1. at[j] \in 1..Len(a) /\ at[k] \in 1..Len(a) /\ a[at[j]] = a[at[k]]
      BY <1>3, <1>4, <2>1
    <3>2. at[j] = at[k]
      BY <3>1 DEF SaidOnce
    <3> QED BY <1>4, <3>1, <3>2
  <2> QED BY <1>2, <2>1 DEF SaidOnce
<1>7. ASSUME NEW x \in ToSet(c) PROVE x \in ToSet(a) \ told
  <2>1. PICK i \in 1..Len(c) : x = c[i]
    BY <1>5, <1>7 DEF ToSet
  <2>2. at[i] \in places /\ x = a[at[i]]
    BY <1>3, <1>4, <2>1
  <2> QED BY <2>2 DEF ToSet
<1>8. ASSUME NEW x \in ToSet(a) \ told PROVE x \in ToSet(c)
  <2>1. PICK k \in DOMAIN a : x = a[k]
    BY <1>8 DEF ToSet
  <2>2. k \in (1..Len(a)) \cap places
    BY <1>1, <1>8, <2>1
  <2>3. PICK i \in 1..Len(c) : at[i] = k
    BY <1>4, <2>2
  <2> QED BY <1>3, <1>5, <2>1, <2>3 DEF ToSet
<1> QED BY <1>6, <1>7, <1>8 DEF c

LEMMA OnceTogether ==
  ASSUME NEW T, NEW r \in SaidOnce(T), NEW c \in SaidOnce(T), ToSet(r) \cap ToSet(c) = {}
  PROVE  r \o c \in SaidOnce(T) /\ ToSet(r \o c) = ToSet(r) \cup ToSet(c)
<1> DEFINE z == r \o c
           m == Len(r)
           n == Len(c)
<1>1. /\ r \in Seq(T) /\ c \in Seq(T) /\ z \in Seq(T) /\ m \in Nat /\ n \in Nat
      /\ Len(z) = m + n /\ DOMAIN r = 1..m /\ DOMAIN c = 1..n /\ DOMAIN z = 1..(m + n)
      /\ \A k \in 1..m : z[k] = r[k]
      /\ \A k \in (m + 1)..(m + n) : z[k] = c[k - m]
  BY DEF SaidOnce
<1>2. \A j \in 1..m, k \in 1..n : r[j] # c[k]
  BY <1>1 DEF ToSet
<1> HIDE DEF z, m, n
<1>3. ASSUME NEW j \in 1..(m + n), NEW k \in 1..(m + n), z[j] = z[k] PROVE j = k
  <2>1. CASE j \in 1..m /\ k \in 1..m
    BY <1>1, <1>3, <2>1 DEF SaidOnce, m
  <2>2. CASE j \in (m + 1)..(m + n) /\ k \in (m + 1)..(m + n)
    <3>1. j - m \in 1..n /\ k - m \in 1..n /\ c[j - m] = c[k - m]
      BY <1>1, <1>3, <2>2
    <3>2. j - m = k - m
      BY <3>1 DEF SaidOnce, n
    <3> QED BY <1>1, <3>2
  <2>3. CASE j \in 1..m /\ k \in (m + 1)..(m + n)
    <3>1. k - m \in 1..n /\ r[j] = c[k - m]
      BY <1>1, <1>3, <2>3
    <3> QED BY <1>2, <2>3, <3>1
  <2>4. CASE k \in 1..m /\ j \in (m + 1)..(m + n)
    <3>1. j - m \in 1..n /\ r[k] = c[j - m]
      BY <1>1, <1>3, <2>4
    <3> QED BY <1>2, <2>4, <3>1
  <2> QED BY <1>1, <2>1, <2>2, <2>3, <2>4
<1>4. z \in SaidOnce(T)
  BY <1>1, <1>3 DEF SaidOnce
<1>5. ToSet(z) \subseteq ToSet(r) \cup ToSet(c)
  <2> SUFFICES ASSUME NEW k \in 1..(m + n) PROVE z[k] \in ToSet(r) \cup ToSet(c)
    BY <1>1 DEF ToSet
  <2>1. CASE k \in 1..m
    BY <1>1, <2>1 DEF ToSet
  <2>2. CASE k \in (m + 1)..(m + n)
    <3>1. k - m \in 1..n /\ z[k] = c[k - m]
      BY <1>1, <2>2
    <3> QED BY <1>1, <3>1 DEF ToSet
  <2> QED BY <1>1, <2>1, <2>2
<1>6. ToSet(r) \subseteq ToSet(z)
  BY <1>1 DEF ToSet
<1>7. ToSet(c) \subseteq ToSet(z)
  <2> SUFFICES ASSUME NEW k \in 1..n PROVE c[k] \in ToSet(z)
    BY <1>1 DEF ToSet
  <2>1. m + k \in (m + 1)..(m + n) /\ m + k - m = k
    BY <1>1
  <2>2. z[m + k] = c[k] /\ m + k \in 1..(m + n)
    BY <1>1, <2>1
  <2> QED BY <1>1, <2>2 DEF ToSet
<1> QED BY <1>4, <1>5, <1>6, <1>7 DEF z

\* The states of blocks, in which no list names a validator twice.
ValidatorStates(vs, eras) ==
  [hasStaking : BOOLEAN, isBad : BOOLEAN, paged : BOOLEAN,
   registered : SaidOnce(vs), session : SaidOnce(vs), overview : [eras -> SaidOnce(vs)],
   activeEra : eras \cup {Null}, currentEra : eras \cup {Null}]

\* The validators of any block.
LEMMA EveryValidatorTold ==
  ASSUME NEW vs, NEW eras, NEW state \in ValidatorStates(vs, eras)
  PROVE  ValidatorsTold(state)
<1> DEFINE active == ActiveValidators(state)
           registered == state.registered
           inSet == ToSet(active)
           told == ToSet(registered)
           status(v) == IF v \in inSet THEN "active" ELSE "waiting"
           chilled == Kept(active, {k \in DOMAIN active : active[k] \notin told})
           Told(s) == [k \in DOMAIN s |-> Validator(s[k], status(s[k]))]
           answer == StakingValidators(state)
           all == registered \o chilled
<1>1. registered \in SaidOnce(vs)
  BY DEF ValidatorStates
<1>2. active = Null \/ active \in SaidOnce(vs)
  BY DEF ValidatorStates, ActiveValidators
<1>3. answer = IF ~state.hasStaking \/ state.isBad \/ active = Null THEN Error
               ELSE [validators |-> Told(all), validatorsToBeChilled |-> Told(chilled)]
  BY DEF StakingValidators
<1>4. CASE answer = Error
  BY <1>4 DEF ValidatorsTold
<1>5. CASE answer # Error
  <2>1. active \in SaidOnce(vs)
    BY <1>2, <1>3, <1>5
  <2>2. answer.validators = Told(all) /\ answer.validatorsToBeChilled = Told(chilled)
    <3> HIDE DEF answer, active, Told, all, chilled
    <3> QED BY <1>3, <1>5
  <2>3. chilled \in SaidOnce(vs) /\ ToSet(chilled) = inSet \ told
    <3> HIDE DEF active, told
    <3> QED BY <2>1, OthersKept
  <2> HIDE DEF chilled
  <2>4. all \in SaidOnce(vs) /\ ToSet(all) = told \cup inSet
    BY <1>1, <2>3, OnceTogether
  <2> HIDE DEF all
  <2>5. ASSUME NEW s \in SaidOnce(vs)
        PROVE  /\ Len(Told(s)) = Cardinality(ToSet(s))
               /\ ToSet(Told(s)) = {Validator(v, status(v)) : v \in ToSet(s)}
    <3>1. s \in Seq(vs) /\ Len(s) \in Nat /\ DOMAIN s = 1..Len(s)
      BY DEF SaidOnce
    <3>2. Len(Told(s)) = Len(s)
      BY <3>1
    <3>3. ToSet(Told(s)) = {Validator(v, status(v)) : v \in ToSet(s)}
      BY DEF ToSet
    <3> QED BY <3>2, <3>3, OnceCounts
  <2>6. \A v : Validator(v, status(v)).address = v
               /\ (Validator(v, status(v)).status = "active" <=> v \in inSet)
    BY DEF Validator
  <2> HIDE DEF status, Told, answer, active, registered, told, inSet
  <2>7. Len(answer.validators) = Cardinality(told \cup inSet)
    BY <2>2, <2>4, <2>5
  <2>8. {v.address : v \in ToSet(answer.validators)} = told \cup inSet
    <3>1. ToSet(answer.validators) = {Validator(v, status(v)) : v \in told \cup inSet}
      BY <2>2, <2>4, <2>5
    <3> QED BY <2>6, <3>1
  <2>9. \A v \in ToSet(answer.validators) : v.status = "active" <=> v.address \in inSet
    BY <2>2, <2>4, <2>5, <2>6
  <2>10. ToSet(answer.validatorsToBeChilled) = {Validator(a, "active") : a \in inSet \ told}
    <3>1. ToSet(answer.validatorsToBeChilled) = {Validator(a, status(a)) : a \in inSet \ told}
      BY <2>2, <2>3, <2>5
    <3>2. \A a \in inSet : status(a) = "active"
      BY DEF status
    <3> QED BY <3>1, <3>2
  <2> QED BY <2>7, <2>8, <2>9, <2>10 DEF ValidatorsTold, answer, active, registered, told, inSet
<1> QED BY <1>4, <1>5

Inclusions(methods, blocks) == [method : methods, paraId : Nat, block : blocks]

\* The inclusions of any relay block.
LEMMA EveryInclusionTold ==
  ASSUME NEW methods, NEW blocks, NEW events \in Seq(Inclusions(methods, blocks)),
         NEW paraId \in Nat
  PROVE  InclusionsTold(events, paraId)
<1> DEFINE T == Inclusions(methods, blocks)
           inc == Included(events)
           n == Len(inc)
           key == [k \in DOMAIN inc |-> inc[k].paraId]
           own == {i \in DOMAIN inc : inc[i].paraId = paraId}
           mine == OfPara(inc, paraId)
           sorted == SortByPara(inc)
           all == ParaInclusions(events, Null)
           one == ParaInclusions(events, paraId)
<1>1. inc \in Seq(T) /\ n \in Nat /\ DOMAIN inc = 1..n
  BY KeptHasList DEF Included
<1>2. paraId # Null
  BY NullAssumption
<1>3. /\ all = IF inc = <<>> THEN Error ELSE [inclusions |-> sorted]
      /\ one = IF inc = <<>> THEN Error ELSE [inclusions |-> SortByPara(mine)]
  BY <1>2 DEF ParaInclusions
<1>4. \A x : [inclusions |-> x] # Error
  BY DEF Error
<1> HIDE DEF inc, all, one
<1>5. key \in [1..n -> Int] /\ own = {i \in 1..n : key[i] = paraId}
  <2>1. \A k \in 1..n : inc[k].paraId \in Nat
    <3> TAKE k \in 1..n
    <3>1. inc[k] \in T
      BY <1>1
    <3> QED BY <3>1 DEF Inclusions
  <2> QED BY <1>1, <2>1
<1>6. SortByPara(mine) = mine
  <2> DEFINE keys == [k \in DOMAIN mine |-> mine[k].paraId]
  <2>1. mine \in Seq(T) /\ IsListed(mine, inc, own)
    BY <1>1, KeptHasList DEF OfPara
  <2>2. PICK at : /\ Lists(at, Len(mine), own, n)
                  /\ \A i \in 1..Len(mine) : mine[i] = inc[at[i]]
    BY <2>1 DEF IsListed
  <2> HIDE DEF mine
  <2>3. \A i \in 1..Len(mine) : mine[i].paraId = paraId
    <3> TAKE i \in 1..Len(mine)
    <3>1. at[i] \in own /\ mine[i] = inc[at[i]]
      BY <2>2 DEF Lists
    <3> QED BY <3>1
  <2> HIDE DEF own
  <2>4. /\ DOMAIN mine = 1..Len(mine) /\ keys \in [1..Len(mine) -> Int]
        /\ \A i, j \in 1..Len(mine) : i < j => keys[i] <= keys[j]
    BY <2>1, <2>3
  <2> HIDE DEF keys
  <2>5. Sorted(mine, keys) = mine
    BY <2>1, <2>4, OrderedStays
  <2> QED BY <2>5 DEF SortByPara, keys
<1>7. PICK at : Orders(at, n, key) /\ sorted = [k \in 1..n |-> inc[at[k]]]
  <2> HIDE DEF key
  <2>1. sorted = Sorted(inc, key)
    BY DEF SortByPara, key
  <2> HIDE DEF sorted
  <2>2. SortsBy(sorted, inc, key)
    BY <1>1, <1>5, <2>1, SortOrders
  <2> QED BY <1>1, <2>2 DEF SortsBy
<1>8. \A k \in 1..n : at[k] \in 1..n
  BY <1>7 DEF Orders
<1>9. DOMAIN sorted = 1..n /\ \A k \in 1..n : sorted[k].paraId = key[at[k]]
  <2> HIDE DEF sorted
  <2> QED BY <1>1, <1>7, <1>8
<1>10. OfPara(sorted, paraId) = mine
  <2> DEFINE places == {k \in 1..n : key[at[k]] = paraId}
  <2>1. {k \in DOMAIN sorted : sorted[k].paraId = paraId} = places
    <3> HIDE DEF sorted, key
    <3> QED BY <1>9
  <2>2. Kept([k \in 1..n |-> inc[at[k]]], places) = Kept(inc, own)
    <3>1. /\ key \in [1..Len(inc) -> Int] /\ own = {i \in 1..Len(inc) : key[i] = paraId}
          /\ Orders(at, Len(inc), key) /\ places = {k \in 1..Len(inc) : key[at[k]] = paraId}
      BY <1>5, <1>7
    <3> HIDE DEF key, own, places
    <3>2. KeepsSame(inc, at, places, own)
      BY <1>1, <3>1, KeptOfSorted
    <3> QED BY <3>2 DEF KeepsSame
  <2> HIDE DEF sorted, key, places
  <2> QED BY <1>7, <2>1, <2>2 DEF OfPara
<1>11. ASSUME NEW j \in DOMAIN sorted, NEW k \in DOMAIN sorted, j < k
       PROVE  sorted[j].paraId <= sorted[k].paraId
  <2> HIDE DEF sorted, key
  <2>1. key[at[j]] <= key[at[k]]
    <3>1. key[at[j]] < key[at[k]] \/ key[at[j]] = key[at[k]]
      BY <1>7, <1>9, <1>11 DEF Orders
    <3>2. key[at[j]] \in Int /\ key[at[k]] \in Int
      BY <1>5, <1>8, <1>9, <1>11
    <3> QED BY <3>1, <3>2
  <2> QED BY <1>9, <2>1
<1> HIDE DEF sorted, mine
<1>12. CASE inc = <<>>
  <2>1. all = Error /\ one = Error
    BY <1>3, <1>12
  <2> QED BY <2>1 DEF InclusionsTold, all, one
<1>13. CASE inc # <<>>
  <2>1. /\ all # Error /\ all.inclusions = sorted
        /\ one # Error /\ one.inclusions = mine
    BY <1>3, <1>4, <1>6, <1>13
  <2>2. one.inclusions = OfPara(Included(events), paraId)
    BY <2>1 DEF mine, inc
  <2> QED BY <1>10, <1>11, <2>1, <2>2 DEF InclusionsTold, all, one
<1> QED BY <1>12, <1>13

\* The states that the reads find: one for the list, and one for each asset of it.
Heads(assets, metadata) ==
  {heads \in Seq([assets : Seq([asset : assets, isHex : BOOLEAN]),
                  metadata : [assets -> metadata]]) :
     heads # <<>> /\ Len(heads) > Len(heads[1].assets)}

\* The foreign assets, for any movement of the head.
LEMMA EveryForeignAssetPaired ==
  ASSUME NEW assets, NEW metadata, NEW heads \in Heads(assets, metadata)
  PROVE  ForeignAssetsPaired(heads)
<1> DEFINE Asset == [asset : assets, isHex : BOOLEAN]
           State == [assets : Seq(Asset), metadata : [assets -> metadata]]
           listed == heads[1].assets
           told(k) == IF listed[k].isHex THEN Null ELSE heads[k + 1].metadata[listed[k].asset]
           answer == ForeignAssets(heads)
           known(asset) == {head.metadata[asset] : head \in ToSet(heads)}
<1>1. heads \in Seq(State) /\ Len(heads) > Len(listed) /\ heads # <<>>
  BY DEF Heads
<1>2. Len(heads) \in Nat /\ DOMAIN heads = 1..Len(heads) /\ heads[1] \in State
  <2> HIDE DEF State
  <2>1. Len(heads) \in Nat /\ DOMAIN heads = 1..Len(heads) /\ Len(heads) # 0
    BY <1>1
  <2>2. 1 \in 1..Len(heads)
    BY <2>1
  <2> QED BY <1>1, <2>1, <2>2
<1>3. listed \in Seq(Asset)
  BY <1>2
<1>4. answer = [k \in DOMAIN listed |-> [asset |-> listed[k].asset, metadata |-> told(k)]]
  BY DEF ForeignAssets
<1> HIDE DEF answer, listed
<1>5. Len(listed) \in Nat /\ DOMAIN listed = 1..Len(listed)
  BY <1>3
<1>6. ASSUME NEW k \in DOMAIN listed
      PROVE  /\ answer[k].asset = listed[k].asset
             /\ answer[k].metadata \in known(listed[k].asset) \cup {Null}
  <2>1. answer[k].asset = listed[k].asset /\ answer[k].metadata = told(k)
    BY <1>4
  <2>2. k + 1 \in DOMAIN heads
    BY <1>1, <1>2, <1>5
  <2>3. heads[k + 1] \in ToSet(heads)
    BY <2>2 DEF ToSet
  <2>4. told(k) \in known(listed[k].asset) \cup {Null}
    BY <2>3
  <2> QED BY <2>1, <2>4
<1> QED BY <1>6 DEF ForeignAssetsPaired, answer, listed

Bounds(blocks) == [start : blocks \cup {Null}, end : blocks \cup {Null}]
BothBounds(blocks) == [relay : Bounds(blocks), assetHub : Bounds(blocks)]
ChainPairs(blocks) ==
  [table : BothBounds(blocks) \cup {Null}, hub : Bounds(blocks) \cup {Null},
   relay : Bounds(blocks) \cup {Null}]

\* The migration, of any pair of chains.
LEMMA EveryMigrationTold ==
  ASSUME NEW blocks, NEW pair \in ChainPairs(blocks), NEW connected \in BOOLEAN
  PROVE  MigrationTold(pair, connected)
<1> DEFINE hub == FetchAhmInfo(TRUE, pair, connected)
           relay == FetchAhmInfo(FALSE, pair, connected)
<1>1. \A x, y : [relay |-> x, assetHub |-> y] # Error
  BY DEF Error
<1>2. pair.table # Null => pair.table # Error
  BY DEF ChainPairs, BothBounds, Error
<1>3. relay = IF pair.table = Null THEN Error ELSE pair.table
  BY DEF FetchAhmInfo, HandleFromRelay
<1>4. hub = IF pair.table # Null THEN pair.table
            ELSE IF pair.hub = Null THEN [relay |-> NoBounds, assetHub |-> NoBounds]
            ELSE IF ~connected THEN [relay |-> NoBounds, assetHub |-> pair.hub]
            ELSE IF pair.relay = Null THEN Error
            ELSE [relay |-> pair.relay, assetHub |-> pair.hub]
  BY DEF FetchAhmInfo, HandleFromAh
<1>5. \A x, y : [relay |-> x, assetHub |-> y].assetHub = y
  OBVIOUS
<1> HIDE DEF hub, relay
<1>6. hub # Error /\ relay # Error => hub = relay
  BY <1>3, <1>4
<1>7. hub = Error => pair.table = Null /\ connected
  BY <1>1, <1>2, <1>4
<1>8. hub # Error /\ pair.table = Null => hub.assetHub \in {pair.hub, NoBounds}
  BY <1>4, <1>5
<1> QED BY <1>6, <1>7, <1>8 DEF MigrationTold, hub, relay

\* What the listing routes may be asked and have to read.
ListingInputs(vs, eras, methods, blocks, assets, metadata) ==
  [kind : {"pallet"}, metadata : Metadata, name : STRING]
  \cup [kind : {"item"}, metadata : Metadata, head : Metadata, palletId : PathIds,
        itemId : [name : STRING, exact : BOOLEAN], field : ItemFields]
  \cup [kind : {"validators"}, state : ValidatorStates(vs, eras)]
  \cup [kind : {"inclusions"}, events : Seq(Inclusions(methods, blocks)), paraId : Nat]
  \cup [kind : {"foreignassets"}, heads : Heads(assets, metadata)]
  \cup [kind : {"migration"}, pair : ChainPairs(blocks), connected : BOOLEAN]

\* The routes that look something up, for any metadata, states, events, heads and
\* pairs of chains: what is found is found again, nothing that is listed is lost,
\* told twice or told of another.
THEOREM EveryListingExact ==
  ASSUME NEW vs, NEW eras, NEW methods, NEW blocks, NEW assets, NEW metadata,
         input \in ListingInputs(vs, eras, methods, blocks, assets, metadata)
  PROVE  ListingsExact
<1>1. ASSUME Is("pallet") PROVE PalletLookupsAgree(input.metadata, input.name)
  <2>1. input.metadata \in Metadata /\ input.name \in STRING
    BY <1>1 DEF ListingInputs, Is
  <2> QED BY <2>1, EveryLookupAgrees
<1>2. ASSUME Is("item")
      PROVE  ItemsAgree(input.metadata, input.head, input.palletId, input.itemId, input.field)
  <2>1. /\ input.metadata \in Metadata /\ input.head \in Seq(Pallets)
        /\ input.itemId \in [name : STRING, exact : BOOLEAN] /\ input.field \in ItemFields
    BY <1>2 DEF ListingInputs, Is, Metadata
  <2> QED BY <2>1, EveryItemAgrees
<1>3. ASSUME Is("validators") PROVE ValidatorsTold(input.state)
  <2>1. input.state \in ValidatorStates(vs, eras)
    BY <1>3 DEF ListingInputs, Is
  <2> QED BY <2>1, EveryValidatorTold
<1>4. ASSUME Is("inclusions") PROVE InclusionsTold(input.events, input.paraId)
  <2>1. input.events \in Seq(Inclusions(methods, blocks)) /\ input.paraId \in Nat
    BY <1>4 DEF ListingInputs, Is
  <2> QED BY <2>1, EveryInclusionTold
<1>5. ASSUME Is("foreignassets") PROVE ForeignAssetsPaired(input.heads)
  <2>1. input.heads \in Heads(assets, metadata)
    BY <1>5 DEF ListingInputs, Is
  <2> QED BY <2>1, EveryForeignAssetPaired
<1>6. ASSUME Is("migration") PROVE MigrationTold(input.pair, input.connected)
  <2>1. input.pair \in ChainPairs(blocks) /\ input.connected \in BOOLEAN
    BY <1>6 DEF ListingInputs, Is
  <2> QED BY <2>1, EveryMigrationTold
<1> QED BY <1>1, <1>2, <1>3, <1>4, <1>5, <1>6 DEF ListingsExact
=============================================================================
