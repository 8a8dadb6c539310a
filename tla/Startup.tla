------------------------------ MODULE Startup ------------------------------
(***************************************************************************)
(* From the configuration to a serving sidecar: main.ts, the static maps   *)
(* of ApiPromiseRegistry it fills through concurrent initApi calls, and    *)
(* the choice of controllers in chains-config.                             *)
(*                                                                         *)
(* All calls are made before the first connection is answered, so each of  *)
(* them finds _instancesByUrl empty and creates an instance: the branch of *)
(* initApi for a url that is known already is never taken.  An instance is *)
(* named by the position of its call.                                      *)
(***************************************************************************)
EXTENDS Integers, Sequences, FiniteSets, SequencesExt

CONSTANTS Urls,            \* of the nodes
          SpecOf,          \* SpecOf[u]: the specName of the chain of u
          AssetHubSpecs,   \* assetHubSpecNames
          MappedSpecs,     \* the keys of specToControllerMap
          Migrator,        \* Migrator[u]: the ahMigrator pallet of u's chain
          StakingUrls,     \* the urls whose chain has a staking pallet
          Configs,         \* the configurations a sidecar may be started with
          Untyped          \* no type is given

Specs == {SpecOf[u] : u \in Urls}

Types == {"relay", "assethub", "parachain"}

\* requiredApis: SUBSTRATE.URL, which has no type, then MULTI_CHAIN_URL.
Entry == [url : Urls, type : Types \cup {Untyped}]

Config == [apis : Seq(Entry), injected : BOOLEAN]

ASSUME ConfigsAssumption ==
  /\ Configs # {} /\ Configs \subseteq Config
  /\ \A c \in Configs : Len(c.apis) >= 1 /\ c.apis[1].type = Untyped
ASSUME UntypedAssumption == Untyped \notin Types
ASSUME MigratorAssumption ==
  Migrator \in [Urls -> {"absent", "pending", "done"}] /\ StakingUrls \subseteq Urls

VARIABLES config,        \* SidecarConfig
          main,          \* the await main() is suspended at
          call,          \* call[i]: the initApi of requiredApis[i]
          bySpec,        \* _instancesBySpecName
          byUrl,         \* _instancesByUrl; 0 is undefined
          typeOf,        \* specNameToTypeMap.keyToValue
          keysOf,        \* specNameToTypeMap.valueToKeys, in insertion order
          next,          \* i of the loop in initApis, from 1
          assetHubInfo,  \* assetHubInfo
          withRc         \* the rc controllers are mounted

registry == <<bySpec, byUrl, typeOf, keysOf>>

startVars == <<config, main, call, registry, next, assetHubInfo, withRc>>

Calls == DOMAIN config.apis

Url(i) == config.apis[i].url

SpecName(i) == SpecOf[Url(i)]

-----------------------------------------------------------------------------
StartInit ==
  /\ config \in Configs
  /\ main = "off"
  /\ call = [i \in Calls |-> "idle"]
  /\ bySpec = [s \in Specs |-> <<>>]
  /\ byUrl = [u \in Urls |-> 0]
  /\ typeOf = [s \in Specs |-> Untyped]
  /\ keysOf = [t \in Types |-> <<>>]
  /\ next = 1
  /\ assetHubInfo = [isAssetHub |-> FALSE, isAssetHubMigrated |-> FALSE]
  /\ withRc = FALSE

\* Promise.all over the initApi calls.
Begin ==
  /\ main = "off" /\ main' = "connecting"
  /\ call' = [i \in Calls |-> "connecting"]
  /\ UNCHANGED <<config, registry, next, assetHubInfo, withRc>>

\* Faulty: MultiKeyBiMap.set keeps the key under its old value.
SetTypeKeepingOldKey(s, t) ==
  /\ typeOf' = [typeOf EXCEPT ![s] = t]
  /\ keysOf' = [keysOf EXCEPT ![t] = Append(Remove(@, s), s)]

\* Faulty: the last type wins and the old one keeps the name as a key.
RetypeKeepingOldKey(i) ==
  IF config.apis[i].type # Untyped
  THEN SetTypeKeepingOldKey(SpecName(i), config.apis[i].type)
  ELSE UNCHANGED <<typeOf, keysOf>>

\* The first declared type of a spec name is set, once.
TypeInstance(i) ==
  LET s == SpecName(i)
      t == config.apis[i].type
  IN  IF typeOf[s] = Untyped /\ t # Untyped
      THEN /\ typeOf' = [typeOf EXCEPT ![s] = t]
           /\ keysOf' = [keysOf EXCEPT ![t] = Append(@, s)]
      ELSE UNCHANGED <<typeOf, keysOf>>

\* ApiPromise.create and getRuntimeVersion have answered.
Connected(i) ==
  /\ call[i] = "connecting" /\ call' = [call EXCEPT ![i] = "done"]
  /\ TypeInstance(i)
  /\ bySpec' = [bySpec EXCEPT ![SpecName(i)] = Append(@, i)]
  /\ byUrl' = [byUrl EXCEPT ![Url(i)] = i]
  /\ UNCHANGED <<config, main, next, assetHubInfo, withRc>>

Refused(i) ==
  /\ call[i] = "connecting" /\ call' = [call EXCEPT ![i] = "failed"]
  /\ UNCHANGED <<config, main, registry, next, assetHubInfo, withRc>>

\* Faulty: waits for every call, also when one has failed.
AbortWhenAllFailed ==
  /\ main = "connecting" /\ main' = "failed"
  /\ \A i \in Calls : call[i] = "failed"
  /\ UNCHANGED <<config, call, registry, next, assetHubInfo, withRc>>

\* main().catch: the failure is logged, and the process stays.
Abort ==
  /\ main = "connecting" /\ main' = "failed"
  /\ \E i \in Calls : call[i] = "failed"
  /\ UNCHANGED <<config, call, registry, next, assetHubInfo, withRc>>

AllConnected ==
  /\ main = "connecting" /\ main' = "inspecting"
  /\ \A i \in Calls : call[i] = "done"
  /\ UNCHANGED <<config, call, registry, next, assetHubInfo, withRc>>

\* Faulty: the info of the last Asset Hub found, not of SUBSTRATE.URL.
IsMainAssetHubOfAny(i) == SpecName(i) \in AssetHubSpecs

IsMainAssetHub(i) == i = 1 /\ SpecName(i) \in AssetHubSpecs

IsMigrated(u) == \/ Migrator[u] = "done"
                 \/ u \in StakingUrls /\ Migrator[u] = "absent"

IsLast(i) == i >= Len(config.apis)

\* One turn of the loop over the connections, with its awaits.
Inspect ==
  /\ main = "inspecting"
  /\ \/ /\ main' = IF IsLast(next) THEN "mounting" ELSE "inspecting"
        /\ next' = next + 1
        /\ assetHubInfo' = IF next \in Calls /\ IsMainAssetHub(next)
                           THEN [isAssetHub         |-> TRUE,
                                 isAssetHubMigrated |-> IsMigrated(Url(next))]
                           ELSE assetHubInfo
     \/ main' = "failed" /\ UNCHANGED <<next, assetHubInfo>>
  /\ UNCHANGED <<config, call, registry, withRc>>

\* getApiByType(t): the spec names of type t, each with its first instance.
ApisByType(t) == [k \in DOMAIN keysOf[t] |->
                    [specName |-> keysOf[t][k], api |-> Head(bySpec[keysOf[t][k]])]]

HasRelay == ApisByType("relay") # <<>>

\* getControllers.  With injected controllers the rc controllers that need
\* no pallet are always among them, and their constructors throw without a
\* relay chain.  Otherwise those of the chain's own list are taken; a chain
\* that has none, as asset-hub-paseo, has the default controllers.
Mount ==
  /\ main = "mounting"
  /\ IF config.injected
     THEN /\ main' = IF HasRelay THEN "serving" ELSE "failed"
          /\ withRc' = HasRelay
     ELSE /\ main' = "serving"
          /\ withRc' = (HasRelay /\ SpecName(1) \in AssetHubSpecs \cap MappedSpecs)
  /\ UNCHANGED <<config, call, registry, next, assetHubInfo>>

StartNext == \/ Begin \/ Abort \/ AllConnected \/ Inspect \/ Mount
        \/ \E i \in Calls : Connected(i) \/ Refused(i)

(***************************************************************************)
(* Every node answers or refuses in the end, and main() goes on when it    *)
(* can.  ApiPromise.create waits for a node that is down, and main() with  *)
(* it.                                                                     *)
(***************************************************************************)
Fairness ==
  /\ WF_startVars(Abort \/ AllConnected \/ Inspect \/ Mount)
  /\ \A i \in UNION {DOMAIN c.apis : c \in Configs} :
       WF_startVars(i \in Calls /\ (Connected(i) \/ Refused(i)))

Start == StartInit /\ [][StartNext]_startVars /\ Fairness

-----------------------------------------------------------------------------
StartTypeOK ==
  /\ config \in Configs
  /\ main \in {"off", "connecting", "inspecting", "mounting", "serving", "failed"}
  /\ call \in [Calls -> {"idle", "connecting", "done", "failed"}]
  /\ bySpec \in [Specs -> Seq(Calls)]
  /\ byUrl \in [Urls -> Calls \cup {0}]
  /\ typeOf \in [Specs -> Types \cup {Untyped}]
  /\ keysOf \in [Types -> Seq(Specs)]
  /\ next \in 1..Len(config.apis) + 1
  /\ assetHubInfo \in [isAssetHub : BOOLEAN, isAssetHubMigrated : BOOLEAN]
  /\ withRc \in BOOLEAN

(***************************************************************************)
(* In whatever order the connections are answered, the maps agree: the two *)
(* halves of the type map are inverses, a spec name that has a type has an *)
(* instance (getApiByType never throws), and the instance a url is mapped  *)
(* to is listed under the spec name of its chain.                          *)
(***************************************************************************)
RegistryConsistent ==
  /\ \A s \in Specs, t \in Types :
       typeOf[s] = t <=> \E k \in DOMAIN keysOf[t] : keysOf[t][k] = s
  /\ \A s \in Specs : typeOf[s] # Untyped => bySpec[s] # <<>>
  /\ \A u \in Urls : byUrl[u] # 0 =>
       \E k \in DOMAIN bySpec[SpecOf[u]] : bySpec[SpecOf[u]][k] = byUrl[u]

Declared(s) == {config.apis[i].type : i \in {j \in Calls : SpecName(j) = s}} \ {Untyped}

(***************************************************************************)
(* What is served does not depend on the order the connections are         *)
(* answered in: which chains have a type, whether the main chain is a      *)
(* migrated Asset Hub, and whether the rc controllers are there follow     *)
(* from the configuration alone: they are there for an Asset Hub that has  *)
(* a list of controllers, next to a relay chain.  Only where the           *)
(* configuration gives one chain two types does the order choose.          *)
(***************************************************************************)
OrderIsIrrelevant ==
  main = "serving" =>
    /\ \A s \in Specs : IF Declared(s) = {} THEN typeOf[s] = Untyped
                                            ELSE typeOf[s] \in Declared(s)
    /\ assetHubInfo.isAssetHub <=> SpecName(1) \in AssetHubSpecs
    /\ assetHubInfo.isAssetHubMigrated <=>
         SpecName(1) \in AssetHubSpecs /\ IsMigrated(Url(1))
    /\ ~config.injected =>
         (withRc <=> /\ SpecName(1) \in AssetHubSpecs \cap MappedSpecs
                     /\ \E s \in Specs : typeOf[s] = "relay")

(***************************************************************************)
(* A start ends: the sidecar serves, or has logged why it does not.        *)
(***************************************************************************)
StartEnds == main = "connecting" ~> main \in {"serving", "failed"}
=============================================================================
