----------------------------- MODULE MCSidecar -----------------------------
(***************************************************************************)
(* A relay chain with two nodes, a migrated Asset Hub, one that migrates   *)
(* now, one without a list of controllers, and a parachain; up to four     *)
(* connections.  The blocks of the relay chain are those of MCRcBlock.     *)
(***************************************************************************)
EXTENDS Sidecar, TLC

CONSTANTS relay1, relay2, hub, newHub, plainHub, para
CONSTANTS g, a1, a2, b1, b2, x1, x2, x3

MCSpecOf == relay1 :> "polkadot" @@ relay2 :> "polkadot" @@ hub :> "statemint"
              @@ newHub :> "westmint" @@ plainHub :> "asset-hub-paseo"
              @@ para :> "acala"

MCMigrator == relay1 :> "absent" @@ relay2 :> "absent" @@ hub :> "absent"
                @@ newHub :> "pending" @@ plainHub :> "done" @@ para :> "absent"

E(u, t) == [url |-> u, type |-> t]

MCMulti == {<<>>, <<E(relay1, "relay")>>,
            <<E(relay1, "relay"), E(relay2, "parachain")>>,
            <<E(hub, "assethub"), E(relay1, "relay")>>,
            <<E(newHub, "assethub"), E(para, Untyped)>>,
            <<E(relay1, Untyped), E(relay2, "relay"), E(hub, "assethub")>>}

MCConfigs ==
  {[apis |-> <<E(u, Untyped)>> \o m, injected |-> FALSE] : u \in Urls, m \in MCMulti}
    \cup {[apis |-> <<E(u, Untyped)>> \o m, injected |-> TRUE] :
            u \in Urls, m \in {<<>>, <<E(hub, "assethub")>>, <<E(relay1, "relay")>>}}

MCHeight == g :> 0 @@ a1 :> 1 @@ a2 :> 2 @@ b1 :> 1 @@ b2 :> 2

MCChain == g :> {g} @@ a1 :> {g, a1} @@ a2 :> {g, a1, a2}
             @@ b1 :> {g, b1} @@ b2 :> {g, b1, b2}

MCIncluded == g :> <<>> @@ a1 :> <<x1>> @@ a2 :> <<x2, x3>>
                @@ b1 :> <<x1, x2>> @@ b2 :> <<>>

MCAt == {a2, b1, b2, 0, 1, 2}

MCQueries ==
  HeadQuery \cup [route : {"block"}, at : MCAt, object : BOOLEAN]
            \cup [route : {"state"}, at : MCAt \cup {None}, object : BOOLEAN]
=============================================================================
