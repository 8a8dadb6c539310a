SPECIFICATION SidecarSpec
CONSTANTS
  relay1 = relay1
  relay2 = relay2
  hub = hub
  newHub = newHub
  plainHub = plainHub
  para = para
  Urls = {relay1, relay2, hub, newHub, plainHub, para}
  SpecOf <- MCSpecOf
  AssetHubSpecs = {"statemint", "westmint", "asset-hub-paseo"}
  MappedSpecs = {"polkadot", "statemint", "westmint", "acala"}
  Migrator <- MCMigrator
  StakingUrls = {relay1, relay2, hub, plainHub}
  Configs <- MCConfigs
  Untyped = Untyped
  g = g
  a1 = a1
  a2 = a2
  b1 = b1
  b2 = b2
  x1 = x1
  x2 = x2
  x3 = x3
  Blocks = {g, a1, a2, b1, b2}
  Genesis = g
  Height <- MCHeight
  Chain <- MCChain
  AhBlocks = {x1, x2, x3}
  Included <- MCIncluded
  Queries <- MCQueries
  None = None
INVARIANTS
  RegistryConsistent
  OrderIsIrrelevant
  WholeAnswer
  SettledAtAgrees
  HeadsAdvance
PROPERTIES
  StartEnds
CHECK_DEADLOCK FALSE
