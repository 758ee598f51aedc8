SPECIFICATION SlinkySpec
CONSTANTS
  NoTopology <- mcNoTopology
  SwitchPrefix <- mcSwitchPrefix
  BlockPrefix <- mcBlockPrefix
  MaxExpandedNodes = 6
  DottedPrefix <- mcDottedPrefix
  CrusoeRoot <- mcCrusoeRoot
  CpuPod <- mcCpuPod
  CpuPartition <- mcCpuPartition
  LocalRegion <- mcLocalRegion
  MaxExplicitIDs = 2
  DefaultRegion <- mcDefaultRegion
  SimClique <- mcSimClique
  InstanceIDPrefix <- mcInstanceIDPrefix
  ShortNames <- mcShortNames
  ScopePrefix <- mcScopePrefix
  DisplayPrefix <- mcDisplayPrefix
  TwinStep <- mcTwinStep
  MaxBlockSizesLen = 20
  MaxBlockSizeValue = 65536
  Cases <- mcCases
  Config <- mcConfig
  Envs <- mcEnvs
  MaxRepeats = 1
  ConfigPath = "topology.conf"
  MaxWrites = 1
INVARIANTS
  TreeFileSound
  BlockFileSound
  AggregatesKeepDomains
  UnitsMatchSpecs
  DocumentSound
  SlinkyAgrees
PROPERTIES
  NoLostUpdate
  ListingsEnd
