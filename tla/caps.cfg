SPECIFICATION Spec
CONSTANTS
  Bits = 3
  Cidrs <- ApartCidrs
  PortSets <- SomePorts
  PortLimit = 64
  Metadata <- MetaAddrs
  Paths <- Binaries
  Links <- Inodes
  Documents <- AllDocs
  Commands <- RunGit
  Abis = {1, 3}
  Directories <- TemplateDirs
INVARIANTS
  ReadyMeansConfined
  
  SystemPathsReadOnly
  
  
  GrantReaches
  
PROPERTIES
  GrantOnlyWidens
  RevokeOnlyNarrows
  LaunchCompletes
