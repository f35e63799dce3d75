SPECIFICATION Spec
CONSTANTS
  Parts <- MCParts
  Archives <- MCArchives
  Rewrites <- MCRewrites
  ControlFiles <- MCControlFiles
  ControlDirs <- MCControlDirs
  Installed <- MCInstalled
  MaxRewrites = 1
INVARIANTS
  TypeOK
  UnpacksAsListed
  
  OrdinaryIsAccepted
CHECK_DEADLOCK FALSE
