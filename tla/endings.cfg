SPECIFICATION EndSpec
CONSTANTS
  Apps = {a1, a2}
  Calls = {}
  QMax = 1
  Loads <- ClosingLoads
  Modes = {TRUE, FALSE}
  NCall = 2
  NChan = 2
  Named <- NamedDef
  Refs = 2
  PeerRefs = 1
  QueueMax = 3
  StatusMax = 1
  MaxSaid = 2
  Mod = 4
  TxMax = 4
  MaxFrames = 6
  MaxReports = 3
CHECK_DEADLOCK FALSE
  
PROPERTY EverythingEnds
