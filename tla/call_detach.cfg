SPECIFICATION Spec
CONSTANTS
  N = 1
  NChan = 1
  Pipes <- ThreePipes
  Drivers = {"d1"}
  CdidEnd = 3
  AutoMod = 16
  Modes <- FourTypes
  EnquiryMax = 1
  IncomingCRs <- OneCR
  ChanInputs <- FewChannels
  IndMax = 1
  Events <- PairEvents
INVARIANTS DetachedNotActivated
CHECK_DEADLOCK FALSE
