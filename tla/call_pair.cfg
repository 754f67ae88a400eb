SPECIFICATION Spec
CONSTANTS
  N = 2
  NChan = 1
  Pipes <- ThreePipes
  Drivers = {"d1"}
  CdidEnd = 3
  AutoMod = 16
  Modes <- BothSides
  EnquiryMax = 0
  IncomingCRs <- OneCR
  ChanInputs <- FewChannels
  IndMax = 0
  Events <- PairEvents
INVARIANTS ChannelsExclusive ReferencesCounted DriverOnOwnChannel  NtActiveHasChannel
