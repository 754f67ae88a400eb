SPECIFICATION Spec
CONSTANTS
  Frames <- FewFrames
  MaxFrames = 2
  MaxLen = 3
  Skews = {0, 1, 2, 3, 4, 5, 6, 7}
  NoiseBytes = {127}
  Tables = {"isac", "hfcTE", "hfcNT"}
  MaxHold = 2
INVARIANTS FramesArrive LineKept
PROPERTIES IsFrameLink LineFollowsHolds
