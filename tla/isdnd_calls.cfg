CONSTANTS
  N = 2
  Sites <- AllKinds
  CallCount = 2
  Requests = 1
SPECIFICATION Spec
INVARIANTS CallsHeld 
