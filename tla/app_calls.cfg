SPECIFICATION Spec
CONSTANTS
  a1 = a1
  a2 = a2
  c1 = c1
  Apps = {a1, a2}
  Calls = {c1}
  QMax = 2
  Loads <- SafetyLoads
SYMMETRY AppSymmetry
INVARIANTS NoUseAfterFree ProgramsInformed DchannelFollows
PROPERTY CallProtected
