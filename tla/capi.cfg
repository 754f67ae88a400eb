SPECIFICATION CapiSpec
CONSTANTS
  Apps = {a1, a2}
  Calls = {c1, c2}
  Channels = 1
  Blocks = {2}
  Lines <- LineDef
SYMMETRY Sym
INVARIANTS AppsToldTruth CallsHaveOwners
