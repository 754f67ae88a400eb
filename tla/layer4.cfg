SPECIFICATION L4Spec
CONSTANTS
  Settings <- AllSettings
  MaxTime = 14
  MaxUpdates = 1
  Parties = {1, 2, 3}
  Controllers = {"x", "y"}
  Home <- HomeDef
  Cables = {0}
  Wires <- WiresDef
  SlotEnds = {2, 6}
  WordLen = 2
  MaxAsked = 2
  OpSets <- OpDef
  NoParty = NoParty
  NoSlot = NoSlot
CHECK_DEADLOCK FALSE
INVARIANTS SlotsAccounted BridgesCross SearchComplete
PROPERTY HangupBeforeUnit
