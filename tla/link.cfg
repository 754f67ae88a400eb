SPECIFICATION Spec
CONSTANTS
  NrMax = 4
  Lines <- PromptLines
  Cap = 1
  QueueMax = 4
INVARIANTS WindowSound 
