SPECIFICATION Spec
CONSTANTS
  Cards = {0, 1}
  Connectors = {1, 2}
  Hardware <- MCHardware
  None = none
  MaxChanges = 1
INVARIANT
  StableDisplayFoundDespiteRemoval
