SPECIFICATION FairSpec
CONSTANTS
  Cards = {0, 1}
  Connectors = {1, 2}
  Hardware <- MCHardware
  None = none
  MaxChanges = 2
INVARIANTS
  StableDisplayFound
  OutputDrivable
PROPERTY
  SearchEnds
