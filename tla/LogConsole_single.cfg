SPECIFICATION Spec
CONSTANTS
  Procs = {"init", "program"}
  Envs = {"error"}
  RecordLevels = {"info"}
  Messages <- MCMessages
  MaxRecords = 2
  MaxShort = 1
  MaxKernel = 0
INVARIANT
  NoInterleaving
