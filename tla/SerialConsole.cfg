SPECIFICATION SerialSpec
CONSTANTS
  Procs = {"init", "program"}
  Envs = {"bad", "error"}
  RecordLevels = {"info"}
  Messages <- MCMessages
  MaxRecords = 3
  MaxShort = 1
  MaxKernel = 1
  Programs <- MCPrograms
  Trigger = "holding"
  Expect = {"modeset", "exited", "down"}
  OldFiles = {"right", "wrong"}
INVARIANTS
  RecordsFaithful
  OnlyShortWritesMix
  EveryLineGreppable
  AllOutputJudged
  PassIsEarned
  TriggerNotMissed
