SPECIFICATION TestSpec
CONSTANTS
  Programs <- MCPrograms
  Trigger = "holding"
  Expect = {"modeset", "exited", "down"}
  OldFiles = {"right", "wrong"}
INVARIANTS
  PixelsDecide
