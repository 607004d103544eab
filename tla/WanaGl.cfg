SPECIFICATION FairSpec
CONSTANTS
  Buffers = {b1, b2, b3}
  NoBuffer = nobuffer
  FbIds = {f1, f2, f3, f4}
  NoFb = nofb
  Frames = 5
  MaxStuck = 1
INVARIANTS
  NoTearing
  TwoBuffersSuffice
  EventIsOwnFlip
  DropsClean
PROPERTIES
  ShowsEveryFrame
  Ends
