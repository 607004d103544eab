SPECIFICATION FairSpec
CONSTANTS
  Buffers = {b1, b2}
  NoBuffer = nobuffer
  FbIds = {f1, f2}
  NoFb = nofb
  MaxFrames = 5
INVARIANTS
  OnlyPaintedShown
  TornDown
  MeasuredAllFlips
PROPERTIES
  FlipsAlternate
  Ends
