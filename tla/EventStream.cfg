SPECIFICATION Spec
CONSTANTS
  Buffer = 24
  FlipLengths = {8, 10}
  OtherLengths = {2, 8}
  MaxFlips = 4
  MaxOthers = 2
PROPERTY
  ImplementsQueue
