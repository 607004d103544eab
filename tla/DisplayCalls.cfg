SPECIFICATION CallSpec
CONSTANTS
  Word = 1073741824
  Sizes <- MCSizes
  Progress = {0, 3, 10}
  Lists <- MCLists
  NoMode = nomode
  Cards <- MCCards
  Connectors = {"Virtual-1"}
  MaxChanges = 1
  Lengths = {2, 3, 8}
  FlipLengths = {8, 10}
  Tails <- MCTails
INVARIANTS
  PicturesAgree
  DocumentedChoice
  CardsListed
  WholeEventsReturned
