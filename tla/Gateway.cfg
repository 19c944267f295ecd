CONSTANTS
  old = old  new = new  image = image  w1 = w1  w2 = w2
  None = None
  Roots = {old, new}
  Objects = {image}
  Pins <- MCPins
  Workers = {w1, w2}
  Paths <- MCPaths
  Rotting <- MCRotting
  Stories <- MCStories
  MaxLag = 1
  ScanBlocks = 1
  QueueMax = 1
  Sizes <- MCSizes
  Budget = 2
  Imported = {old}
SPECIFICATION Spec
INVARIANTS
    JobsExact
    KeptWhole
PROPERTIES
    MovedNameStops
    ServesAgain
CHECK_DEADLOCK FALSE
