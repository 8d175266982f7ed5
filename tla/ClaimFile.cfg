SPECIFICATION FileSpec
CONSTANTS
  w1 = w1
  w2 = w2
  Writers <- TwoWriters
  MaxCells = 2
  MaxWrites = 2
INVARIANTS
  FileAccepted
