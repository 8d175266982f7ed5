SPECIFICATION FileSpec
CONSTANTS
  w1 = w1
  w2 = w2
  Writers <- OneWriter
  MaxCells = 2
  MaxWrites = 5
INVARIANTS
  FileTypeOK
  FileAccepted
  
PROPERTIES
  ImplementsCell
