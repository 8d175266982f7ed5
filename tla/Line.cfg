SPECIFICATION Spec
CONSTANTS
  MaxBytes = 15
  DrainBound = 10
  Sizes <- LineSizes
  Amounts <- LineAmounts
INVARIANTS
  TypeOK
  

  
