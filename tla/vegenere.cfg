SPECIFICATION Spec
CONSTANTS
  f1 = f1
  f2 = f2
  File <- MCFiles
  PAGE_SIZE = 1
  Keys <- MCKeys
  Texts <- MCTexts
  Counts <- MCCounts
  Offsets <- MCOffsets
  MaxSize = 2
  MaxReads = 1
  Disturbs = {"SET_KEY", "DEBUG"}
SYMMETRY OpenFiles
INVARIANTS
  TypeOK
  
  
  
  
  StoredUnderItsKey
