CONSTANTS
  Ptrs <- MCPtrs
  Chars <- MCChars
  Literals <- MCLiterals
  Sizes = {1, 2, 4}
  Nums <- MCNums
  IntBits = 8
  MaxLen = 3
  MaxMemory = 32
  Garbage = Garbage
  p1 = p1
  p2 = p2
SYMMETRY MCSymmetry
SPECIFICATION Spec
PROPERTY UpdateAddsNum
CHECK_DEADLOCK FALSE
