SPECIFICATION Spec
CONSTANTS
  p1 = p1
  p2 = p2
  p3 = p3
  ORIG = ORIG
  JUMP = JUMP
  Length = 6
  Prologue = 2
  Patch = {p1, p2, p3}
  Range <- MCRange
  Mask <- MCMask
  Verify <- MCVerify
  NewByte = {x, y}
INVARIANTS
  EachByteHasItsOwner
  SavedBytesAreOriginal
