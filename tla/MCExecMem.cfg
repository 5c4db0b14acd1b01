SPECIFICATION Spec
CONSTANTS
  Page = {p1, p2, p3, p4}
  ChunksPerBlock = 3
SYMMETRY MCSymmetry
INVARIANTS
  HeldIsMarked
  ListsAgree
  LeakCheck
PROPERTIES
  MapsOnlyWhenFull
  IsChunkPool
