SPECIFICATION Spec
CONSTANTS
  Blocks = {b1, b2, b3, b4, b5}
  SlabSize = 4
  Sizes = {1, 2, 3}
SYMMETRY Heap
INVARIANTS
  TypeOK
  CurrentSlabValid
  SlabsOwnHeap
  ObjectsInSlabs
  ObjectsApart
  WasteBounded
  NoHoles
PROPERTIES
  ImplementsArena
CHECK_DEADLOCK FALSE
