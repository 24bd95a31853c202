SPECIFICATION FSpec
CONSTANTS
  Blocks = {b1, b2, b3, b4}
  SlabSize = 3
  Sizes <- MCSizes
  NodeKinds = {"NumberExprAST", "CallExprAST"}
  sizeof <- MCSizeof
SYMMETRY Heap
INVARIANTS
  NodesOutliveMemory
  ConstructedDestroyed
CHECK_DEADLOCK FALSE
