SPECIFICATION Spec
CONSTANTS
  B = 2
  Keys = {1, 2, 3, 4, 5, 6, 7, 8, 9, 10, 11, 12, 13, 14}
  Copies <- MCCopies
  Programs <- MCPrograms
  Nodes = {1, 2, 3, 4, 5, 6, 7, 8, 9, 10, 11, 12, 13, 14, 15, 16}
  Unused = Unused
INVARIANTS TypeOK Balanced IterInOrder NodesAccounted
PROPERTIES KeepsMap RightSize
CHECK_DEADLOCK FALSE
