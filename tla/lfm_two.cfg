SPECIFICATION FairSpec
CONSTANTS
  NULL = NULL
  Unread = Unread
  Allocators <- Two
  Objects <- TwoObjects
  Carriers <- TwoCarriers
  Slots <- MCSlots
  Owner <- MCOwner
  Class <- MCClass
  NodeClass = "node"
  Demand <- TwoDemand
  XLarge = {x}
  MaxSizes = 1
  MayPanic = {1}
  MaxDepth = 2
INVARIANTS TypeOK OnePlace NothingLost Addressed Existing NoUseAfterFree RightVector
PROPERTIES KeepsPromise FreedWhenDone
CHECK_DEADLOCK FALSE
