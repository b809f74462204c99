SPECIFICATION FairSpec
CONSTANTS
  NULL = NULL
  Unread = Unread
  Allocators <- Two
  Objects <- TwoObjects
  Carriers <- TwoCarriers
  Slots <- MCSlots
  Owner <- MCOwner
  Class <- MCClass
  NodeClass = "node"
  Demand <- NoDemand
  XLarge = {x}
  MaxSizes = 1
  MayPanic = {}
  MaxDepth = 2
PROPERTY EverythingIsFreed
CHECK_DEADLOCK FALSE
