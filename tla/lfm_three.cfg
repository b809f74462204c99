SPECIFICATION Spec
CONSTANTS
  NULL = NULL
  Unread = Unread
  Allocators <- Three
  Objects <- ThreeObjects
  Carriers <- ThreeCarriers
  Slots <- MCSlots
  Owner <- MCOwner
  Class <- MCClass
  NodeClass = "node"
  Demand <- ThreeDemand
  XLarge = {}
  MaxSizes = 1
  MayPanic = {}
  MaxDepth = 1
PROPERTY KeepsPromise
CHECK_DEADLOCK FALSE
