SPECIFICATION Spec
CONSTANTS
  pc = pc
  box = box
  cloud = cloud
  m1 = m1
  m2 = m2
  Home = Home
  None = None
  Hosts <- MCHosts
  Ops <- MCOps
  Here = pc
  First = box
  MaxMessages = 1
  MaxTroubles = 2
CONSTRAINT Unbroken
INVARIANTS MoveTypeOK OneUsableCopy LeftOnlyIfArrived
PROPERTIES ImplementsRegister MovesGetThrough
CHECK_DEADLOCK FALSE
