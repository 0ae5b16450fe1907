SPECIFICATION Spec
CONSTANTS
  pc = pc
  box = box
  cloud = cloud
  m1 = m1
  m2 = m2
  Home = Home
  None = None
  Hosts <- MCHosts
  Ops <- MCOps
  Here = pc
  First = pc
  MaxMessages = 1
  MaxTroubles = 1
INVARIANT CopiesStayHeld
CHECK_DEADLOCK FALSE
