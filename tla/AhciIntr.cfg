SPECIFICATION FairSpec
CONSTANTS
  Ports = 2
  Causes = {dhr, sdb}
  MsgCounts = {0, 2}
INVARIANT IInv
PROPERTIES PinStaysUp CauseServed
