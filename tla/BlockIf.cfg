SPECIFICATION FairSpec
CONSTANTS
  MAXREQ = 4
  Ops = {"WRITE", "FLUSH"}
  Offsets = {0, 1, 2}
  Lens = {0, 1}
  OFF_MAX = 9
  Builds = {TRUE, FALSE}
INVARIANTS IInv DrainsEverything ExactlyOneCallback CallsSucceed
PROPERTIES ImplementsFifo EveryRequestEnds
