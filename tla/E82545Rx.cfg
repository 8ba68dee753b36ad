SPECIFICATION FairSpec
CONSTANTS
  RxSize = 8
  BufSz = 8
  MaxPktDesc = 1
  Thresh = 2
  RSRPD = 3
  MinLen = 2
  Crc = 1
  Lens = {1}
  Foreign = {TRUE, FALSE}
  MaxNet = 2
  MaxBufs = 3
INVARIANTS IInv InOrder
PROPERTY EventuallyReaped
