SPECIFICATION PrdtSpec
CONSTANTS
  IovMax = 3
  SectSz = 4
  Sizes = {1, 2, 3, 6}
  MaxPrdtl = 6
  MaxSects = 4
INVARIANT PrdtInv
PROPERTY TransferEnds
