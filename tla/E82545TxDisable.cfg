SPECIFICATION Spec
CONSTANTS
  TxSize = 8
  MaxSegs = 2
  Kinds = {"frag", "eop", "ctx"}
  MaxInUse = 3
INVARIANT TxDisableReturns
