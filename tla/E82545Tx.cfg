SPECIFICATION FairSpec
CONSTANTS
  TxSize = 8
  MaxSegs = 2
  Kinds = {"frag", "eop", "ctx"}
  MaxInUse = 3
INVARIANTS IInv CompletionIsTold
PROPERTIES InOrderOnce EventuallySent EventuallyReclaimed
