SPECIFICATION FairSpec
CONSTANTS
  Causes = {rxt0, txdw, lsc}
INVARIANTS IInv NoLostCause Delivered
PROPERTIES OnlyResetDesyncs CauseServed
