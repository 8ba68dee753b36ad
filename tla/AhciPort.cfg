SPECIFICATION FairSpec
CONSTANTS
  NSlots = 2
  IoQsz = 2
  Cmds <- MCCmds
  Builds = {TRUE, FALSE}
INVARIANTS IInv NothingLeftBehind OnlyIssuedCommandsRun DoneMeansDone CompletionIsTold
PROPERTY CommandEnds
