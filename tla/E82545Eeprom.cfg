SPECIFICATION Spec
CONSTANTS
  AddrBits = 2
  DataBits = 2
  Fixed <- MCFixed
  NVM_CHECKSUM_REG = 3
  NVM_SUM = 2
  Drives = {"SK", "CS", "DI"}
INVARIANTS IInv InStep
PROPERTIES ImplementsNvm SumsAfterReset
