SPECIFICATION Spec
CONSTANTS
    TableSize = 2
    Mac <- MCMac
    Guests <- MCGuests
INVARIANT IInv
PROPERTIES OnlyOwnWrite
CHECK_DEADLOCK FALSE
