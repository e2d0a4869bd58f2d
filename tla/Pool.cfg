\* Two attackers who share two guests, one recycling and one fault; ids start again after two guests.
SPECIFICATION Spec
CONSTANTS
    a1 = a1
    b1 = b1
    A = A
    B = B
    Sessions = {a1, b1}
    Src <- MCSrc
    Slots = {g1, g2}
    IdLimit = 2
    MaxVm = 2
    Share = TRUE
    UseNat = TRUE
    SshOn = TRUE
    TelnetOn = TRUE
    Visits = 3
    Recycles = 1
    Faults = 1
    None = None
SYMMETRY MCSymmetry
CHECK_DEADLOCK FALSE
INVARIANTS
    PoolInv
    AvailableIsPristine
PROPERTIES
    InUseNotReclaimed
