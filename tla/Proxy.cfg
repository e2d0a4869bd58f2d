\* Two channels, four packets of the attacker, one of the guest, two logins.
SPECIFICATION Spec
CONSTANTS
    Chans = {0, 1}
    Forwarding = TRUE
    SftpOn = FALSE
    Packets = 4
    Replies = 1
    Attempts = 2
    None = None
CHECK_DEADLOCK FALSE
INVARIANTS
    ProxyInv
    CleanIsClean
PROPERTIES
    BothEnd
