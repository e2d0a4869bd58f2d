\* Two connections from two addresses, three combinations, two attempts of one or two passwords each.
SPECIFICATION LoginSpec
CONSTANTS
    Conns = {1, 2}
    IPs = {"i1", "i2"}
    AddressesOf <- MCAddressesOf
    Creds = {"a", "b", "c"}
    Undecodable = {"c"}
    EnvCred = "b"
    UserDBLines <- MCLines
    Matches <- MCMatches
    MinTry = 2
    MaxTry = 3
    MaxCache = 2
    NoneOn = FALSE
    AnyKey = FALSE
    Keyboard = TRUE
    Vulnerable = TRUE
    AttemptsBeforeDisconnect = 1
    Messages = 2
    Restarts = 1
    Unset = Unset
CHECK_DEADLOCK FALSE
INVARIANTS
    LoginInv
    NobodyStranded
PROPERTIES
    FirstSuccessIsEarned
