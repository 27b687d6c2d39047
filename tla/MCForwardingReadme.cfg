SPECIFICATION Spec
CONSTANTS
    Addresses = {t1, t2, c, x, z}
    Trusted = {t1, t2}
    Zoned = {z}
    NoAddress = NoAddress
    MaxHops = 3
    MaxWritten = 2
    MaxForwarded = 4
INVARIANT
    ForwardsCaller
CHECK_DEADLOCK FALSE
