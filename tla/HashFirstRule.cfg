CONSTANTS
    Byte = 2
    Rules <- MCRules
    Addresses = {1, 2}
    GROUP = 2
    MaxBurst = 3
    IntMax = 7
    Moduli <- MCModuli
    Digit = 4
    NEEDLE = 1
    UintSize = 64
    FAST_STR_MAX_STRING_SIZE = 3
    Lines <- MCLines
    MaxStrings = 2
    PacketBytes = {0, 1, 2, 9}
    MaxPacket = 4
    MaxCrashes = 2
SPECIFICATION Spec
INVARIANT MatchFiltered
CHECK_DEADLOCK FALSE
