\* a { }
SPECIFICATION Spec
CONSTANTS
    Alphabet = {97, 123, 125}
    MaxLen = 3
    crc16 <- Crc16
INVARIANT
    SlotIsClusterSlot
