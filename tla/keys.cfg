\* a 1 : _ { } e-acute (two bytes) and a byte that UTF-8 does not have.
SPECIFICATION Spec
CONSTANTS
    Alphabet = {97, 49, 58, 95, 123, 125, 195, 169, 255}
    MaxLen = 5
    crc16 <- Crc16
INVARIANTS
    NamesAreTheCuts
    NamesAreText
    TagDecidesSlot
