\* The letter a and the digit 1.
SPECIFICATION Spec
CONSTANTS
    Alphabet = {97, 49}
    MaxLen = 3
    crc16 <- Crc16
INVARIANT
    CrcIsXmodem
