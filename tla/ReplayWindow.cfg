\* Three bytes of two bits: jumps inside a byte, across bytes, by exactly the
\* window and beyond it, and numbers that usize cannot represent.
CONSTANTS
    Bytes = 3
    Bits = 2
    UsizeWidth = 4
    MinSeq = 10
    MaxSeq = 20
SPECIFICATION Spec
INVARIANT CanAcceptExact
PROPERTY Implements
