SPECIFICATION Spec
CONSTANTS
    HashSize = 2
    IdSize = 2
    LineLimit = 4
    MaxPiece = 40
    Sending <- MCSending
INVARIANTS Reassembled ClosedWhenFatal SameForAll Relayed HeaderUnderstood
CHECK_DEADLOCK FALSE
