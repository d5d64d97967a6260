SPECIFICATION FairSpec
CONSTANTS
  Services = {"reads", "closes", "refuses", "nobody"}
  KernelBuf = 2
  ReadLimit = 3
  MaxBytes = 6
INVARIANT TypeOK
INVARIANT NoDangling
PROPERTY Reaped
PROPERTY HandledAll
CHECK_DEADLOCK FALSE
