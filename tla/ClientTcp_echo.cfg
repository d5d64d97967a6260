SPECIFICATION FairSpec
CONSTANTS
  Services = {"reads"}
  KernelBuf = 2
  ReadLimit = 3
  MaxBytes = 3
PROPERTY EchoesAll
CHECK_DEADLOCK FALSE
