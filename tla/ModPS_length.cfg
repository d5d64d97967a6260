SPECIFICATION Spec
CONSTANTS
  c1 = c1  c2 = c2  ch1 = ch1  short = short  m1 = m1
  Client = {c1, c2}
  Channel = {ch1, short}
  Master = {m1}
  None = None
  Udp = Udp
  KeyLen <- ShortKeys
  Dialable = {m1}
  Prompt = {}
  Confs <- ThreeConfs
  StaleAfter = 1
  MaxPipe = 3
  MaxInq = 1
  MaxSent = 0
INVARIANTS PacketLengthGuaranteed
