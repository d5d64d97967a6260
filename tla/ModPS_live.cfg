SPECIFICATION FairSpec
CONSTANTS
  c1 = c1  c2 = c2  ch1 = ch1  short = short  m1 = m1
  Client = {c1, c2}
  Channel = {ch1}
  Master = {m1}
  None = None
  Udp = Udp
  KeyLen <- WholeKeys
  Dialable = {m1}
  Prompt = {m1}
  Confs <- ThreeConfs
  StaleAfter = 2
  MaxPipe = 2
  MaxInq = 1
  MaxSent = 0
PROPERTIES MastersCatchUp SilentLinkDropped
