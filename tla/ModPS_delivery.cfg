SPECIFICATION Spec
CONSTANTS
  c1 = c1  c2 = c2  ch1 = ch1  short = short  m1 = m1
  Client = {c1, c2}
  Channel = {ch1}
  Master = {m1}
  None = None
  Udp = Udp
  KeyLen <- WholeKeys
  Dialable = {m1}
  Prompt = {}
  Confs <- OneConf
  StaleAfter = 1
  MaxPipe = 2
  MaxInq = 2
  MaxSent = 2
SYMMETRY Symmetry
PROPERTIES ImplementsPubSub
