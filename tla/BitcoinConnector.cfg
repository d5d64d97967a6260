SPECIFICATION Spec
CONSTANTS
    b0 = b0
    b1 = b1
    t = t
    None = None
    Node = Node
    Self = Self
    Client = {1, 2}
    Block <- MCBlock
    Tx = {t}
    Parent <- MCParent
    TxsOf <- MCTxsOf
    Chain <- MCChain
    Conf <- MCConf
    CacheSize = 2
    MaxNest = 2
    MaxWire = 1
    MaxEvents = 2
INVARIANTS TypeOK DepthOfParent KnownIsStored NoSelfPeer NoStaleEntry
CHECK_DEADLOCK FALSE
