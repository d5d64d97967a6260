SPECIFICATION Spec
CONSTANTS
    m0 = m0
    m2 = m2
    NoMsg = NoMsg
    Msg <- MCMsg
    Size <- MCSize
    FrameMax = 1
    AmqpPort = 5672
    MaxFaults = 2
    MaxLives = 2
    MaxFiles = 3
INVARIANTS TypeOK AckedIsStored OneHeld SubscribedOnce CheckpointFirst
PROPERTIES SwitchRecorded Drains
CHECK_DEADLOCK FALSE
