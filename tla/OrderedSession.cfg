CONSTANTS
    Alice = Alice
    Bob = Bob
    NoKey = NoKey
    ReplayWindowSize = 2
    MaxMessages = 3
    MaxLost = 1
    RepeatTypes = {"data"}
SPECIFICATION FairSpec
INVARIANTS TypeOK RootsAgree OpenedOrChainBroken ForwardSecrecy HealsAfterDHStep
PROPERTIES RepeatsChangeNothing HandshakeCompletes EventuallyDelivered
CHECK_DEADLOCK FALSE
