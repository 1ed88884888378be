CONSTANTS
    Alice = Alice
    Bob = Bob
    NoKey = NoKey
    ReplayWindowSize = 2
    MaxMessages = 2
    MaxLost = 1
    DamagedNumbers = {3}
SPECIFICATION UnorderedSpec
INVARIANTS ForwardSecrecy MessageKeysUnique ReceiverNeverAhead
PROPERTY ImplementsChannel
CHECK_DEADLOCK FALSE
