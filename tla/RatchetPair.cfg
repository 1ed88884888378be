CONSTANTS
    Alice = Alice
    Bob = Bob
    NoKey = NoKey
    MaxMessages = 4
SPECIFICATION Spec
INVARIANTS EveryMessageOpens SkippedKeysExact
CHECK_DEADLOCK FALSE
