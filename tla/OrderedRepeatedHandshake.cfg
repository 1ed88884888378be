CONSTANTS
    Alice = Alice
    Bob = Bob
    NoKey = NoKey
    ReplayWindowSize = 2
    MaxMessages = 1
    MaxLost = 0
    RepeatTypes = {"init", "resp"}
SPECIFICATION Spec
PROPERTY RepeatsChangeNothing
CHECK_DEADLOCK FALSE
