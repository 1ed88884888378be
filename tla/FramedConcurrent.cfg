CONSTANTS
    ByteBase = 4
    LengthWidth = 2
    SizeLimit = 7
    CurrentVersion = 1
    Writers = {w1, w2}
    Outgoing <- MCOutgoing
    MaxSends = 2
SPECIFICATION Spec
INVARIANT FramesWhole
CHECK_DEADLOCK FALSE
