CONSTANTS
    ByteBase = 4
    LengthWidth = 2
    SizeLimit = 7
    CurrentVersion = 1
    Writers = {w1}
    Outgoing <- MCOutgoing
    MaxSends = 3
SPECIFICATION FairSpec
INVARIANTS TypeOK ReceivedAsSent
PROPERTY AllReceived
CHECK_DEADLOCK FALSE
