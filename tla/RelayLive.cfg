CONSTANTS
    Clients = {a, b}
    Conns = {k1, k2, k3}
    NoConn = NoConn
    MailboxTTL = 0
    MaxTime = 1
    MaxPackets = 1
SPECIFICATION LiveSpec
PROPERTIES HandlersEnd EventuallyWritten
CHECK_DEADLOCK FALSE
