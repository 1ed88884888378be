CONSTANTS
    Clients = {a, b}
    Conns = {k1, k2}
    NoConn = NoConn
    MailboxTTL = 1
    MaxTime = 0
    MaxPackets = 2
SPECIFICATION Spec
INVARIANT NothingWiped
CHECK_DEADLOCK FALSE
