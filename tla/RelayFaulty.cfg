CONSTANTS
    Clients = {a, b}
    Conns = {k1, k2, k3}
    NoConn = NoConn
    MailboxTTL = 0
    MaxTime = 1
    MaxPackets = 2
SPECIFICATION Spec
SYMMETRY Symmetry
INVARIANTS TypeOK PacketsAccountedFor NoMisdelivery OnlineMailPutBack WrittenOnce
CHECK_DEADLOCK FALSE
