CONSTANTS
    Default = Default
    Profiles = {Default, Second}
    Peers = {p}
    Threads = {t1, t2}
    Conns = {c1, c2}
    Nil = Nil
    Pins = {pin1, pin2}
    ShortPins = {pin2}
    MaxSettings = 3
    MaxSends = 2
    MaxOffers = 1
SPECIFICATION AppSpec
INVARIANTS TypeOK RecordedWasSent OneSignerPerPeer AbandonedOnlyByRace CodesMatch
SYMMETRY Symmetry
CHECK_DEADLOCK FALSE
