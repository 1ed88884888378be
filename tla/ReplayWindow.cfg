CONSTANTS
    ReplayWindowSize = 4
    MaxSequence = 10
SPECIFICATION WordSpec
INVARIANTS TypeOK AcceptedAtMostOnce WindowExact WordAgrees
PROPERTY RefinesGuard
