CONSTANTS
    Threads = {t1, t2}
    Listeners = {l1, l2}
    Nil = Nil
SPECIFICATION FairSpec
INVARIANTS TypeOK NothingLeaked ServiceBacked
PROPERTIES CallsReturn ServicesEnd
CHECK_DEADLOCK FALSE
