SPECIFICATION FairSpec
CONSTANTS
    Thread = {t1, t2, t3}
    Level = {l1, l2}
    NoThread = NoThread
INVARIANTS Exclusion NoLostWakeup
PROPERTY WriterProgress
