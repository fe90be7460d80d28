SPECIFICATION Spec
CONSTANTS
    t1 = t1
    t2 = t2
    t3 = t3
    Thread = {t1, t2, t3}
    Buffer = {b1, b2, b3}
    Garbage = Garbage
    Usage <- Safe
INVARIANTS
    SingleHolder Conserved
