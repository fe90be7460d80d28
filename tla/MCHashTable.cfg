SPECIFICATION Spec
CONSTANTS
    k1 = k1
    k2 = k2
    k3 = k3
    k4 = k4
    k5 = k5
    Key = {k1, k2, k3, k4, k5}
    Value = {a, b}
    NULL = NULL
    Hash <- Colliding
    MinimumCapacity = 4
    RequestCapacity = 0
    MayFail = TRUE
INVARIANTS RobinHood LoopsEnd
PROPERTY IsMap
