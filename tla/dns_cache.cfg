CONSTANTS
    t1 = t1
    t2 = t2
    k1 = k1
    k2 = k2
    k3 = k3
    v1 = v1
    v2 = v2
    Threads = {t1, t2}
    Keys = {k1, k2, k3}
    NoKey = NoKey
    Values = {v1, v2}
    Nothing = Nothing
    Lifetimes = {1, 2}
    TTL = 2
    MaxEntries = 2
SPECIFICATION Spec
SYMMETRY Symmetry
INVARIANTS
    DictWellFormed
PROPERTIES
    LiveKeysLeaveInOrder
    RefinesLossyMap
