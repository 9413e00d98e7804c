\* Two requests at a time, a reader, an invalidation that fails.
CONSTANTS
    Operators = {a1, a2}
    Readers = {r1}
    Keys = {k1, k2}
    Ids = {1, 2}
    NoKey = NoKey
    TTL = 1
    MaxRead = 1
    MaxSaves = 3
    MaxFaults = 1
SPECIFICATION Spec
SYMMETRY Symmetry
INVARIANTS TypeOK CacheCoherent FreshAfterTTL ComponentsOfOneSave
CHECK_DEADLOCK FALSE
