SPECIFICATION Spec
CONSTANTS
    t1 = t1
    t2 = t2
    t3 = t3
    k1 = k1
    k2 = k2
    v = v
    Thread = {t1, t2, t3}
    Unlocked = {t2}
    NoThread = NoThread
    Key = {k1, k2}
    Value = {v, Empty}
    Empty = Empty
    Absent = Absent
    Batches <- MCBatches
    KeyLists <- MCKeyLists
CHECK_DEADLOCK FALSE
INVARIANTS
    TypeOK
    RacesNeedUnlocked
PROPERTIES
    AtomicSpec
    MutexReleased
    UnlockedReturn
