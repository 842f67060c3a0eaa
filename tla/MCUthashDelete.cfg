\* Four keys, buckets of one, three deletions or clearings, sorts at any time.
SPECIFICATION Spec
CONSTANTS
    Key = {k1, k2, k3, k4}
    HashValue = {0, 2}
    HASH_BKT_CAPACITY_THRESH = 1
    MaxDeletes = 3
    MaySort = TRUE
    NULL = NULL
    HASH_INITIAL_NUM_BUCKETS = 2
    HASH_INITIAL_NUM_BUCKETS_LOG2 = 1
SYMMETRY KeySymmetry
INVARIANTS
    TypeOK
    FsckLinks
    FsckItems
PROPERTIES
    ImplementsKeyedList
CHECK_DEADLOCK FALSE
