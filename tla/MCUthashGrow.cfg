\* Six keys, one bucket of two at first, up to two expansions, one deletion or clearing.
SPECIFICATION Spec
CONSTANTS
    Key = {k1, k2, k3, k4, k5, k6}
    HashValue = {0, 2}
    HASH_BKT_CAPACITY_THRESH = 2
    MaxDeletes = 1
    MaySort = FALSE
    NULL = NULL
    HASH_INITIAL_NUM_BUCKETS = 1
    HASH_INITIAL_NUM_BUCKETS_LOG2 = 0
SYMMETRY KeySymmetry
INVARIANTS
    FindsExactly
    ChainsBounded
CHECK_DEADLOCK FALSE
