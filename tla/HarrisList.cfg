\* Three operations at a time on a list of two keys, both variants.
CONSTANTS
    Threads = {t1, t2, t3}
    Solo = {}
    Keys = {1, 2, 3}
    LIST_VAL_MIN = 0
    LIST_VAL_MAX = 4
    Initial <- OneTwo
    Variants = {"harris", "hp_harris"}
    MaxOps = 1
    MaxNodes = 7
    NULL = NULL
SPECIFICATION Spec
SYMMETRY Symmetric
INVARIANTS
    TypeOK
    ListSorted
    NoMarkedLeft
PROPERTIES
    ImplementsSet
