\* hp_harris_list: a search does not remove the marked nodes it meets.
CONSTANTS
    Threads = {t1, t2}
    Solo = {t1}
    Keys = {1, 2}
    LIST_VAL_MIN = 0
    LIST_VAL_MAX = 3
    Initial <- OneTwo
    Variants = {"hp_harris"}
    MaxOps = 1
    MaxNodes = 7
    NULL = NULL
SPECIFICATION SoloSpec
PROPERTY SearchRemovesMarked
