\* harris_list: one thread runs on although the other may stop anywhere.
CONSTANTS
    Threads = {t1, t2}
    Solo = {t1}
    Keys = {1, 2}
    LIST_VAL_MIN = 0
    LIST_VAL_MAX = 3
    Initial <- OneTwo
    Variants = {"harris"}
    MaxOps = 2
    MaxNodes = 7
    NULL = NULL
SPECIFICATION SoloSpec
PROPERTY SoloCompletes
