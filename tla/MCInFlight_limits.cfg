CONSTANTS
    max_cap = 2
    max_size = 3
    Calls = {c1, c2, c3, c4}
    Sizes = {1, 2, 4}
    MaxCount = 4
SPECIFICATION FairSpec
INVARIANTS CountsExact NoLostWake
PROPERTIES Resumes
CHECK_DEADLOCK FALSE
