SPECIFICATION NoiseSpec
CONSTANTS
    Items = {i1, i2}
    Pages = {p1, p2}
    Values = {v1}
INVARIANTS
    UsefulResultsReachReview
CHECK_DEADLOCK FALSE
