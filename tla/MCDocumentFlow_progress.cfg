SPECIFICATION FairSpec
CONSTANTS
    Documents = {d1, d2, d3}
    Files = {h1, h2}
    Entities = {e1}
    Sessions = {s1, s2}
    Keys = {k1}
    Faults = {}
    None = None
PROPERTIES
    UploadsSettle
    FactsReachReview
CHECK_DEADLOCK FALSE
