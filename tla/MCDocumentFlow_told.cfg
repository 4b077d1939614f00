SPECIFICATION Spec
CONSTANTS
    Documents = {d1, d2}
    Files = {h1}
    Entities = {e1}
    Sessions = {s1}
    Keys = {k1}
    Faults = {}
    None = None
PROPERTIES
    SuccessMeansProcessed
CHECK_DEADLOCK FALSE
