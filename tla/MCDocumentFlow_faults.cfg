SPECIFICATION Spec
CONSTANTS
    Documents = {d1, d2, d3}
    Files = {h1, h2, h3}
    Entities = {e1, e2}
    Sessions = {s1, s2}
    Keys = {k1}
    Faults = {"crash", "storage"}
    None = None
SYMMETRY Symmetry
INVARIANTS
    ProcessedIsBacked
    QueuedDocumentKept
    DocumentInv
PROPERTIES
    ImplementsArchive
CHECK_DEADLOCK FALSE
