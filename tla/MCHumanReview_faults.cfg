SPECIFICATION Spec
CONSTANTS
    Facts = {f1}
    Cases = {c1, c2}
    Entities = {e1, e2, e3}
    Sessions = {s1, s2}
    Uploads = {u1}
    Decisions = {"accept", "reject", "edit"}
    Targets = {"self", "external"}
    Faults = {"crash", "storage"}
    Self = Self
    None = None
SYMMETRY Interchangeable
INVARIANTS
    CompletedCaseTreated
    ForeignFactIsRelated
    ReviewInv
CHECK_DEADLOCK FALSE
