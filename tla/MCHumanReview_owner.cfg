SPECIFICATION Spec
CONSTANTS
    Facts = {f1}
    Cases = {c1}
    Entities = {e1}
    Sessions = {s1}
    Uploads = {u1}
    Decisions = {"accept", "reject", "edit"}
    Targets = {"self", "external"}
    Faults = {}
    Self = Self
    None = None
SYMMETRY Interchangeable
INVARIANTS
    FactBelongsToOwner
CHECK_DEADLOCK FALSE
