SPECIFICATION Spec
CONSTANTS
    Facts = {f1, f2}
    Cases = {c1}
    Entities = {e1}
    Sessions = {s1}
    Uploads = {u1}
    Decisions = {"accept", "reject", "edit"}
    Targets = {"self"}
    Faults = {"crash"}
    Self = Self
    None = None
SYMMETRY Interchangeable
INVARIANTS
    RejectedStaysOut
CHECK_DEADLOCK FALSE
