SPECIFICATION Spec
CONSTANTS
    Facts = {f1, f2}
    Cases = {c1, c2, c3}
    Entities = {e1}
    Sessions = {s1}
    Uploads = {u1, u2}
    Decisions = {"accept", "reject", "edit"}
    Targets = {"self"}
    Faults = {}
    Self = Self
    None = None
SYMMETRY Interchangeable
INVARIANTS
    FactsAndCasesAgree
CHECK_DEADLOCK FALSE
