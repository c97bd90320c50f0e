SPECIFICATION GSpec
CONSTANTS
    Claims = {c1, c2}
    Queries = {q1, q2}
    Passages = {p1, p2}
    NoClaim = NoClaim
    NoQuery = NoQuery
INVARIANTS
    EvidenceIsTraceable
    DecisionIsGrounded
PROPERTIES
    DecisionIsFinal
SYMMETRY GraphSymmetry
CHECK_DEADLOCK FALSE
