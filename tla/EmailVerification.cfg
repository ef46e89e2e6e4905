SPECIFICATION Spec
CONSTANTS
    Request = {r1, r2, r3, r4, r5}
    Email = {e1, e2}
    None = None
CHECK_DEADLOCK FALSE
SYMMETRY Symmetry
INVARIANTS
    TypeOK
    LoginNeedsMailbox
    NoDeadEnd
PROPERTIES
    VerifiedIsFinal
