SPECIFICATION Spec
CONSTANTS
    Request = {r1, r2, r3}
    Secret = {s1, s2}
    None = None
    MaxAttempts = 2
    LockDuration = 2
    Horizon = 4
SYMMETRY Symmetry
INVARIANTS
    TypeOK
    WrongCodesBounded
PROPERTIES
    TotpStaysEnabled
    PremiumNeedsTotp
