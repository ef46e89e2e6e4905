SPECIFICATION Spec
CONSTANTS
    Request = {r1, r2}
    Secret = {s1, s2}
    None = None
    MaxAttempts = 2
    LockDuration = 2
    Horizon = 1
SYMMETRY Symmetry
INVARIANTS
    EnabledMeansConfirmed
