SPECIFICATION Spec
CONSTANTS
    Request = {w1, w2}
    Host = {h}
    User = {u}
    NoBearer = NoBearer
    Traffic = {"login"}
    Capacity <- MCCapacity
    TokenTime <- MCTokenTime
    MaxDelay = 2
    Horizon = 9
SYMMETRY Symmetry
INVARIANTS
    TypeOK
    BudgetBound
    HostLoginBudget
PROPERTIES
    RejectionIsFree
