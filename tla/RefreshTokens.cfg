SPECIFICATION FairSpec
CONSTANTS
    Txn = {p1, p2}
    Token = {t1, t2, t3}
    Family = {f1, f2}
    None = None
INVARIANTS
    TypeOK
    OneActivePerFamily
    SingleLineage
PROPERTIES
    ImplementsSessionSpec
    EveryRequestAnswered
