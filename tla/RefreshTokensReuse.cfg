SPECIFICATION Spec
CONSTANTS
    Txn = {p1, p2}
    Token = {t1, t2, t3}
    Family = {f1}
    None = None
SYMMETRY Symmetry
PROPERTIES
    ReuseKillsSession
