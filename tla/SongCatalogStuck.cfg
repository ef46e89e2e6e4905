SPECIFICATION Spec
CONSTANTS
    Song = {s1, s2}
    Track = {t1, t2}
    None = None
SYMMETRY Symmetry
INVARIANTS
    NoStuckSong
