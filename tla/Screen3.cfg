SPECIFICATION Spec
CONSTANTS
    Request = {r1, r2}
    Playlist = {p1, p2}
    Song = {s1, s2}
    None = None
    MaxChanges = 3
SYMMETRY Symmetry
CONSTRAINT PlaysOrEdits
INVARIANTS
    TypeOK
    PanelIsTrue
    BarIsRight
    MusicStaysOnItsScreen
    SignedOutLeaves
PROPERTIES
    ShownAnswersAdvance
