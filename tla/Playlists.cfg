SPECIFICATION Spec
CONSTANTS
    Request = {r1, r2}
    Playlist = {p1, p2, p3}
    Song = {s1, s2, s3, s4}
    None = None
    MaxPlaylists = 1
    MaxSongs = 3
SYMMETRY Symmetry
CONSTRAINT OneLong
INVARIANTS
    TypeOK
    PositionsContiguous
    PlaylistLimitSoft
PROPERTIES
    ImplementsPlaylistSpec
