SPECIFICATION Spec
CONSTANTS
    t1 = t1
    t2 = t2
    t3 = t3
    a1 = a1
    p1 = p1
    p2 = p2
    monday = monday
    tuesday = tuesday
    favoriteTracks = favoriteTracks
    Tracks = {t1, t2, t3}
    Albums = {}
    Playlists = {p1}
    Songs <- NoAlbum
    Titles = {monday, tuesday}
    Stem <- OwnStems
    FavoriteStem = favoriteTracks
    Scope = {"tracks"}
    Start <- ThreeTracks
    PageSize = 1
    Unversioned = {}
    Repeats = FALSE
    MaxEdits = 1
    MaxFaults = 0
PROPERTIES
    UnfavoritedOnly
