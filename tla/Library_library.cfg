SPECIFICATION FairSpec
CONSTANTS
    t1 = t1
    t2 = t2
    t3 = t3
    a1 = a1
    p1 = p1
    p2 = p2
    monday = monday
    tuesday = tuesday
    favoriteTracks = favoriteTracks
    Tracks = {t1, t2}
    Albums = {a1}
    Playlists = {p1, p2}
    Songs <- OneAlbum
    Titles = {monday, tuesday}
    Stem <- OwnStems
    FavoriteStem = favoriteTracks
    Scope = {"tracks", "albums", "playlists"}
    Start <- TwoOfEach
    PageSize = 1
    Unversioned = {p2}
    Repeats = FALSE
    MaxEdits = 2
    MaxFaults = 1
INVARIANTS
    TypeOK
    CacheIsExact
    NothingLost
    DesiredIsLibrary
    StubsAreSettled
PROPERTIES
    Mirrors
