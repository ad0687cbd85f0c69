SPECIFICATION Spec
CONSTANTS
    t1 = t1
    t2 = t2
    daemon = daemon
    cli = cli
    f1 = f1
    f2 = f2
    f3 = f3
    NoPath = NoPath
    Nobody = Nobody
    Tracks = {t1}
    Paths = {f1, f3}
    MaxTier = 2
    Procs = {daemon}
    ManualProcs = {}
    Namings <- TwoNamings
    Policies = {"keep", "mirror"}
    Tiers = {1, 2}
    Scopes <- BothScopes
    Listings <- NotFavoriteOrAlbum
    Concurrency = 1
    FaultKinds = {"job", "timeout", "removal", "cycle", "cancel", "crash"}
    MaxFaults = 2
INVARIANTS
    DownloadedIsRecorded
PROPERTIES
    RemovalIsJustified
    NeverForgotten
