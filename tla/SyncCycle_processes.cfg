SPECIFICATION Spec
CONSTANTS
    t1 = t1
    t2 = t2
    daemon = daemon
    cli = cli
    f1 = f1
    f2 = f2
    f3 = f3
    NoPath = NoPath
    Nobody = Nobody
    Tracks = {t1, t2}
    Paths = {f1, f2}
    MaxTier = 1
    Procs = {daemon, cli}
    ManualProcs = {cli}
    Namings <- OneNaming
    Policies = {"keep", "mirror"}
    Tiers = {1}
    Scopes <- FavoriteTracksScope
    Listings <- NotOrFavorite
    Concurrency = 3
    FaultKinds = {"job", "timeout", "removal", "cycle", "cancel", "crash"}
    MaxFaults = 1
INVARIANTS
    TypeOK
    OneCycleAtATime
    PartsAreLive
    DownloadedIsRecorded
PROPERTIES
    RemovalIsJustified
    NeverForgotten
    SnapshotAdvancesWhole
