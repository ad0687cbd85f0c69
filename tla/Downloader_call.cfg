SPECIFICATION FairSpec
CONSTANTS
    c1 = c1
    c2 = c2
    f1 = f1
    NoFile = NoFile
    Paths = {f1}
    Request = 4
    Floor = 3
    Calls = {c1}
    Dest <- OneCall
    Grants = {0, 1, 2, 3, 4}
    Pieces = 3
    Attempts = 3
INVARIANTS
    WholeFiles
    BestTierObtained
PROPERTY
    StallsOnlyWaiting
