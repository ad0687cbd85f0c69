SPECIFICATION Spec
CONSTANTS
    c1 = c1
    c2 = c2
    f1 = f1
    NoFile = NoFile
    Paths = {f1}
    Request = 4
    Floor = 3
    Calls = {c1, c2}
    Dest <- OneDestination
    Grants = {2, 3}
    Pieces = 2
    Attempts = 2
SYMMETRY Alike
INVARIANTS
    TypeOK
    WholeFiles
    StagingIsOwned
PROPERTY
    KeepsPromise
