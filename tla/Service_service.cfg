SPECIFICATION FairSpec
CONSTANTS
    daemon = daemon
    cli = cli
    login = login
    c1 = c1
    c2 = c2
    Nobody = Nobody
    NoProc = NoProc
    Procs = {daemon, cli, login}
    Syncers = {daemon, cli}
    Daemons = {daemon}
    Logins = {login}
    Callers = {c1, c2}
    Main = c1
    Latest = 2
    Embedded <- Binaries
    MaxSessions = 2
    MaxGen = 2
    MaxFaults = 1
    MaxManual = 1
INVARIANTS
    TypeOK
    OnceInOrder
    SchemaBeforeUse
    StoredIsCurrent
    NeverSpentTwice
PROPERTIES
    DaemonRecovers
