\* Names in lower and upper case, of 100 bytes and longer; three secrets.
CONSTANTS
    CutNames <- McCutNames
    LowerCase <- McLowerCase
    Paths <- McPaths
    Secrets <- McSecrets
    MaxDatabases = 4
    TmpStart = 14
    WalLbas = 1
    DefaultLbas = 2
    RuhRange = 4
    MaxHandles = 1
    MaxWritten = 2
SPECIFICATION Spec
INVARIANTS
    TypeOK
    DatabasesKeepTheirRegions
    UnitsAreSeparate
PROPERTIES
    SlotsAreMadeAsConfigured
