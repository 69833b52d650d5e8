\* One configured database with a file of 3 LBAs and a WAL of 1, and a second
\* one too large for the device: every location a file can have, and, when the
\* second one is opened first, an initialisation that is refused after the first
\* registration.
CONSTANTS
    a = a
    b = b
    c = c
    Names = {a, b}
    LbaCount = 7
    MetadataLbas = 1
    MaxTempLbas = 1
    MaxWalLbas = 1
    DefaultDbLbas = 9
    ConfigOrder <- OneConfigured
    ConfigLbas <- ThreeLbasEach
    MaxDatabases = 2
    Word = 32
    MaxIoLbas = 4
SPECIFICATION Spec
INVARIANTS
    LocationsInRegion
    LayoutIsDurable
PROPERTIES
    SizesAreDurable
