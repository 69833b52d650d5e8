\* One configured database, one allocated when it is opened and a third for
\* which there is no slot: regions of 1 + 1 LBAs, temporary space of 1.
CONSTANTS
    a = a
    b = b
    c = c
    Names = {a, b, c}
    LbaCount = 7
    MetadataLbas = 1
    MaxTempLbas = 1
    MaxWalLbas = 1
    DefaultDbLbas = 1
    ConfigOrder <- OneConfigured
    ConfigLbas <- OneLbaEach
    MaxDatabases = 2
    Word = 32
    MaxIoLbas = 2
SYMMETRY Unconfigured
SPECIFICATION Spec
INVARIANTS
    TypeOK
    RegionsSeparate
    EveryLbaHasItsOwner
PROPERTIES
    RegionsNeverMove
