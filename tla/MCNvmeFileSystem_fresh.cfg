\* No db_configs: the first database is to get the whole device.
CONSTANTS
    a = a
    b = b
    c = c
    Names = {a}
    LbaCount = 10
    MetadataLbas = 1
    MaxTempLbas = 2
    MaxWalLbas = 1
    DefaultDbLbas = 1
    ConfigOrder <- NoneConfigured
    ConfigLbas <- OneLbaEach
    MaxDatabases = 2
    Word = 32
    MaxIoLbas = 2
SPECIFICATION Spec
PROPERTIES
    FreshDatabaseOpens
