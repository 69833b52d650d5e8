\* The layout of the default sizes, scaled down: the region is one LBA short of
\* a multiple of the class width, so its last block is too.
CONSTANTS
    RegionStart = 3
    RegionLbas = 9
    ClassLbas = 2
    Classes = 3
    Sizes = {2, 4, 6}
    Addresses = {b1, b2, b3, b4, b5}
    Null = Null
SPECIFICATION Spec
INVARIANTS
    TypeOK
    BlocksTileRegion
    FreeListsAreExact
    FreeSpaceIsMerged
    ShortBlocksEndTheRegion
PROPERTIES
    TransfersAreApart
