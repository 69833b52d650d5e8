\* Two threads at two files of up to two blocks, and room for three.
CONSTANTS
    Threads = {t1, t2}
    Files = {f, g}
    Blocks = {b1, b2, b3}
    MaxBlocks = 2
SYMMETRY Symmetry
SPECIFICATION Spec
INVARIANTS
    TypeOK
    EachBlockHasOnePlace
    LookupsStayValid
    BlocksHoldOwnData
    ActiveFilesAreCounted
PROPERTIES
    TruncateCutsDenseFiles
