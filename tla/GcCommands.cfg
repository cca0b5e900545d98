SPECIFICATION FairSpec
CONSTANTS
    h1 = h1
    h2 = h2
    h3 = h3
    m1 = m1
    m2 = m2
    g1 = g1
    g2 = g2
    Hash = {h1, h2, h3}
    Manifest = {m1, m2}
    Blocks <- MCBlocks
    Lists <- MCLists
    PackProc = {k1}
    GcProc = {g1, g2}
    Target <- MCTarget
    Isolation = "command"
INVARIANTS
    TypeOK
    IInv
    Recoverable
    SwapIsExact
    ReportIsTrue
PROPERTIES
    ImplementsContentStore
    GarbageGoes
