SPECIFICATION Spec
CONSTANTS
    h1 = h1
    h2 = h2
    p1 = p1
    p2 = p2
    m1 = m1
    m2 = m2
    e1 = e1
    e2 = e2
    e3 = e3
    None = None
    Hash = {h1, h2}
    Partition = {p1, p2}
    Manifest = {m1, m2}
    Entry = {e1, e2, e3}
    Home <- MCHome
    Entries <- MCEntries
    Tree <- MCTree
    Rebuilt <- MCRebuilt
    Args <- MCArgs
    Bounded = TRUE
INVARIANTS
    TypeOK
    IInv
    PassIsSound
    ReportIsComplete
    TallyAgrees
    PassWritesNothing
    VerifiedUnpacks
