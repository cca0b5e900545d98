SPECIFICATION FairSpec
CONSTANTS
    h1 = h1
    m1 = m1
    Partition = {p1, p2}
    Hash = {h1}
    Manifest = {m1}
    Blocks <- MCBlocks
    Lists <- MCLists
    Targets <- MCTargets
    Classes = {"standard"}
    NoPart = NoPart
    MaxEvents = 1
INVARIANTS
    TypeOK
    IInv
    GcOfAllSettlesAll
 
