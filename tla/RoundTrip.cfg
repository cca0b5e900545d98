SPECIFICATION Spec
CONSTANTS
    ab = ab
    backslash = backslash
    top = top
    c = c
    c1 = c1
    c2 = c2
    None = None
    Tree <- MCTree
    Path <- MCPath
    Rel <- MCRel
    Order <- MCOrder
    Above <- MCAbove
    Content = {c1, c2}
    Identity = {None, acme}
    MaxPacks = 2
    Bounded = TRUE
INVARIANTS
    TypeOK
    IInv
    ManifestNamesTree
    RestoresTheTree
    PrefixIsInPlace
