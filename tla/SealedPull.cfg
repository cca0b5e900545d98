SPECIFICATION Spec
CONSTANTS
    h1 = h1
    m1 = m1
    Partition = {p1, p2}
    Hash = {h1}
    Manifest = {m1}
    Blocks <- MCBlocks
    Lists <- MCLists
    Targets <- MCTargets
    Classes = {"ephemeral", "standard", "durable"}
    NoPart = NoPart
    MaxEvents = 2
PROPERTY SealedTakesNoPlaintext
