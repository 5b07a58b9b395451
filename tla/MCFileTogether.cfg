\* Two handles of one process.
CONSTANTS
    h1 = h1
    h2 = h2
    p1 = p1
    p2 = p2
    i1 = i1
    i2 = i2
    i3 = i3
    i4 = i4
    Handles <- TwoHandles
    Processes <- OneProcess
    ProcessOf <- Together
    Keys = {k1, k2}
    NoKey = NoKey
    Values = {v1}
    Missing = Missing
    Inodes <- MCInodes
    NoInode = NoInode
    Closed = Closed
    Empty = Empty
    Torn = Torn
    Unknown = Unknown
    ReadsFail = FALSE
SPECIFICATION Spec
SYMMETRY Symmetry
VIEW Visible
INVARIANT FileIsWhole
