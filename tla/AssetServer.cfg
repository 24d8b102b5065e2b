CONSTANTS
    h1 = h1
    h2 = h2
    p1 = p1
    p2 = p2
    None = None
    Contents = {h1, h2}
    Paths = {p1, p2}
    Bakeable = {p1}
    BakedHash <- MCBakedHash
    MaxFaults = 1
SPECIFICATION Spec
INVARIANT
    BakedFilesStored
PROPERTIES
    FilesKeptWhileMapped
    CleanAfterSetup
