\* A folder removed on the disk and fetched again with -f, by a run that fails.
SPECIFICATION CSpec
CONSTANTS
    root = root
    a = a
    b = b
    c = c
    d = d
    x = x
    y = y
    z = z
    Node = {a, d}
    Root = root
    Parent <- TreeParent
    Under <- TreeUnder
    Content = {x, y, z}
    Size <- OneSize
    ReadOnly = {}
    Absent = Absent
    Dir = Dir
    Bad = Bad
    Partial = Partial
    NoMD5 = NoMD5
    Missing = Missing
    Holds <- OwnContents
    UserOps = {"local_remove"}
    Options <- ForcedRuns
    Hides <- NoIgnores
    NoIgnore = "none"
    Faults = {"request"}
    Concurrent = {}
    Starts = {"synced"}
    MaxEdits = 1
    MaxFaults = 1
INVARIANT LocalIsNewer
