\* A folder with two files, edited on both sides between runs, one of which fails or dies.
SPECIFICATION HSpec
CONSTANTS
    root = root
    a = a
    b = b
    c = c
    d = d
    x = x
    y = y
    z = z
    Node = {a, b, d}
    Root = root
    Parent <- TreeParent
    Under <- TreeUnder
    Content = {x, y, z}
    Size <- OneSize
    ReadOnly = {}
    Absent = Absent
    Dir = Dir
    Bad = Bad
    Partial = Partial
    NoMD5 = NoMD5
    Missing = Missing
    Holds <- OwnContents
    UserOps = {"local_put", "local_remove", "remote_put", "remote_trash"}
    Options <- Plain
    Hides <- NoIgnores
    NoIgnore = "none"
    Faults = {"request", "die"}
    Concurrent = {}
    Starts = {"synced"}
    MaxEdits = 3
    MaxFaults = 1
INVARIANTS NoAbort IndexRooted OneRunSettles IndexHonest
