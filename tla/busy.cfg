\* Files rewritten on both sides while runs are under way, and requests that fail.
SPECIFICATION HSpec
CONSTANTS
    root = root
    a = a
    b = b
    c = c
    d = d
    x = x
    y = y
    z = z
    Node = {a, b}
    Root = root
    Parent <- FlatParent
    Under <- FlatUnder
    Content = {x, y, z}
    Size <- OneSize
    ReadOnly = {}
    Absent = Absent
    Dir = Dir
    Bad = Bad
    Partial = Partial
    NoMD5 = NoMD5
    Missing = Missing
    Holds <- OwnContents
    UserOps = {"local_put", "local_remove", "remote_put"}
    Options <- Plain
    Hides <- NoIgnores
    NoIgnore = "none"
    Faults = {"request", "die"}
    Concurrent = {"local_put", "remote_put"}
    Starts = {"synced"}
    MaxEdits = 3
    MaxFaults = 2
INVARIANTS NoGarbage OneRunSettles
PROPERTY NoLostUpdate
