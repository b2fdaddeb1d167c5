\* Three files of two contents, renamed on the disk.
SPECIFICATION HSpec
CONSTANTS
    root = root
    a = a
    b = b
    c = c
    d = d
    x = x
    y = y
    z = z
    Node = {a, b, c}
    Root = root
    Parent <- FlatParent
    Under <- FlatUnder
    Content = {x, y, z}
    Size <- OneSize
    ReadOnly = {}
    Absent = Absent
    Dir = Dir
    Bad = Bad
    Partial = Partial
    NoMD5 = NoMD5
    Missing = Missing
    Holds <- SameContents
    UserOps = {"local_move"}
    Options <- Plain
    Hides <- NoIgnores
    NoIgnore = "none"
    Faults = {"request"}
    Concurrent = {}
    Starts = {"synced"}
    MaxEdits = 3
    MaxFaults = 2
PROPERTY RenamesKeepFiles
