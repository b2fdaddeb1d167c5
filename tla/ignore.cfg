\* A folder and a file in it, either of them hidden in some runs.
SPECIFICATION HSpec
CONSTANTS
    root = root
    a = a
    b = b
    c = c
    d = d
    x = x
    y = y
    z = z
    Node = {a, d}
    Root = root
    Parent <- TreeParent
    Under <- TreeUnder
    Content = {x, y, z}
    Size <- OneSize
    ReadOnly = {}
    Absent = Absent
    Dir = Dir
    Bad = Bad
    Partial = Partial
    NoMD5 = NoMD5
    Missing = Missing
    Holds <- OwnContents
    UserOps = {"local_put", "local_remove", "remote_put", "remote_trash"}
    Options <- PlainOrNoNew
    Hides <- HideEither
    NoIgnore = "none"
    Faults = {"request"}
    Concurrent = {}
    Starts = {"synced"}
    MaxEdits = 3
    MaxFaults = 1
PROPERTIES HiddenSpared HiddenUntouched
