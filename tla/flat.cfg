\* Two files with contents of their own, edited on both sides between runs whose requests
\* and answers are lost and that die.
SPECIFICATION HSpec
CONSTANTS
    root = root
    a = a
    b = b
    c = c
    d = d
    x = x
    y = y
    z = z
    Node = {a, b}
    Root = root
    Parent <- FlatParent
    Under <- FlatUnder
    Content = {x, y, z}
    Size <- OneSize
    ReadOnly = {}
    Absent = Absent
    Dir = Dir
    Bad = Bad
    Partial = Partial
    NoMD5 = NoMD5
    Missing = Missing
    Holds <- OwnContents
    UserOps = {"local_put", "local_remove", "remote_put", "remote_trash"}
    Options <- Plain
    Hides <- NoIgnores
    NoIgnore = "none"
    Faults = {"request", "lost_reply", "die", "torn_save"}
    Concurrent = {}
    Starts = {"synced"}
    MaxEdits = 3
    MaxFaults = 2
PROPERTY TwoWaySpec
