\* What happens in the end.
SPECIFICATION FairSpec
CONSTANTS
    root = root
    a = a
    b = b
    c = c
    d = d
    x = x
    y = y
    z = z
    Node = {a, b}
    Root = root
    Parent <- FlatParent
    Under <- FlatUnder
    Content = {x, y, z}
    Size <- OneSize
    ReadOnly = {}
    Absent = Absent
    Dir = Dir
    Bad = Bad
    Partial = Partial
    NoMD5 = NoMD5
    Missing = Missing
    Holds <- SameContents
    UserOps = {"local_put", "local_remove", "local_move", "remote_put", "remote_trash", "remote_move"}
    Options <- Plain
    Hides <- NoIgnores
    NoIgnore = "none"
    Faults = {"request", "lost_reply", "die", "torn_save"}
    Concurrent = {}
    Starts = {"synced"}
    MaxEdits = 2
    MaxFaults = 2
PROPERTIES RunEnds Converges
