\* Everything at once: files where others have folders, things that cannot be read,
\* folders that are not editable, files with two parents, every option and failure.
SPECIFICATION Spec
CONSTANTS
    root = root
    a = a
    b = b
    c = c
    d = d
    x = x
    y = y
    z = z
    Node = {a, d}
    Root = root
    Parent <- SplitParent
    Under <- SplitUnder
    Content = {x, y, z}
    Size <- OneSize
    ReadOnly = {d}
    Absent = Absent
    Dir = Dir
    Bad = Bad
    Partial = Partial
    NoMD5 = NoMD5
    Missing = Missing
    Holds <- Mixed
    UserOps = {"local_put", "local_remove", "local_move", "remote_put", "remote_trash", "remote_move", "remote_share"}
    Options <- EachOption
    Hides <- NoIgnores
    NoIgnore = "none"
    Faults = {"request", "lost_reply", "die", "torn_save"}
    Concurrent = {}
    Starts = {"synced", "fresh"}
    MaxEdits = 2
    MaxFaults = 1
INVARIANT TypeOK
PROPERTIES DryRunIsDry UploadOnly ForceOnlyPulls
