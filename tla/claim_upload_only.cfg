\* Runs with -u after an edit on the server.
SPECIFICATION CSpec
CONSTANTS
    root = root
    a = a
    b = b
    c = c
    d = d
    x = x
    y = y
    z = z
    Node = {a}
    Root = root
    Parent <- FlatParent
    Under <- FlatUnder
    Content = {x, y, z}
    Size <- OneSize
    ReadOnly = {}
    Absent = Absent
    Dir = Dir
    Bad = Bad
    Partial = Partial
    NoMD5 = NoMD5
    Missing = Missing
    Holds <- OwnContents
    UserOps = {"remote_put"}
    Options <- UploadOnlyRuns
    Hides <- NoIgnores
    NoIgnore = "none"
    Faults = {}
    Concurrent = {}
    Starts = {"synced"}
    MaxEdits = 3
    MaxFaults = 1
PROPERTY OnlyLocalChangesUploaded
