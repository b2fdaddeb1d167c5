\* The text of values, the configuration, one file, the XML tree, the listing, and times.
SPECIFICATION Parts
CONSTANTS
    a1 = a1
    Nil = none
    none = none
    Name = {1, 2, 3}
    BadName = {3}
    Atom = {a1}
    Documents <- Docs
    MaxTokens = 7
    Proc = {p, q}
    Wish = {w1, w2}
    Absent = absent
    Missing = missing
    Torn = torn
    MaxGrants = 2
    MaxHands = 2
    MaxDeaths = 1
    Inode = {i1, i2}
    b = b
    Block = {z, b}
    Zero = z
    Unnamed = unnamed
    NoSum = nosum
    Bodies <- TheBodies
    MaxLen = 2
    MaxClock = 2
    Slot = {h, g}
    Tag = {1, 2}
    Anonymous = 0
    MaxImpls = 4
    MaxRefs = 3
    MaxCalls = 3
    h1 = h1
    h2 = h2
    h3 = h3
    m1 = m1
    m2 = m2
    Href = {h1, h2, h3}
    RootHref = root
    NoHref = nohref
    Label = {1, 2, 3}
    Slashed = {3}
    Sum = {m1, m2}
    NoMd5 = nomd5
    Listings <- TheListings
    Scans <- TheScans
    MaxNodes = 6
    Base = 2
    Digits = {0, 3}
    Seconds <- TheSeconds
    NoDate = nodate
    None = none
    LongValues <- LongOfSix
SYMMETRY Alike
CHECK_DEADLOCK FALSE
INVARIANTS NoThrow OnlyWholeTexts ReadBack TokenKept SettingsKept WriteNoticed NoDangling Reclaimed WellNested FoundInOrder
INVARIANTS Placed OneEach KeysCurrent NewsIsLater Ordered
PROPERTY PartialAnswersAgree
