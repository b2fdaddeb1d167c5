\* Uploads, other calls, errors and expired tokens, over HTTP/1.1.
SPECIFICATION FairSpec
CONSTANTS
    Byte <- Bytes
    Zero = 0
    Preamble <- Prefix
    Epilogue <- Suffix
    Versions <- Files
    Windows = {2}
    MaxWrites = 2
    Http2 = FALSE
    ErrorLimit = 2
    MaxBody = 2
    MaxTrouble = 2
INVARIANTS Framed WholeFile NoErrorFed
PROPERTIES TokenRenewed CallSpec CallEnds
