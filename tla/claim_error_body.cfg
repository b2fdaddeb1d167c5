\* The same over HTTP/2.
SPECIFICATION Spec
CONSTANTS
    Byte <- Bytes
    Zero = 0
    Preamble <- Prefix
    Epilogue <- Suffix
    Versions <- Files
    Windows = {2}
    MaxWrites = 0
    Http2 = TRUE
    ErrorLimit = 2
    MaxBody = 2
    MaxTrouble = 2
INVARIANT NoErrorFed
