SPECIFICATION ScanSpec
CONSTANTS
    Strings <- MCStrings
    MaxPieces = 2
INVARIANT
    StripsNamesOnly
PROPERTY
    ScanEnds
\* The scan is over when every byte is consumed.
CHECK_DEADLOCK FALSE
