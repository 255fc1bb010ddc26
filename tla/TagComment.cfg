SPECIFICATION ScanSpec
CONSTANTS
    Strings <- MCStrings
    MaxPieces = 2
INVARIANT
    TextAndValuesUntouched
\* The scan is over when every byte is consumed.
CHECK_DEADLOCK FALSE
