SPECIFICATION Spec
CONSTANTS
    FileKeys <- MCFileKeys
    Values <- MCValues
    MaxLines = 5
INVARIANT ConfigMirrorsFile
\* the program ends
CHECK_DEADLOCK FALSE
