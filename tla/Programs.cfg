SPECIFICATION Spec
INVARIANTS
    
    ValuesReachFields
    
    LineParsed
    LibraryTrue
    DisagreementCaught
    OneSound
    JobsCoverInput
    GroupsExact
    OverlapCounted
    WinnerTrue
PROPERTIES
    FindsMouse
\* the programs exit, crash or return
CHECK_DEADLOCK FALSE
