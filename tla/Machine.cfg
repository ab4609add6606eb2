SPECIFICATION Spec
INVARIANTS
    TrapsAreGenuine
    
    CharactersAsTyped
    PrintfTrue
    
    
\* the machine may be reset, panic, be switched off or finish a job
CHECK_DEADLOCK FALSE
