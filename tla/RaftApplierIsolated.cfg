SPECIFICATION Spec
CONSTANTS
    N = 2
    Restarted = {1}
    MaxStarts = 2
    MaxSent = 4
    MaxIndex = 2
    Commands = {"a"}
    Submitted = "a"
    Expected = {2}
    Interval = 2
    Snap = {TRUE, FALSE}
    Correct = TRUE
INVARIANT PreviousIsolated
\* the test may fail
CHECK_DEADLOCK FALSE
