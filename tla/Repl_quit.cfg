SPECIFICATION Safety
CONSTANTS
    Lines = {"two"}
    MaxLines = 1
    MaxPresses = 2
INVARIANT QuitNeedsTwoIdlePresses
CHECK_DEADLOCK FALSE
