CONSTANTS
    file1 = file1
    file2 = file2
    background = background
    command = command
    Files = {file1, file2}
    Commands = {command}
    Background = {}
    Windows = {1, 2}
    Cap = 1
    MaxWrites = 2
    MaxFaults = 0
    Editable = {}
    Removable = {}
SPECIFICATION Spec
INVARIANT StaleIsDetected
SYMMETRY Symmetry
CHECK_DEADLOCK FALSE
